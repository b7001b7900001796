--------------------------- MODULE WorkSharingProofs ---------------------------
(***************************************************************************)
(* How work is shared, for all sizes and numbers of threads: the shares of *)
(* balance211; the groups of a reduction, which fit the team and the       *)
(* buffers, their jobs, and the rectangles of these that threads add up;   *)
(* the blocks and the parts of the no-copy sgemm.                          *)
(***************************************************************************)
EXTENDS ReduceBalancer, NocopyPartition, WellFoundedInduction, TLAPS

------------------------------------------------------------------------------
(* balance211                                                              *)

\* A set of numbers has a smallest one: of a loop over them, the first that
\* does what is looked for; of a proof, the smallest that would refute it.
LEMMA SmallestExists ==
    ASSUME NEW T, T \subseteq Nat, T # {}
    PROVE  \E x \in T : \A y \in T : x <= y
<1>1. IsWellFoundedOn(OpToRel(<, Nat), Nat)
    BY NatLessThanWellFounded
<1>2. \E x \in T : \A y \in T : <<y, x>> \notin OpToRel(<, Nat)
    BY <1>1, WFMin
<1>3. \A x, y \in Nat : <<y, x>> \notin OpToRel(<, Nat) => x <= y
    BY DEF OpToRel
<1>. QED BY <1>2, <1>3

\* Division rounded down, by its defining inequalities.
LEMMA Quotients ==
    ASSUME NEW a \in Nat, NEW b \in Nat \ {0}
    PROVE  /\ a \div b \in Nat /\ a % b \in 0 .. b - 1
           /\ a = b * (a \div b) + (a % b)
           /\ (a \div b) * b <= a
           /\ b <= a => a \div b >= 1
           /\ a \div b <= a
<1>. DEFINE q == a \div b
            r == a % b
<1>1. q \in Nat /\ r \in 0 .. b - 1 /\ a = b * q + r
    OBVIOUS
<1>. HIDE DEF q, r
<1>2. q * b = b * q /\ (q = 0 => b * q = 0)
    BY <1>1
<1>3. b <= a => q >= 1
    BY <1>1, <1>2
<1>4. q <= b * q
    BY <1>1
<1>. QED BY <1>1, <1>2, <1>3, <1>4 DEF q, r

\* Division rounded up, by its defining inequalities.
LEMMA DivUpBounds ==
    ASSUME NEW a \in Nat, NEW b \in Nat \ {0}
    PROVE  /\ DivUp(a, b) \in Nat
           /\ a <= DivUp(a, b) * b
           /\ DivUp(a, b) * b <= a + b - 1
<1>. DEFINE q == (a + b - 1) \div b
            r == (a + b - 1) % b
<1>1. q \in Nat /\ r \in 0 .. b - 1 /\ a + b - 1 = b * q + r
    OBVIOUS
<1>2. q * b = b * q
    BY <1>1
<1>. QED
    BY <1>1, <1>2 DEF DivUp

\* The larger share goes to at least one thread and to at most all of them.
LEMMA LargeShares ==
    ASSUME NEW n \in Nat \ {0}, NEW team \in Nat \ {0}
    PROVE  /\ N1(n, team) \in Nat \ {0}
           /\ T1(n, team) \in 1 .. team
           /\ T1(n, team) * N1(n, team)
                + (team - T1(n, team)) * (N1(n, team) - 1) = n
<1>. DEFINE q == DivUp(n, team)
<1>1. q \in Nat /\ n <= q * team /\ q * team <= n + team - 1
    BY DivUpBounds
<1>. HIDE DEF q
<1>2. q # 0
    BY <1>1
<1>3. (q - 1) * team = q * team - team
    BY <1>1
<1>4. T1(n, team) = n - q * team + team
    BY <1>1, <1>3 DEF T1, N1, q
<1>5. T1(n, team) \in 1 .. team
    <2>. DEFINE p == q * team
    <2>1. p \in Int
        BY <1>1
    <2>. HIDE DEF p
    <2>. QED
        BY <1>1, <1>4, <2>1 DEF p
<1>6. \A T \in Int : T * q + (team - T) * (q - 1) = T + q * team - team
    BY <1>1
<1>. QED
    BY <1>1, <1>2, <1>4, <1>5, <1>6 DEF N1, q

(***************************************************************************)
(* The shares of a team cover 0 .. n - 1 without gap or overlap: the first *)
(* starts at 0, each ends where the next one starts, the last ends at n.   *)
(***************************************************************************)
THEOREM SharesAreConsecutive ==
    ASSUME NEW n \in Nat, NEW team \in Nat \ {0}
    PROVE  /\ Start(n, team, 0) = 0
           /\ End(n, team, team - 1) = n
           /\ \A tid \in 0 .. team - 2 :
                End(n, team, tid) = Start(n, team, tid + 1)
<1>1. CASE team = 1
    BY <1>1 DEF Start, End, Size
<1>2. CASE n = 0
    BY <1>2 DEF Start, End, Size
<1>3. CASE team > 1 /\ n > 0
    <2>. DEFINE q == N1(n, team)
                T == T1(n, team)
    <2>1. q \in Nat \ {0} /\ T \in 1 .. team
        BY <1>3, LargeShares
    <2>2. T * q + (team - T) * (q - 1) = n
        BY <1>3, LargeShares
    <2>3. \A tid \in 0 .. team :
             /\ Start(n, team, tid)
                  = IF tid <= T THEN tid * q ELSE T * q + (tid - T) * (q - 1)
             /\ Size(n, team, tid) = IF tid < T THEN q ELSE q - 1
        BY <1>3 DEF Start, Size
    <2>. HIDE DEF q, T
    <2>4. Start(n, team, 0) = 0
        BY <2>1, <2>3
    <2>5. ASSUME NEW tid \in 0 .. team - 1
          PROVE  End(n, team, tid)
                   = IF tid < T THEN (tid + 1) * q
                     ELSE T * q + (tid + 1 - T) * (q - 1)
        <3>1. CASE tid < T
            <4>1. End(n, team, tid) = tid * q + q
                BY <2>1, <2>3, <3>1 DEF End
            <4>2. (tid + 1) * q = tid * q + q
                BY <2>1
            <4>. QED
                BY <3>1, <4>1, <4>2
        <3>2. CASE tid >= T
            <4>. DEFINE e == tid - T
                        b == q - 1
            <4>1. e \in Nat /\ b \in Nat /\ tid + 1 - T = e + 1
                BY <2>1, <3>2
            <4>2. Start(n, team, tid) = T * q + e * b
                <5>1. CASE tid = T
                    <6>1. e * b = 0
                        BY <4>1, <5>1
                    <6>. QED
                        BY <2>1, <2>3, <5>1, <6>1
                <5>2. CASE tid # T
                    BY <2>1, <2>3, <3>2, <5>2
                <5>. QED
                    BY <5>1, <5>2
            <4>3. End(n, team, tid) = T * q + e * b + b
                BY <2>1, <2>3, <3>2, <4>2 DEF End
            <4>4. (e + 1) * b = e * b + b
                BY <4>1
            <4>. QED
                BY <2>1, <3>2, <4>1, <4>3, <4>4
        <3>. QED
            BY <2>1, <3>1, <3>2
    <2>6. End(n, team, team - 1) = n
        <3>1. team - 1 \in 0 .. team - 1 /\ (team - 1) + 1 = team
            BY <1>3
        <3>2. CASE team - 1 < T
            <4>1. T = team
                BY <2>1, <3>2
            <4>2. (team - T) * (q - 1) = 0
                BY <2>1, <4>1
            <4>. QED
                BY <2>1, <2>2, <2>5, <3>1, <3>2, <4>1, <4>2
        <3>3. CASE ~(team - 1 < T)
            BY <2>1, <2>2, <2>5, <3>1, <3>3
        <3>. QED
            BY <3>2, <3>3
    <2>7. ASSUME NEW tid \in 0 .. team - 2
          PROVE  End(n, team, tid) = Start(n, team, tid + 1)
        <3>1. tid \in 0 .. team - 1 /\ tid + 1 \in 0 .. team
            OBVIOUS
        <3>2. CASE tid < T
            BY <2>1, <2>3, <2>5, <3>1, <3>2
        <3>3. CASE tid >= T
            BY <2>1, <2>3, <2>5, <3>1, <3>3
        <3>. QED
            BY <2>1, <3>2, <3>3
    <2>. QED
        BY <2>4, <2>6, <2>7
<1>. QED
    BY <1>1, <1>2, <1>3

(***************************************************************************)
(* No thread of the team gets two items more than another one, and a       *)
(* thread comes away empty only when there are fewer items than threads.   *)
(***************************************************************************)
THEOREM SharesAreBalanced ==
    ASSUME NEW n \in Nat, NEW team \in Nat \ {0},
           NEW t \in 0 .. team - 1, NEW u \in 0 .. team - 1
    PROVE  /\ Size(n, team, t) \in Nat
           /\ Size(n, team, t) <= Size(n, team, u) + 1
           /\ Size(n, team, t) = 0 => n < team
<1>1. CASE team = 1 \/ n = 0
    BY <1>1 DEF Size
<1>2. CASE team > 1 /\ n > 0
    <2>1. N1(n, team) \in Nat \ {0} /\ T1(n, team) \in 1 .. team
        BY <1>2, LargeShares
    <2>2. ASSUME Size(n, team, t) = 0 PROVE n < team
        <3>1. t >= T1(n, team) /\ N1(n, team) = 1
            BY <1>2, <2>1, <2>2 DEF Size
        <3>2. T1(n, team) = n
            BY <3>1 DEF T1
        <3>. QED
            BY <3>1, <3>2
    <2>. QED
        BY <1>2, <2>1, <2>2 DEF Size
<1>. QED
    BY <1>1, <1>2

\* The shares are in the order of the threads.
LEMMA SharesAreOrdered ==
    ASSUME NEW n \in Nat, NEW team \in Nat \ {0},
           NEW t \in 0 .. team - 1, NEW u \in 0 .. team - 1, t <= u
    PROVE  /\ Start(n, team, t) \in Nat /\ End(n, team, t) \in Nat
           /\ Start(n, team, t) <= End(n, team, t)
           /\ Start(n, team, t) <= Start(n, team, u)
<1>1. CASE team = 1 \/ n = 0
    BY <1>1 DEF Start, End, Size
<1>2. CASE team > 1 /\ n > 0
    <2>. DEFINE q == N1(n, team)
                T == T1(n, team)
    <2>1. q \in Nat \ {0} /\ T \in 1 .. team
        BY <1>2, LargeShares
    <2>2. \A i \in 0 .. team - 1 :
            /\ Start(n, team, i) = IF i <= T THEN i * q ELSE T * q + (i - T) * (q - 1)
            /\ Size(n, team, i) = IF i < T THEN q ELSE q - 1
        BY <1>2 DEF Start, Size
    <2>. HIDE DEF q, T
    <2>3. \A i, j \in Nat : i <= j => /\ i * q \in Nat /\ i * q <= j * q
                                     /\ i * (q - 1) \in Nat /\ i * (q - 1) <= j * (q - 1)
        <3>1. ASSUME NEW i \in Nat, NEW j \in Nat, i <= j
              PROVE  /\ i * q \in Nat /\ i * q <= j * q
                     /\ i * (q - 1) \in Nat /\ i * (q - 1) <= j * (q - 1)
            <4>1. (j - i) * q \in Nat /\ (j - i) * (q - 1) \in Nat
                BY <2>1, <3>1
            <4>2. (j - i) * q = j * q - i * q /\ (j - i) * (q - 1) = j * (q - 1) - i * (q - 1)
                BY <2>1, <3>1
            <4>. QED BY <2>1, <3>1, <4>1, <4>2
        <3>. QED BY <3>1
    <2>4. Start(n, team, t) \in Nat
        <3>1. CASE t <= T
            BY <2>1, <2>2, <2>3, <3>1
        <3>2. CASE ~(t <= T)
            BY <2>1, <2>2, <2>3, <3>2
        <3>. QED BY <3>1, <3>2
    <2>5. Start(n, team, t) <= Start(n, team, u)
        <3>1. CASE u <= T
            BY <2>1, <2>2, <2>3, <3>1
        <3>2. CASE ~(u <= T) /\ t <= T
            <4>1. (u - T) * (q - 1) \in Nat /\ t * q <= T * q /\ T * q \in Nat
                BY <2>1, <2>3, <3>2
            <4>. QED BY <2>1, <2>2, <3>2, <4>1
        <3>3. CASE ~(t <= T)
            <4>1. (t - T) * (q - 1) <= (u - T) * (q - 1)
                BY <2>1, <2>3, <3>3
            <4>2. (t - T) * (q - 1) \in Nat /\ (u - T) * (q - 1) \in Nat /\ T * q \in Nat
                BY <2>1, <3>3
            <4>. QED BY <2>1, <2>2, <3>3, <4>1, <4>2
        <3>. QED BY <2>1, <3>1, <3>2, <3>3
    <2>6. Size(n, team, t) \in Nat
        BY <2>1, <2>2
    <2>. QED BY <2>4, <2>5, <2>6 DEF End
<1>. QED BY <1>1, <1>2

(***************************************************************************)
(* Every item is dealt, and to one thread only: no two threads of a        *)
(* section work on the same item, and none is left.                        *)
(***************************************************************************)
THEOREM SharesArePartition ==
    ASSUME NEW n \in Nat, NEW team \in Nat \ {0}
    PROVE  LET Share(t) == Start(n, team, t) .. End(n, team, t) - 1
           IN  /\ \A t \in 0 .. team - 1 : Share(t) \subseteq 0 .. n - 1
               /\ \A x \in 0 .. n - 1 : \E t \in 0 .. team - 1 : x \in Share(t)
               /\ \A t, u \in 0 .. team - 1 : t # u => Share(t) \cap Share(u) = {}
<1>. DEFINE S(t) == Start(n, team, t)
            E(t) == End(n, team, t)
<1>1. /\ S(0) = 0 /\ E(team - 1) = n
      /\ \A t \in 0 .. team - 2 : E(t) = S(t + 1)
    BY SharesAreConsecutive
<1>2. \A t, u \in 0 .. team - 1 :
        t <= u => S(t) \in Nat /\ E(t) \in Nat /\ S(t) <= E(t) /\ S(t) <= S(u)
    BY SharesAreOrdered
<1>. HIDE DEF S, E
<1>3. ASSUME NEW t \in 0 .. team - 1, NEW u \in 0 .. team - 1, t < u
      PROVE  E(t) <= S(u)
    BY <1>1, <1>2, <1>3
<1>4. ASSUME NEW t \in 0 .. team - 1
      PROVE  E(t) <= n
    BY <1>1, <1>2, <1>3
<1>5. ASSUME NEW x \in 0 .. n - 1
      PROVE  \E t \in 0 .. team - 1 : x \in S(t) .. E(t) - 1
    <2>. DEFINE After == { t \in 0 .. team - 1 : x < E(t) }
    <2>1. After \subseteq Nat /\ team - 1 \in After
        BY <1>1
    <2>2. PICK t \in After : \A u \in After : t <= u
        BY <2>1, SmallestExists
    <2>3. t \in 0 .. team - 1 /\ x < E(t)
        BY <2>2
    <2>4. S(t) <= x
        <3>1. CASE t = 0
            BY <1>1, <3>1
        <3>2. CASE t # 0
            <4>1. t - 1 \in 0 .. team - 1 /\ t - 1 \notin After
                BY <2>2, <2>3, <3>2
            <4>2. E(t - 1) <= x /\ E(t - 1) = S(t)
                BY <1>1, <1>2, <2>3, <3>2, <4>1
            <4>. QED BY <4>2
        <3>. QED BY <3>1, <3>2
    <2>. QED BY <1>2, <2>3, <2>4
<1>6. \A t \in 0 .. team - 1 : S(t) .. E(t) - 1 \subseteq 0 .. n - 1
    BY <1>2, <1>4
<1>7. ASSUME NEW t \in 0 .. team - 1, NEW u \in 0 .. team - 1, t # u
      PROVE  (S(t) .. E(t) - 1) \cap (S(u) .. E(u) - 1) = {}
    BY <1>2, <1>3, <1>7
<1>. QED BY <1>5, <1>6, <1>7 DEF S, E

------------------------------------------------------------------------------
(* reduce_balancer_t                                                       *)

\* The inputs that reduce_balancer_t::balance asserts.
BalancerInput(i) == /\ {i.nthr, i.job_size, i.njobs, i.reduction} \subseteq Nat \ {0}
                    /\ i.max_buffer \in Nat /\ i.allow \in BOOLEAN

\* Each guess that the loop of balance() makes fits the team: as many groups as
\* have a job, and no more threads in a group than there is to reduce.
LEMMA GuessFits ==
    ASSUME NEW i, BalancerInput(i), NEW c \in 1 .. i.njobs
    PROVE  /\ Groups(i, c) \in 1 .. i.nthr /\ Groups(i, c) <= i.njobs
           /\ PerGroup(i, c) \in 1 .. i.reduction
           /\ Groups(i, c) * PerGroup(i, c) <= i.nthr
           /\ ~i.allow => PerGroup(i, c) = 1
           /\ JobsBound(i, c) \in Nat \ {0}
           /\ Complexity(i, c) \in Nat
<1>. DEFINE g == Groups(i, c)
            p == PerGroup(i, c)
            q == i.nthr \div g
<1>1. /\ i.nthr \in Nat \ {0} /\ i.job_size \in Nat \ {0} /\ i.njobs \in Nat \ {0}
      /\ i.reduction \in Nat \ {0} /\ i.allow \in BOOLEAN
    BY DEF BalancerInput
<1>2. g \in 1 .. i.nthr /\ g <= i.njobs
    <2>1. i.njobs \div c \in Nat /\ i.njobs \div c >= 1 /\ i.njobs \div c <= i.njobs
        <3>1. i.njobs \in Nat /\ c \in Nat \ {0} /\ c <= i.njobs
            BY <1>1
        <3>. QED BY <3>1, Quotients
    <2>. HIDE DEF g
    <2>2. g = IF i.njobs \div c <= i.nthr THEN i.njobs \div c ELSE i.nthr
        BY DEF g, Groups, Lesser
    <2>. QED BY <1>1, <2>1, <2>2
<1>. HIDE DEF g
<1>3. q \in Nat \ {0} /\ q * g <= i.nthr
    <2>1. i.nthr \in Nat /\ g \in Nat \ {0} /\ g <= i.nthr
        BY <1>1, <1>2
    <2>2. q \in Nat /\ q >= 1 /\ q * g <= i.nthr
        BY <2>1, Quotients
    <2>. HIDE DEF q
    <2>. QED BY <2>2
<1>. HIDE DEF q
<1>4. p \in 1 .. i.reduction /\ p <= q /\ (~i.allow => p = 1)
    <2>1. p = IF i.allow THEN (IF q <= i.reduction THEN q ELSE i.reduction) ELSE 1
        BY DEF p, PerGroup, Lesser, q, g
    <2>. HIDE DEF p
    <2>. QED BY <1>1, <1>3, <2>1
<1>5. g * p <= q * g
    <2>1. q - p \in Nat
        BY <1>1, <1>3, <1>4
    <2>2. g * (q - p) \in Nat
        BY <1>2, <2>1
    <2>3. g * (q - p) = g * q - g * p /\ g * q = q * g
        BY <1>1, <1>2, <1>3, <1>4
    <2>. QED BY <1>1, <1>2, <1>3, <1>4, <2>2, <2>3
<1>6. DivUp(i.njobs, g) \in Nat \ {0}
    <2>. DEFINE w == DivUp(i.njobs, g)
    <2>1. g \in Nat \ {0} /\ i.njobs \in Nat
        BY <1>1, <1>2
    <2>2. w \in Nat /\ i.njobs <= w * g
        BY <2>1, DivUpBounds
    <2>. HIDE DEF w
    <2>3. w = 0 => w * g = 0
        BY <2>1, <2>2
    <2>. QED BY <1>1, <2>1, <2>2, <2>3 DEF w
<1>. HIDE DEF p
<1>7. DivUp(i.reduction, p) \in Nat
    <2>1. p \in Nat \ {0} /\ i.reduction \in Nat
        BY <1>1, <1>4
    <2>. QED BY <2>1, DivUpBounds
<1>8. Complexity(i, c) \in Nat
    <2>. DEFINE u == DivUp(i.reduction, p) + (IF p # 1 THEN 1 ELSE 0)
                w == DivUp(i.njobs, g)
    <2>1. u \in Nat /\ w \in Nat
        BY <1>6, <1>7
    <2>. HIDE DEF u, w
    <2>2. i.job_size * w * u \in Nat
        BY <1>1, <2>1
    <2>. QED BY <2>2 DEF Complexity, JobsBound, u, w, p, g
<1>. QED BY <1>1, <1>2, <1>3, <1>4, <1>5, <1>6, <1>8 DEF JobsBound, p, g, q

\* The guess that is kept has passed the test against max_njobs_per_group, or it
\* is the initial one, which has one thread per group or one job per group.
LEMMA BestGuess ==
    ASSUME NEW i, BalancerInput(i)
    PROVE  /\ Best(i) \in 1 .. i.njobs
           /\ PerGroup(i, Best(i)) = 1 \/ JobsBound(i, Best(i)) <= MaxJobs(i)
<1>1. /\ i.nthr \in Nat \ {0} /\ i.job_size \in Nat \ {0} /\ i.njobs \in Nat \ {0}
      /\ i.reduction \in Nat \ {0} /\ i.max_buffer \in Nat
    BY DEF BalancerInput
<1>2. /\ i.njobs \div i.nthr \in Nat /\ i.njobs \div i.nthr <= i.njobs
      /\ (i.njobs \div i.nthr) * i.nthr <= i.njobs
      /\ i.nthr <= i.njobs => i.njobs \div i.nthr >= 1
    BY <1>1, Quotients
<1>3. /\ MinJobs(i) \in 1 .. i.njobs
      /\ i.nthr <= i.njobs => MinJobs(i) * i.nthr <= i.njobs
      /\ ~(i.nthr <= i.njobs) => MinJobs(i) = 1
    BY <1>1, <1>2 DEF MinJobs, Greater
<1>4. CASE Better(i) # {}
    <2>1. Better(i) \subseteq 1 .. i.njobs
        BY <1>1, <1>3 DEF Better
    <2>2. \A c \in Better(i) : Complexity(i, c) \in Nat
        BY <2>1, GuessFits
    <2>3. PICK m \in { Complexity(i, c) : c \in Better(i) } :
             \A n \in { Complexity(i, c) : c \in Better(i) } : m <= n
        BY <1>4, <2>2, SmallestExists
    <2>. DEFINE T == { c \in Better(i) : Complexity(i, c) = m }
    <2>4. PICK b \in T : \A d \in T : b <= d
        <3>1. T # {} /\ T \subseteq Nat
            BY <1>1, <2>1, <2>3
        <3>. HIDE DEF T
        <3>. QED BY <3>1, SmallestExists
    <2>5. b \in Better(i) /\ \A d \in Better(i) :
                \/ Complexity(i, b) < Complexity(i, d)
                \/ Complexity(i, b) = Complexity(i, d) /\ b <= d
        BY <2>2, <2>3, <2>4
    <2>6. Best(i) \in Better(i)
        BY <1>4, <2>5 DEF Best
    <2>. QED BY <2>1, <2>6 DEF Better
<1>5. CASE Better(i) = {}
    <2>1. Best(i) = MinJobs(i)
        BY <1>5 DEF Best
    <2>. DEFINE c == MinJobs(i)
                d == i.njobs \div c
    <2>2. CASE i.nthr <= i.njobs
        <3>1. c \in Nat \ {0} /\ c * i.nthr <= i.njobs
            BY <1>1, <1>3, <2>2
        <3>. HIDE DEF c
        <3>2. d \in Nat /\ i.njobs % c \in 0 .. c - 1 /\ i.njobs = c * d + (i.njobs % c)
            BY <1>1, <3>1, Quotients
        <3>. HIDE DEF d
        <3>3. d >= i.nthr
            <4>. SUFFICES ASSUME d + 1 <= i.nthr PROVE FALSE
                BY <1>1, <3>2
            <4>1. c * (d + 1) <= c * i.nthr
                <5>1. i.nthr - (d + 1) \in Nat /\ c * (i.nthr - (d + 1)) \in Nat
                    BY <1>1, <3>1, <3>2
                <5>2. c * (i.nthr - (d + 1)) = c * i.nthr - c * (d + 1)
                    BY <1>1, <3>1, <3>2
                <5>. QED BY <1>1, <3>1, <3>2, <5>1, <5>2
            <4>2. c * (d + 1) = c * d + c
                BY <3>1, <3>2
            <4>. QED BY <1>1, <3>1, <3>2, <4>1, <4>2
        <3>4. Groups(i, c) = i.nthr
            BY <1>1, <3>2, <3>3 DEF Groups, Lesser, d
        <3>5. i.nthr \div i.nthr = 1
            BY <1>1
        <3>6. PerGroup(i, c) = 1
            BY <1>1, <3>4, <3>5 DEF PerGroup, Lesser
        <3>. QED BY <1>3, <2>1, <3>6 DEF c
    <2>3. CASE ~(i.nthr <= i.njobs)
        <3>1. c = 1 /\ i.njobs \div 1 = i.njobs
            BY <1>1, <1>3, <2>3
        <3>2. Groups(i, 1) = i.njobs
            BY <1>1, <2>3, <3>1 DEF Groups, Lesser
        <3>3. JobsBound(i, 1) = 1
            BY <1>1, <3>2 DEF JobsBound, DivUp
        <3>4. MaxJobs(i) >= 1
            <4>1. i.nthr * i.job_size \in Nat \ {0}
                BY <1>1
            <4>2. i.max_buffer \div (i.nthr * i.job_size) \in Nat
                BY <1>1, <4>1, Quotients
            <4>. QED BY <4>2 DEF MaxJobs, Greater
        <3>5. MaxJobs(i) \in Nat
            <4>1. i.nthr * i.job_size \in Nat \ {0}
                BY <1>1
            <4>2. i.max_buffer \div (i.nthr * i.job_size) \in Nat
                BY <1>1, <4>1, Quotients
            <4>. QED BY <4>2 DEF MaxJobs, Greater
        <3>. QED BY <1>3, <2>1, <3>1, <3>3, <3>4, <3>5
    <2>. QED BY <1>3, <2>1, <2>2, <2>3
<1>. QED BY <1>4, <1>5

\* grp_njobs and grp_job_off for any number of groups with a job each.
LEMMA JobsDealt ==
    ASSUME NEW n \in Nat \ {0}, NEW b, b.ngroups \in 1 .. n
    PROVE  /\ grp_job_off(b, n, 0) = 0 /\ grp_job_off(b, n, b.ngroups) = n
           /\ \A g \in 0 .. b.ngroups - 1 :
                 /\ grp_njobs(b, n, g) \in 1 .. DivUp(n, b.ngroups)
                 /\ grp_job_off(b, n, g + 1) = grp_job_off(b, n, g) + grp_njobs(b, n, g)
<1>. DEFINE G == b.ngroups
            q == n \div G
            r == n % G
            u == DivUp(n, G)
<1>1. G \in Nat \ {0} /\ G <= n /\ n \in Nat
    OBVIOUS
<1>2. q \in Nat /\ r \in 0 .. G - 1 /\ n = G * q + r /\ q >= 1
    BY <1>1, Quotients
<1>3. u \in Nat /\ n <= u * G
    BY <1>1, DivUpBounds
<1>4. \A g \in 0 .. G :
        /\ grp_njobs(b, n, g) = IF g >= G THEN 0 ELSE q + (IF g < r THEN 1 ELSE 0)
        /\ grp_job_off(b, n, g) = IF g >= G THEN n ELSE q * g + (IF g <= r THEN g ELSE r)
    BY DEF grp_njobs, grp_job_off, Lesser
<1>. HIDE DEF G, q, r, u
<1>5. u >= q /\ (r > 0 => u >= q + 1)
    <2>1. ASSUME NEW v \in Nat, u + 1 <= v
          PROVE  G * v >= n + G
        <3>1. v - (u + 1) \in Nat /\ G * (v - (u + 1)) \in Nat
            BY <1>1, <1>3, <2>1
        <3>2. G * (v - (u + 1)) = G * v - G * u - G /\ G * u = u * G
            BY <1>1, <1>3
        <3>3. G * v \in Nat /\ u * G \in Nat
            BY <1>1, <1>3
        <3>. QED BY <1>1, <1>3, <3>1, <3>2, <3>3
    <2>2. G * q \in Nat /\ G * (q + 1) = G * q + G
        BY <1>1, <1>2
    <2>3. ~(u + 1 <= q)
        BY <1>1, <1>2, <2>1, <2>2
    <2>4. r > 0 => ~(u + 1 <= q + 1)
        BY <1>1, <1>2, <2>1, <2>2
    <2>. QED BY <1>2, <1>3, <2>3, <2>4
<1>6. grp_job_off(b, n, 0) = 0 /\ grp_job_off(b, n, G) = n
    BY <1>1, <1>2, <1>4
<1>7. ASSUME NEW g \in 0 .. G - 1
      PROVE  /\ grp_njobs(b, n, g) \in 1 .. u
             /\ grp_job_off(b, n, g + 1) = grp_job_off(b, n, g) + grp_njobs(b, n, g)
    <2>1. q * (g + 1) = q * g + q /\ q * g \in Nat /\ g + 1 \in 0 .. G
        BY <1>1, <1>2
    <2>2. grp_njobs(b, n, g) \in 1 .. u
        BY <1>1, <1>2, <1>3, <1>4, <1>5
    <2>3. CASE g + 1 < G
        BY <1>1, <1>2, <1>4, <2>1, <2>2, <2>3
    <2>4. CASE g + 1 = G
        <3>1. n = q * g + q + r
            BY <1>1, <1>2, <2>1, <2>4
        <3>2. ~(g < r)
            BY <1>1, <1>2, <2>4
        <3>. QED BY <1>1, <1>2, <1>4, <2>1, <2>2, <2>4, <3>1, <3>2
    <2>. QED BY <1>1, <2>3, <2>4
<1>. QED BY <1>6, <1>7 DEF G, u

\* The jobs of a group come before those of the groups after it.
LEMMA JobsAreOrdered ==
    ASSUME NEW n \in Nat \ {0}, NEW b, b.ngroups \in 1 .. n,
           NEW g \in 0 .. b.ngroups - 1
    PROVE  /\ grp_job_off(b, n, g) \in Nat
           /\ grp_job_off(b, n, g) + grp_njobs(b, n, g) <= n
           /\ \A h \in g + 1 .. b.ngroups - 1 :
                 grp_job_off(b, n, g) + grp_njobs(b, n, g) <= grp_job_off(b, n, h)
<1>. DEFINE G == b.ngroups
            q == n \div G
            r == n % G
            off(h) == grp_job_off(b, n, h)
<1>1. G \in Nat \ {0} /\ n \in Nat /\ g \in 0 .. G - 1
    OBVIOUS
<1>2. q \in Nat /\ r \in 0 .. G - 1 /\ n = G * q + r
    BY <1>1, Quotients
<1>3. /\ \A h \in 0 .. G :
            off(h) = IF h >= G THEN n ELSE q * h + (IF h <= r THEN h ELSE r)
      /\ off(g) + grp_njobs(b, n, g) = off(g + 1)
    BY JobsDealt DEF grp_job_off, Lesser
<1>. HIDE DEF G, q, r, off
<1>4. ASSUME NEW h \in g + 1 .. G PROVE off(g + 1) <= off(h)
    <2>1. (h - (g + 1)) \in Nat /\ q * (h - (g + 1)) \in Nat
        BY <1>1, <1>2
    <2>2. q * (h - (g + 1)) = q * h - q * (g + 1) /\ q * h \in Nat /\ q * (g + 1) \in Nat
        BY <1>1, <1>2
    <2>3. CASE h = g + 1
        BY <1>1, <1>2, <1>3, <2>2, <2>3
    <2>4. CASE h # g + 1 /\ h < G
        <3>1. /\ off(h) = q * h + (IF h <= r THEN h ELSE r)
              /\ off(g + 1) = q * (g + 1) + (IF g + 1 <= r THEN g + 1 ELSE r)
            BY <1>1, <1>3, <2>4
        <3>2. q * (g + 1) <= q * h
            BY <1>1, <1>2, <2>1, <2>2
        <3>. QED BY <1>1, <1>2, <2>2, <2>4, <3>1, <3>2
    <2>5. CASE h # g + 1 /\ h = G
        <3>1. G * q = q * h
            BY <1>1, <1>2, <2>5
        <3>. QED BY <1>1, <1>2, <1>3, <2>1, <2>2, <2>5, <3>1
    <2>. QED BY <1>1, <2>3, <2>4, <2>5
<1>5. off(g) \in Nat
    <2>1. q * g \in Nat
        BY <1>1, <1>2
    <2>. QED BY <1>1, <1>2, <1>3, <2>1
<1>6. off(G) = n
    BY <1>1, <1>3
<1>7. g + 1 \in g + 1 .. G /\ G \in g + 1 .. G
    BY <1>1
<1>. QED BY <1>1, <1>3, <1>4, <1>5, <1>6, <1>7 DEF G, off

(***************************************************************************)
(* The assertions at the end of balance(): the groups fit the team, and    *)
(* a group of several threads has no more jobs than its buffers hold; and  *)
(* no thread of a group has nothing to reduce.                             *)
(***************************************************************************)
THEOREM BalanceFits ==
    ASSUME NEW i, BalancerInput(i)
    PROVE  LET b == balance(i)
           IN  /\ b.ngroups * b.nthr_per_group <= i.nthr
               /\ b.nthr_per_group \in 1 .. i.reduction
               /\ ~i.allow => b.nthr_per_group = 1
               /\ b.nthr_per_group = 1 \/ b.njobs_per_group_ub <= MaxJobs(i)
BY BestGuess, GuessFits DEF balance

(***************************************************************************)
(* Every job goes to one group: the jobs of the groups are consecutive,    *)
(* from the first to the last; a group has a job, and no more than         *)
(* njobs_per_group_ub_, the number its buffers are booked for.             *)
(***************************************************************************)
THEOREM JobsAreConsecutive ==
    ASSUME NEW i, BalancerInput(i)
    PROVE  LET b == balance(i)
           IN  /\ grp_job_off(b, i.njobs, 0) = 0
               /\ grp_job_off(b, i.njobs, b.ngroups) = i.njobs
               /\ \A g \in 0 .. b.ngroups - 1 :
                     /\ grp_njobs(b, i.njobs, g) \in 1 .. b.njobs_per_group_ub
                     /\ grp_job_off(b, i.njobs, g + 1)
                           = grp_job_off(b, i.njobs, g) + grp_njobs(b, i.njobs, g)
<1>. DEFINE b == balance(i)
<1>1. /\ b.ngroups = Groups(i, Best(i))
      /\ b.njobs_per_group_ub = DivUp(i.njobs, b.ngroups)
    BY DEF balance, JobsBound
<1>. HIDE DEF b
<1>2. i.njobs \in Nat \ {0} /\ b.ngroups \in 1 .. i.njobs
    <2>1. i.njobs \in Nat \ {0} /\ i.nthr \in Nat
        BY DEF BalancerInput
    <2>2. Groups(i, Best(i)) \in 1 .. i.nthr /\ Groups(i, Best(i)) <= i.njobs
        BY BestGuess, GuessFits
    <2>. QED BY <1>1, <2>1, <2>2
<1>. QED BY <1>1, <1>2, JobsDealt DEF b

------------------------------------------------------------------------------
(* Elements of a job with nx columns: rows p[1], columns p[2].             *)

\* The elements from .. to - 1 in row-major order.
RowMajor(nx, from, to) ==
    { p \in Nat \X (0 .. nx - 1) : from <= p[1] * nx + p[2] /\ p[1] * nx + p[2] < to }

\* Row-major numbers compare like rows.
LEMMA RowOrder ==
    ASSUME NEW nx \in Nat \ {0}, NEW y \in Nat, NEW x \in 0 .. nx - 1, NEW z \in Nat
    PROVE  /\ y * nx \in Nat /\ z * nx \in Nat /\ (z + 1) * nx = z * nx + nx
           /\ y < z <=> y * nx + x < z * nx
<1>1. y * nx \in Nat /\ z * nx \in Nat /\ (z + 1) * nx = z * nx + nx
    OBVIOUS
<1>2. ASSUME y < z PROVE y * nx + x < z * nx
    <2>1. (z - (y + 1)) \in Nat /\ (z - (y + 1)) * nx \in Nat
        BY <1>2
    <2>2. (z - (y + 1)) * nx = z * nx - y * nx - nx
        OBVIOUS
    <2>. QED BY <1>1, <2>1, <2>2
<1>3. ASSUME ~(y < z) PROVE ~(y * nx + x < z * nx)
    <2>1. (y - z) \in Nat /\ (y - z) * nx \in Nat
        BY <1>3
    <2>2. (y - z) * nx = y * nx - z * nx
        OBVIOUS
    <2>. QED BY <1>1, <2>1, <2>2
<1>. QED BY <1>1, <1>2, <1>3

\* The start of a row, divided by the length of the rows.
LEMMA Multiple ==
    ASSUME NEW nx \in Nat \ {0}, NEW z \in Nat, NEW a, a = z * nx
    PROVE  a \div nx = z /\ a % nx = 0
<1>. DEFINE q == a \div nx
            r == a % nx
<1>1. a \in Nat
    OBVIOUS
<1>2. q \in Nat /\ r \in 0 .. nx - 1 /\ a = nx * q + r
    BY <1>1, Quotients
<1>. HIDE DEF q, r
<1>3. nx * q = q * nx
    BY <1>2
<1>4. /\ q < z <=> q * nx + r < z * nx
      /\ q < z + 1 <=> q * nx + r < (z + 1) * nx
      /\ (z + 1) * nx = z * nx + nx
      /\ z * nx \in Nat
    BY <1>2, RowOrder
<1>5. q = z
    BY <1>2, <1>3, <1>4
<1>6. r = 0
    BY <1>2, <1>3, <1>5
<1>. QED BY <1>5, <1>6 DEF q, r

\* A number has one row and one column.
LEMMA RowMajorIsUnique ==
    ASSUME NEW nx \in Nat \ {0}, NEW y \in Nat, NEW x \in 0 .. nx - 1,
           NEW a, a = y * nx + x
    PROVE  a \in Nat /\ a \div nx = y /\ a % nx = x
<1>. DEFINE q == a \div nx
            r == a % nx
<1>1. a \in Nat
    BY RowOrder
<1>2. q \in Nat /\ r \in 0 .. nx - 1 /\ a = nx * q + r
    BY <1>1, Quotients
<1>. HIDE DEF q, r
<1>3. nx * q = q * nx
    BY <1>2
<1>4. /\ q < y <=> q * nx + r < y * nx
      /\ y < q <=> y * nx + x < q * nx
      /\ y * nx \in Nat /\ q * nx \in Nat
    BY <1>2, RowOrder
<1>5. q = y
    BY <1>2, <1>3, <1>4
<1>6. r = x
    BY <1>2, <1>3, <1>4, <1>5
<1>. QED BY <1>1, <1>5, <1>6 DEF q, r

\* Ranges that meet.
LEMMA CellsMeet ==
    ASSUME NEW nx \in Nat \ {0}, NEW from \in Nat, NEW mid \in Nat, NEW to \in Nat,
           from <= mid, mid <= to
    PROVE  RowMajor(nx, from, to) = RowMajor(nx, from, mid) \cup RowMajor(nx, mid, to)
<1>1. \A p \in Nat \X (0 .. nx - 1) : p[1] * nx + p[2] \in Nat
    BY RowOrder
<1>. QED BY <1>1 DEF RowMajor

\* A block of one row is a range.
LEMMA PartOfRow ==
    ASSUME NEW nx \in Nat \ {0}, NEW y \in Nat, NEW x \in Nat, NEW n \in Nat,
           x + n <= nx
    PROVE  reduce_block(y, x, 1, n) = RowMajor(nx, y * nx + x, y * nx + x + n)
<1>1. ASSUME NEW p \in reduce_block(y, x, 1, n)
      PROVE  p \in RowMajor(nx, y * nx + x, y * nx + x + n)
    <2>1. p \in Nat \X (0 .. nx - 1) /\ p[1] = y /\ p[2] \in x .. x + n - 1
        BY <1>1 DEF reduce_block
    <2>2. y * nx \in Nat
        OBVIOUS
    <2>. QED BY <2>1, <2>2 DEF RowMajor
<1>2. ASSUME NEW p \in RowMajor(nx, y * nx + x, y * nx + x + n)
      PROVE  p \in reduce_block(y, x, 1, n)
    <2>. DEFINE a == p[1]
                b == p[2]
    <2>1. /\ a \in Nat /\ b \in 0 .. nx - 1 /\ p = <<a, b>>
          /\ y * nx + x <= a * nx + b /\ a * nx + b < y * nx + x + n
        BY DEF RowMajor
    <2>. HIDE DEF a, b
    <2>2. /\ y * nx \in Nat /\ a * nx \in Nat /\ (y + 1) * nx = y * nx + nx
          /\ a < y <=> a * nx + b < y * nx
          /\ a < y + 1 <=> a * nx + b < (y + 1) * nx
        BY <2>1, RowOrder
    <2>3. a = y
        BY <2>1, <2>2
    <2>4. b \in x .. x + n - 1
        BY <2>1, <2>2, <2>3
    <2>. QED BY <2>1, <2>3, <2>4 DEF reduce_block
<1>. QED BY <1>1, <1>2

\* A block of whole rows is a range.
LEMMA WholeRows ==
    ASSUME NEW nx \in Nat \ {0}, NEW y \in Nat, NEW n \in Nat
    PROVE  reduce_block(y, 0, n, nx) = RowMajor(nx, y * nx, (y + n) * nx)
<1>1. ASSUME NEW a \in Nat, NEW b \in 0 .. nx - 1
      PROVE  a \in y .. y + n - 1 <=> y * nx <= a * nx + b /\ a * nx + b < (y + n) * nx
    <2>1. /\ y * nx \in Nat /\ a * nx \in Nat /\ (y + n) * nx \in Nat
          /\ a < y <=> a * nx + b < y * nx
          /\ a < y + n <=> a * nx + b < (y + n) * nx
        BY RowOrder
    <2>. QED BY <2>1
<1>. QED BY <1>1 DEF RowMajor, reduce_block

(***************************************************************************)
(* reduce_nolock cuts its range into the rest of a row, whole rows and the *)
(* start of a row: the three blocks are the range, wherever it starts and  *)
(* ends.                                                                   *)
(***************************************************************************)
THEOREM RowsCover ==
    ASSUME NEW nx \in Nat \ {0}, NEW first \in Nat, NEW end \in Nat, first <= end
    PROVE  Rows(nx, first, end) = RowMajor(nx, first, end)
<1>. DEFINE y == first \div nx
            x == first % nx
            head == IF x # 0 THEN Lesser(nx - x, end - first) ELSE 0
            mid == first + head
            rows == IF end - mid > nx THEN (end - mid) \div nx ELSE 0
            tail == mid + rows * nx
<1>1. /\ y \in Nat /\ x \in 0 .. nx - 1 /\ first = nx * y + x
      /\ nx * y = y * nx /\ y * nx \in Nat
    <2>1. y \in Nat /\ x \in 0 .. nx - 1 /\ first = nx * y + x
        BY Quotients
    <2>. HIDE DEF y, x
    <2>2. nx * y = y * nx /\ y * nx \in Nat
        BY <2>1
    <2>. QED BY <2>1, <2>2
<1>2. Rows(nx, first, end) = reduce_block(y, x, 1, head)
                             \cup reduce_block(mid \div nx, 0, rows, nx)
                             \cup reduce_block(tail \div nx, 0, 1, end - tail)
    BY DEF Rows
<1>. HIDE DEF y, x
<1>3. head \in Nat /\ x + head <= nx /\ mid \in first .. end
    BY <1>1 DEF Lesser
<1>4. mid = end \/ mid % nx = 0
    <2>1. CASE x = 0
        BY <1>1, <2>1 DEF x
    <2>2. CASE x # 0 /\ nx - x <= end - first
        <3>1. mid = (y + 1) * nx /\ y + 1 \in Nat
            BY <1>1, <2>2 DEF Lesser
        <3>. HIDE DEF mid
        <3>2. mid % nx = 0
            BY <3>1, Multiple
        <3>. QED BY <3>2
    <2>3. CASE x # 0 /\ ~(nx - x <= end - first)
        BY <1>1, <2>3 DEF Lesser
    <2>. QED BY <2>1, <2>2, <2>3
<1>5. reduce_block(y, x, 1, head) = RowMajor(nx, first, mid)
    <2>. HIDE DEF head
    <2>1. reduce_block(y, x, 1, head) = RowMajor(nx, y * nx + x, y * nx + x + head)
        <3>1. x \in Nat /\ y \in Nat /\ head \in Nat /\ x + head <= nx
            BY <1>1, <1>3
        <3>. QED BY <3>1, PartOfRow
    <2>2. y * nx + x = first
        BY <1>1
    <2>. QED BY <2>1, <2>2
<1>. HIDE DEF head, mid
<1>6. \A d \in Nat : reduce_block(d, 0, 0, nx) = {} /\ reduce_block(d, 0, 1, 0) = {}
    BY DEF reduce_block
<1>7. CASE mid = end
    <2>1. rows = 0 /\ tail = end
        BY <1>3, <1>7
    <2>. HIDE DEF rows, tail
    <2>2. mid \div nx \in Nat /\ tail \div nx \in Nat /\ end - tail = 0
        <3>1. end \div nx \in Nat /\ end - end = 0
            BY Quotients
        <3>. QED BY <1>7, <2>1, <3>1
    <2>. QED BY <1>2, <1>5, <1>6, <1>7, <2>1, <2>2
<1>8. CASE mid % nx = 0
    <2>. DEFINE m == mid \div nx
                t == tail \div nx
    <2>1. m \in Nat /\ mid = m * nx /\ mid \in Nat
        <3>1. mid \in Nat
            BY <1>3
        <3>2. m \in Nat /\ mid = nx * m + 0
            BY <1>8, <3>1, Quotients
        <3>. HIDE DEF m
        <3>. QED BY <3>1, <3>2
    <2>. HIDE DEF m
    <2>2. rows \in Nat /\ rows * nx \in Nat /\ rows * nx <= end - mid
          /\ end - mid - rows * nx <= nx
        <3>. DEFINE d == end - mid
        <3>1. d \in Nat
            BY <1>3
        <3>. HIDE DEF d
        <3>2. /\ d \div nx \in Nat /\ d % nx \in 0 .. nx - 1
              /\ d = nx * (d \div nx) + (d % nx) /\ (d \div nx) * nx <= d
            BY <3>1, Quotients
        <3>3. CASE d > nx
            <4>1. rows = d \div nx
                BY <3>3 DEF d
            <4>. HIDE DEF rows
            <4>2. rows \in Nat
                BY <3>2, <4>1
            <4>3. nx * rows = rows * nx /\ rows * nx \in Nat
                BY <4>2
            <4>. QED BY <3>1, <3>2, <4>1, <4>2, <4>3 DEF d
        <3>4. CASE ~(d > nx)
            <4>1. rows = 0
                BY <3>4 DEF d
            <4>. HIDE DEF rows
            <4>. QED BY <3>1, <3>4, <4>1 DEF d
        <3>. QED BY <3>3, <3>4
    <2>. HIDE DEF rows
    <2>3. tail = (m + rows) * nx /\ tail \in mid .. end /\ end - tail \in 0 .. nx
        BY <1>3, <2>1, <2>2
    <2>. HIDE DEF tail
    <2>4. reduce_block(m, 0, rows, nx) = RowMajor(nx, mid, tail)
        BY <2>1, <2>2, <2>3, WholeRows
    <2>5. t = m + rows
        <3>1. m + rows \in Nat
            BY <2>1, <2>2
        <3>. QED BY <2>3, <3>1, Multiple
    <2>6. reduce_block(t, 0, 1, end - tail) = RowMajor(nx, tail, end)
        <3>. DEFINE e == end - tail
        <3>1. e \in Nat /\ 0 + e <= nx /\ t \in Nat /\ t * nx + 0 = tail
              /\ tail + e = end
            BY <1>3, <2>1, <2>2, <2>3, <2>5
        <3>. HIDE DEF e, t
        <3>2. reduce_block(t, 0, 1, e) = RowMajor(nx, t * nx + 0, t * nx + 0 + e)
            BY <3>1, PartOfRow
        <3>3. reduce_block(t, 0, 1, e) = RowMajor(nx, tail, end)
            BY <3>1, <3>2
        <3>. QED BY <3>3 DEF e
    <2>7. RowMajor(nx, first, end) = RowMajor(nx, first, mid) \cup RowMajor(nx, mid, end)
        BY <1>3, <2>1, CellsMeet
    <2>8. RowMajor(nx, mid, end) = RowMajor(nx, mid, tail) \cup RowMajor(nx, tail, end)
        BY <1>3, <2>1, <2>3, CellsMeet
    <2>. QED BY <1>2, <1>5, <2>4, <2>6, <2>7, <2>8 DEF m, t
<1>. QED BY <1>4, <1>7, <1>8
------------------------------------------------------------------------------
(* choose_x_blocking, from the units it starts with down to low.           *)

Halved(f, low, x) == IF x % 2 = 0 /\ x >= low * 2 THEN f[x \div 2]
                     ELSE IF x % 3 = 0 /\ x >= low * 3 THEN f[x \div 3]
                     ELSE IF x >= low * 4 THEN 1 ELSE x

\* The numbers the loop goes through are smaller and smaller divisors.
LEMMA Halves ==
    ASSUME NEW x \in Nat \ {0}
    PROVE  /\ x % 2 = 0 => x \div 2 \in 1 .. x - 1 /\ x = 2 * (x \div 2)
           /\ x % 3 = 0 => x \div 3 \in 1 .. x - 1 /\ x = 3 * (x \div 3)
OBVIOUS

\* The loop ends, for any number of units.
LEMMA HalvingIsDefined ==
    ASSUME NEW low \in Nat, NEW units \in Nat
    PROVE  \E f : f = [x \in 1 .. units |-> Halved(f, low, x)]
<1>. DEFINE Exists(n) == \E f : f = [x \in 1 .. n |-> Halved(f, low, x)]
            Bad == { n \in Nat : ~Exists(n) }
<1>1. SUFFICES Bad = {}
    OBVIOUS
<1>2. SUFFICES ASSUME Bad # {} PROVE FALSE
    OBVIOUS
<1>3. PICK n \in Bad : \A m \in Bad : n <= m
    BY <1>2, SmallestExists
<1>4. n # 0
    <2>. DEFINE none == [x \in 1 .. 0 |-> 0]
    <2>1. none = [x \in 1 .. 0 |-> Halved(none, low, x)]
        OBVIOUS
    <2>. HIDE DEF none
    <2>2. Exists(0)
        BY <2>1
    <2>. QED BY <1>3, <2>2
<1>5. n - 1 \in Nat /\ n - 1 \notin Bad
    BY <1>3, <1>4
<1>6. PICK g : g = [x \in 1 .. n - 1 |-> Halved(g, low, x)]
    BY <1>5
<1>. DEFINE h == [x \in 1 .. n |-> IF x = n THEN Halved(g, low, n) ELSE g[x]]
<1>7. ASSUME NEW x \in 1 .. n
      PROVE  h[x] = Halved(h, low, x)
    <2>1. \A y \in 1 .. n - 1 : h[y] = g[y]
        OBVIOUS
    <2>2. h[x] = Halved(g, low, x)
        <3>1. x # n => x \in 1 .. n - 1 /\ h[x] = g[x]
            BY <1>3
        <3>2. \A y \in 1 .. n - 1 : g[y] = Halved(g, low, y)
            BY <1>6
        <3>3. x = n => h[x] = Halved(g, low, x)
            OBVIOUS
        <3>. QED BY <3>1, <3>2, <3>3
    <2>. HIDE DEF h
    <2>3. x \in Nat \ {0} /\ n \in Nat
        BY <1>3
    <2>4. Halved(g, low, x) = Halved(h, low, x)
        BY <2>1, <2>3, Halves DEF Halved
    <2>. QED BY <2>2, <2>4
<1>8. h = [x \in 1 .. n |-> Halved(h, low, x)]
    BY <1>7
<1>. HIDE DEF h
<1>9. Exists(n)
    BY <1>8
<1>. QED BY <1>3, <1>9

\* What the loop ends with divides what it started with.
LEMMA HalvingDivides ==
    ASSUME NEW low \in Nat, NEW units \in Nat,
           NEW f, f = [x \in 1 .. units |-> Halved(f, low, x)]
    PROVE  \A x \in 1 .. units :
              f[x] \in Nat \ {0} /\ \E k \in Nat \ {0} : x = k * f[x]
<1>. DEFINE Good(x) == f[x] \in Nat \ {0} /\ \E k \in Nat \ {0} : x = k * f[x]
            Bad == { x \in 1 .. units : ~Good(x) }
<1>1. SUFFICES ASSUME Bad # {} PROVE FALSE
    OBVIOUS
<1>2. PICK x \in Bad : \A y \in Bad : x <= y
    <2>1. Bad \subseteq Nat
        OBVIOUS
    <2>. QED BY <1>1, <2>1, SmallestExists
<1>3. x \in 1 .. units /\ x \in Nat \ {0} /\ ~Good(x) /\ f[x] = Halved(f, low, x)
    BY <1>2
<1>4. \A y \in 1 .. x - 1 : Good(y)
    BY <1>2, <1>3
<1>5. CASE x % 2 = 0 /\ x >= low * 2
    <2>1. \E y \in 1 .. x - 1 : Good(y) /\ f[x] = f[y] /\ x = 2 * y
        BY <1>3, <1>4, <1>5, Halves DEF Halved
    <2>2. PICK y \in 1 .. x - 1 : Good(y) /\ f[x] = f[y] /\ x = 2 * y
        BY <2>1
    <2>3. PICK k \in Nat \ {0} : y = k * f[x]
        BY <2>2
    <2>. DEFINE v == f[x]
    <2>4. v \in Nat \ {0} /\ y = k * v
        BY <2>2, <2>3
    <2>. HIDE DEF v
    <2>5. 2 * k \in Nat \ {0} /\ x = (2 * k) * v
        BY <2>2, <2>4
    <2>. QED BY <1>3, <2>4, <2>5 DEF v
<1>6. CASE ~(x % 2 = 0 /\ x >= low * 2) /\ x % 3 = 0 /\ x >= low * 3
    <2>1. \E y \in 1 .. x - 1 : Good(y) /\ f[x] = f[y] /\ x = 3 * y
        BY <1>3, <1>4, <1>6, Halves DEF Halved
    <2>2. PICK y \in 1 .. x - 1 : Good(y) /\ f[x] = f[y] /\ x = 3 * y
        BY <2>1
    <2>3. PICK k \in Nat \ {0} : y = k * f[x]
        BY <2>2
    <2>. DEFINE v == f[x]
    <2>4. v \in Nat \ {0} /\ y = k * v
        BY <2>2, <2>3
    <2>. HIDE DEF v
    <2>5. 3 * k \in Nat \ {0} /\ x = (3 * k) * v
        BY <2>2, <2>4
    <2>. QED BY <1>3, <2>4, <2>5 DEF v
<1>7. CASE ~(x % 2 = 0 /\ x >= low * 2) /\ ~(x % 3 = 0 /\ x >= low * 3)
    <2>1. f[x] = 1 \/ f[x] = x
        BY <1>3, <1>7 DEF Halved
    <2>2. f[x] \in Nat \ {0}
        BY <1>3, <2>1
    <2>3. \E k \in Nat \ {0} : x = k * f[x]
        <3>1. CASE f[x] = 1
            <4>1. x = x * 1
                BY <1>3
            <4>. QED BY <1>3, <3>1, <4>1
        <3>2. CASE f[x] = x
            <4>1. x = 1 * x /\ 1 \in Nat \ {0}
                BY <1>3
            <4>. QED BY <3>2, <4>1
        <3>. QED BY <2>1, <3>1, <3>2
    <2>. QED BY <1>3, <2>2, <2>3
<1>. QED BY <1>5, <1>6, <1>7

(***************************************************************************)
(* choose_x_blocking ends, and returns a number of columns that a row is a *)
(* multiple of: no thread is left with a part of a block.                  *)
(***************************************************************************)
THEOREM BlockingDivides ==
    ASSUME NEW s, s.x_block \in Nat \ {0}, NEW units \in Nat \ {0},
           NEW ny \in Nat \ {0}, NEW nthr \in Nat
    PROVE  LET x == choose_x_blocking(s, units * s.x_block, ny, nthr)
           IN  x \in Nat \ {0} /\ \E k \in Nat \ {0} : units * s.x_block = k * x
<1>. DEFINE nx == units * s.x_block
            low == DivUp(units, Greater(1, nthr \div ny))
            f == CHOOSE f : f = [x \in 1 .. units |-> Halved(f, low, x)]
<1>1. nx \in Nat /\ nx \div s.x_block = units
    <2>. DEFINE b == s.x_block
    <2>1. b \in Nat \ {0}
        OBVIOUS
    <2>. HIDE DEF b
    <2>2. units * b \in Nat /\ (units * b) \div b = units
        BY <2>1, Multiple
    <2>. QED BY <2>2 DEF b
<1>2. low \in Nat
    <2>1. Greater(1, nthr \div ny) \in Nat \ {0}
        BY Quotients DEF Greater
    <2>. QED BY <2>1, DivUpBounds
<1>3. choose_x_blocking(s, nx, ny, nthr) = f[units] * s.x_block
    BY <1>1 DEF choose_x_blocking, Halved
<1>. HIDE DEF low
<1>4. f = [x \in 1 .. units |-> Halved(f, low, x)]
    <2>1. \E g : g = [x \in 1 .. units |-> Halved(g, low, x)]
        BY <1>2, HalvingIsDefined
    <2>. QED BY <2>1, Zenon
<1>. HIDE DEF f
<1>5. PICK k \in Nat \ {0} : f[units] \in Nat \ {0} /\ units = k * f[units]
    BY <1>2, <1>4, HalvingDivides
<1>6. nx = k * (f[units] * s.x_block) /\ f[units] * s.x_block \in Nat \ {0}
    <2>. DEFINE a == f[units]
                b == s.x_block
    <2>1. a \in Nat \ {0} /\ b \in Nat \ {0} /\ nx = (k * a) * b
        BY <1>5
    <2>. HIDE DEF a, b, nx
    <2>2. (k * a) * b = k * (a * b) /\ a * b \in Nat \ {0}
        BY <2>1
    <2>. QED BY <2>1, <2>2 DEF a, b
<1>. QED BY <1>3, <1>6
\* What thread i of the nthr that share a job adds up, in blocks of x columns.
PartOfJob(nx, ny, x, nthr, i) ==
    LET n == (ny * nx) \div x
    IN  Rows(nx, x * Start(n, nthr, i), x * End(n, nthr, i))

Rectangle(nx, ny) == (0 .. ny - 1) \X (0 .. nx - 1)

\* The threads of a job cut it without rest or overlap.
LEMMA JobIsCut ==
    ASSUME NEW x \in Nat \ {0}, NEW k \in Nat \ {0}, NEW ny \in Nat \ {0},
           NEW nthr \in Nat \ {0}, NEW nx \in Nat \ {0}, nx = k * x
    PROVE  /\ \A i \in 0 .. nthr - 1 :
                 PartOfJob(nx, ny, x, nthr, i) \subseteq Rectangle(nx, ny)
           /\ \A p \in Rectangle(nx, ny) : \E i \in 0 .. nthr - 1 :
                 p \in PartOfJob(nx, ny, x, nthr, i)
           /\ \A i, j \in 0 .. nthr - 1 : i # j =>
                 PartOfJob(nx, ny, x, nthr, i) \cap PartOfJob(nx, ny, x, nthr, j) = {}
<1>. DEFINE n == (ny * nx) \div x
            S(i) == Start(n, nthr, i)
            E(i) == End(n, nthr, i)
            Cut(i) == Rows(nx, x * S(i), x * E(i))
            Job == (0 .. ny - 1) \X (0 .. nx - 1)
            V(p) == p[1] * nx + p[2]
            W(p) == V(p) \div x
<1>0. /\ \A i : PartOfJob(nx, ny, x, nthr, i) = Cut(i)
      /\ Rectangle(nx, ny) = Job
    BY DEF PartOfJob, Rectangle
<1>1. n = ny * k /\ n \in Nat
    <2>1. ny * k \in Nat /\ ny * nx = (ny * k) * x
        OBVIOUS
    <2>2. (ny * nx) \div x = ny * k
        BY <2>1, Multiple
    <2>. QED BY <2>1, <2>2
<1>. HIDE DEF n
<1>2. \A i \in 0 .. nthr - 1 : S(i) \in Nat /\ E(i) \in Nat /\ S(i) <= E(i)
    BY <1>1, SharesAreOrdered
<1>3. /\ \A i \in 0 .. nthr - 1 : S(i) .. E(i) - 1 \subseteq 0 .. n - 1
      /\ \A z \in 0 .. n - 1 : \E i \in 0 .. nthr - 1 : z \in S(i) .. E(i) - 1
      /\ \A i, j \in 0 .. nthr - 1 :
            i # j => (S(i) .. E(i) - 1) \cap (S(j) .. E(j) - 1) = {}
    BY <1>1, SharesArePartition
<1>. HIDE DEF S, E
<1>4. ASSUME NEW p \in Nat \X (0 .. nx - 1)
      PROVE  /\ V(p) \in Nat /\ W(p) \in Nat
             /\ \A z \in Nat : V(p) < x * z <=> W(p) < z
             /\ p \in Job <=> W(p) < n
    <2>1. p[1] \in Nat /\ p[2] \in 0 .. nx - 1
        OBVIOUS
    <2>2. V(p) \in Nat
        BY <2>1, RowOrder
    <2>3. p[1] < ny <=> V(p) < ny * nx
        BY <2>1, RowOrder
    <2>4. p = <<p[1], p[2]>>
        OBVIOUS
    <2>5. p \in Job <=> p[1] < ny
        BY <2>1, <2>4
    <2>. HIDE DEF V
    <2>6. W(p) \in Nat /\ V(p) % x \in 0 .. x - 1 /\ V(p) = x * W(p) + (V(p) % x)
        BY <2>2, Quotients
    <2>. DEFINE w == W(p)
                r == V(p) % x
    <2>7. w \in Nat /\ r \in 0 .. x - 1 /\ V(p) = w * x + r
        BY <2>6
    <2>. HIDE DEF w, r
    <2>8. ASSUME NEW z \in Nat PROVE V(p) < x * z <=> w < z
        <3>1. w < z <=> w * x + r < z * x
            BY <2>7, RowOrder
        <3>. QED BY <2>7, <3>1
    <2>9. ny * nx = x * n
        BY <1>1
    <2>. QED BY <1>1, <2>2, <2>3, <2>5, <2>6, <2>8, <2>9 DEF w
<1>5. ASSUME NEW i \in 0 .. nthr - 1
      PROVE  Cut(i) = { p \in Nat \X (0 .. nx - 1) : W(p) \in S(i) .. E(i) - 1 }
    <2>1. x * S(i) \in Nat /\ x * E(i) \in Nat /\ x * S(i) <= x * E(i)
        <3>1. (E(i) - S(i)) \in Nat /\ x * (E(i) - S(i)) \in Nat
            BY <1>2
        <3>2. x * (E(i) - S(i)) = x * E(i) - x * S(i)
            BY <1>2
        <3>. QED BY <1>2, <3>1, <3>2
    <2>2. Cut(i) = RowMajor(nx, x * S(i), x * E(i))
        BY <2>1, RowsCover
    <2>3. RowMajor(nx, x * S(i), x * E(i)) =
             { p \in Nat \X (0 .. nx - 1) : x * S(i) <= V(p) /\ V(p) < x * E(i) }
        BY DEF RowMajor
    <2>. HIDE DEF V, W
    <2>4. ASSUME NEW p \in Nat \X (0 .. nx - 1)
          PROVE  x * S(i) <= V(p) /\ V(p) < x * E(i) <=> W(p) \in S(i) .. E(i) - 1
        <3>1. V(p) < x * S(i) <=> W(p) < S(i)
            BY <1>2, <1>4
        <3>2. V(p) < x * E(i) <=> W(p) < E(i)
            BY <1>2, <1>4
        <3>3. V(p) \in Nat /\ W(p) \in Nat
            BY <1>4
        <3>. QED BY <1>2, <2>1, <3>1, <3>2, <3>3
    <2>. QED BY <2>2, <2>3, <2>4
<1>. HIDE DEF V, W
<1>6. Job \subseteq Nat \X (0 .. nx - 1)
    OBVIOUS
<1>. HIDE DEF Cut, Job
<1>7. ASSUME NEW i \in 0 .. nthr - 1 PROVE Cut(i) \subseteq Job
    <2>1. \A z \in S(i) .. E(i) - 1 : z < n
        BY <1>1, <1>3
    <2>. QED BY <1>4, <1>5, <2>1
<1>8. ASSUME NEW p \in Job PROVE \E i \in 0 .. nthr - 1 : p \in Cut(i)
    <2>1. W(p) \in 0 .. n - 1
        BY <1>1, <1>4, <1>6
    <2>2. PICK i \in 0 .. nthr - 1 : W(p) \in S(i) .. E(i) - 1
        BY <1>3, <2>1
    <2>. QED BY <1>5, <1>6, <2>2
<1>9. ASSUME NEW i \in 0 .. nthr - 1, NEW j \in 0 .. nthr - 1, i # j
      PROVE  Cut(i) \cap Cut(j) = {}
    <2>1. (S(i) .. E(i) - 1) \cap (S(j) .. E(j) - 1) = {}
        BY <1>3, <1>9
    <2>. QED BY <1>5, <2>1
<1>. QED BY <1>0, <1>7, <1>8, <1>9
\* The jobs of a group that are whole numbers of blocks of columns.
WholeBlocks(s, off, njobs) ==
    /\ s.x_block \in Nat \ {0}
    /\ \A j \in 0 .. njobs - 1 :
          /\ NY(s, off + j) \in Nat \ {0}
          /\ \E u \in Nat \ {0} : NX(s, off + j) = u * s.x_block

\* The elements of the jobs of a group, the jobs numbered from 0.
JobElements(s, off, njobs) ==
    UNION { {j} \X ((0 .. NY(s, off + j) - 1) \X (0 .. NX(s, off + j) - 1)) :
              j \in 0 .. njobs - 1 }

(***************************************************************************)
(* Every element of every job of a group is added up by exactly one of its *)
(* threads, and nothing outside the jobs is: whether threads share a job   *)
(* or have several.                                                        *)
(***************************************************************************)
THEOREM RectanglesArePartition ==
    ASSUME NEW s, NEW off \in Nat, NEW njobs \in Nat \ {0}, NEW nthr \in Nat \ {0},
           WholeBlocks(s, off, njobs)
    PROVE  LET Share(id) == Share2d(s, off, njobs, nthr, id)
           IN  /\ \A id \in 0 .. nthr - 1 : Share(id) \subseteq JobElements(s, off, njobs)
               /\ \A p \in JobElements(s, off, njobs) :
                     \E id \in 0 .. nthr - 1 : p \in Share(id)
               /\ \A id1, id2 \in 0 .. nthr - 1 :
                     id1 # id2 => Share(id1) \cap Share(id2) = {}
<1>. DEFINE G == Lesser(njobs, nthr)
            Q == nthr \div G
            g(id) == id \div Q
            i(id) == id % Q
            Mine(h) == Start(njobs, G, h) .. End(njobs, G, h) - 1
            nx(j) == NX(s, off + j)
            ny(j) == NY(s, off + j)
            x(j) == choose_x_blocking(s, nx(j), ny(j), Q)
            Cut(j, k) == PartOfJob(nx(j), ny(j), x(j), Q, k)
            Job(j) == Rectangle(nx(j), ny(j))
            Share(id) == Share2d(s, off, njobs, nthr, id)
<1>1. \A id \in 0 .. nthr - 1 :
         Share(id) = IF id >= G * Q THEN {}
                     ELSE UNION { {j} \X Cut(j, i(id)) : j \in Mine(g(id)) }
    BY DEF Share2d, PartOfJob
<1>2. JobElements(s, off, njobs) = UNION { {j} \X Job(j) : j \in 0 .. njobs - 1 }
    BY DEF JobElements, Rectangle
<1>3. G \in Nat \ {0} /\ G <= nthr
    BY DEF Lesser
<1>. HIDE DEF G
<1>4. Q \in Nat \ {0} /\ G * Q <= nthr
    <2>1. Q \in Nat /\ Q >= 1 /\ Q * G <= nthr
        BY <1>3, Quotients
    <2>. QED BY <1>3, <2>1
<1>. HIDE DEF Q
<1>5. ASSUME NEW id \in 0 .. nthr - 1
      PROVE  /\ g(id) \in Nat /\ i(id) \in 0 .. Q - 1 /\ id = Q * g(id) + i(id)
             /\ id < G * Q => g(id) \in 0 .. G - 1
    <2>1. g(id) \in Nat /\ i(id) \in 0 .. Q - 1 /\ id = Q * g(id) + i(id)
        <3>1. id \in Nat /\ Q \in Nat \ {0}
            BY <1>4
        <3>. QED BY <3>1, Quotients
    <2>. HIDE DEF g, i
    <2>2. g(id) < G <=> g(id) * Q + i(id) < G * Q
        BY <1>3, <1>4, <2>1, RowOrder
    <2>. QED BY <1>3, <1>4, <2>1, <2>2
<1>6. ASSUME NEW h \in 0 .. G - 1, NEW k \in 0 .. Q - 1
      PROVE  /\ Q * h + k \in 0 .. nthr - 1 /\ Q * h + k < G * Q
             /\ g(Q * h + k) = h /\ i(Q * h + k) = k
    <2>. DEFINE id == Q * h + k
    <2>1. h < G <=> h * Q + k < G * Q
        BY <1>3, <1>4, RowOrder
    <2>2. Q * h = h * Q /\ Q * h \in Nat /\ G * Q \in Nat
        BY <1>3, <1>4
    <2>3. id \in 0 .. nthr - 1 /\ id < G * Q
        BY <1>3, <1>4, <2>1, <2>2
    <2>. HIDE DEF id
    <2>4. g(id) \in Nat /\ i(id) \in 0 .. Q - 1 /\ id = Q * g(id) + i(id)
        BY <1>5, <2>3
    <2>. DEFINE gg == g(id)
                ii == i(id)
    <2>5. gg \in Nat /\ ii \in 0 .. Q - 1 /\ id = Q * gg + ii /\ id = Q * h + k
        BY <2>4 DEF id
    <2>. HIDE DEF gg, ii
    <2>6. /\ gg < h <=> gg * Q + ii < h * Q
          /\ h < gg <=> h * Q + k < gg * Q
        BY <1>4, <2>5, RowOrder
    <2>7. gg * Q = Q * gg /\ h * Q = Q * h /\ gg * Q \in Nat /\ h * Q \in Nat
        BY <1>4, <2>5
    <2>8. gg = h
        BY <1>4, <2>5, <2>6, <2>7
    <2>9. ii = k
        BY <1>4, <2>5, <2>7, <2>8
    <2>. QED BY <2>3, <2>8, <2>9 DEF id, gg, ii
<1>. HIDE DEF g, i
<1>7. /\ \A h \in 0 .. G - 1 : Mine(h) \subseteq 0 .. njobs - 1
      /\ \A j \in 0 .. njobs - 1 : \E h \in 0 .. G - 1 : j \in Mine(h)
      /\ \A h, k \in 0 .. G - 1 : h # k => Mine(h) \cap Mine(k) = {}
    BY <1>3, SharesArePartition
<1>8. ASSUME NEW j \in 0 .. njobs - 1
      PROVE  /\ \A k \in 0 .. Q - 1 : Cut(j, k) \subseteq Job(j)
             /\ \A p \in Job(j) : \E k \in 0 .. Q - 1 : p \in Cut(j, k)
             /\ \A k, l \in 0 .. Q - 1 : k # l => Cut(j, k) \cap Cut(j, l) = {}
    <2>1. ny(j) \in Nat \ {0} /\ s.x_block \in Nat \ {0}
        BY DEF WholeBlocks
    <2>2. PICK u \in Nat \ {0} : nx(j) = u * s.x_block
        BY DEF WholeBlocks
    <2>3. x(j) \in Nat \ {0} /\ \E k \in Nat \ {0} : u * s.x_block = k * x(j)
        <3>. DEFINE c == ny(j)
                    d == choose_x_blocking(s, u * s.x_block, c, Q)
        <3>1. c \in Nat \ {0} /\ Q \in Nat /\ x(j) = d
            BY <1>4, <2>1, <2>2
        <3>. HIDE DEF c
        <3>2. d \in Nat \ {0} /\ \E k \in Nat \ {0} : u * s.x_block = k * d
            BY <2>1, <3>1, BlockingDivides
        <3>. QED BY <3>1, <3>2, Zenon
    <2>4. PICK k \in Nat \ {0} : nx(j) = k * x(j)
        BY <2>2, <2>3
    <2>5. nx(j) \in Nat \ {0}
        <3>. DEFINE b == s.x_block
        <3>1. b \in Nat \ {0}
            BY <2>1
        <3>. HIDE DEF b
        <3>2. u * b \in Nat \ {0}
            BY <3>1
        <3>. QED BY <2>2, <3>2 DEF b
    <2>6. PICK a \in Nat \ {0}, c \in Nat \ {0}, d \in Nat \ {0} :
             a = nx(j) /\ c = ny(j) /\ d = x(j)
        BY <2>1, <2>3, <2>5
    <2>7. a = k * d
        BY <2>4, <2>6
    <2>8. /\ \A l \in 0 .. Q - 1 : PartOfJob(a, c, d, Q, l) \subseteq Rectangle(a, c)
          /\ \A p \in Rectangle(a, c) : \E l \in 0 .. Q - 1 : p \in PartOfJob(a, c, d, Q, l)
          /\ \A l, m \in 0 .. Q - 1 :
                l # m => PartOfJob(a, c, d, Q, l) \cap PartOfJob(a, c, d, Q, m) = {}
        BY <1>4, <2>7, JobIsCut
    <2>9. Job(j) = Rectangle(a, c) /\ \A l : Cut(j, l) = PartOfJob(a, c, d, Q, l)
        BY <2>6
    <2>. HIDE DEF nx, ny, x, Job, Cut
    <2>. QED BY <2>8, <2>9
<1>. HIDE DEF Mine, Cut, Job, Share
<1>9. ASSUME NEW id \in 0 .. nthr - 1
      PROVE  Share(id) \subseteq JobElements(s, off, njobs)
    <2>1. CASE id >= G * Q
        BY <1>1, <2>1
    <2>2. CASE ~(id >= G * Q)
        <3>1. g(id) \in 0 .. G - 1 /\ i(id) \in 0 .. Q - 1
            BY <1>3, <1>4, <1>5, <2>2
        <3>2. \A j \in Mine(g(id)) : j \in 0 .. njobs - 1 /\ Cut(j, i(id)) \subseteq Job(j)
            BY <1>7, <1>8, <3>1
        <3>. QED BY <1>1, <1>2, <2>2, <3>2
    <2>. QED BY <2>1, <2>2
<1>10. ASSUME NEW p \in JobElements(s, off, njobs)
       PROVE  \E id \in 0 .. nthr - 1 : p \in Share(id)
    <2>1. PICK j \in 0 .. njobs - 1 : p \in {j} \X Job(j)
        BY <1>2
    <2>2. p[2] \in Job(j) /\ p = <<j, p[2]>>
        BY <2>1
    <2>3. PICK k \in 0 .. Q - 1 : p[2] \in Cut(j, k)
        BY <1>8, <2>2
    <2>4. PICK h \in 0 .. G - 1 : j \in Mine(h)
        BY <1>7
    <2>. DEFINE id == Q * h + k
    <2>5. /\ id \in 0 .. nthr - 1 /\ id < G * Q
          /\ g(id) = h /\ i(id) = k
        BY <1>6
    <2>. HIDE DEF id
    <2>6. ~(id >= G * Q)
        BY <1>3, <1>4, <2>5
    <2>7. Share(id) = UNION { {m} \X Cut(m, k) : m \in Mine(h) }
        BY <1>1, <2>5, <2>6
    <2>. QED BY <2>2, <2>3, <2>4, <2>5, <2>7
<1>11. ASSUME NEW id1 \in 0 .. nthr - 1, NEW id2 \in 0 .. nthr - 1, id1 # id2
       PROVE  Share(id1) \cap Share(id2) = {}
    <2>1. CASE id1 >= G * Q \/ id2 >= G * Q
        BY <1>1, <2>1
    <2>2. CASE ~(id1 >= G * Q) /\ ~(id2 >= G * Q)
        <3>1. /\ g(id1) \in 0 .. G - 1 /\ i(id1) \in 0 .. Q - 1
              /\ g(id2) \in 0 .. G - 1 /\ i(id2) \in 0 .. Q - 1
            BY <1>3, <1>4, <1>5, <2>2
        <3>2. g(id1) # g(id2) \/ i(id1) # i(id2)
            BY <1>5, <1>11
        <3>3. SUFFICES ASSUME NEW p, p \in Share(id1), p \in Share(id2)
                       PROVE  FALSE
            OBVIOUS
        <3>4. PICK j1 \in Mine(g(id1)) : p \in {j1} \X Cut(j1, i(id1))
            BY <1>1, <2>2, <3>3
        <3>5. PICK j2 \in Mine(g(id2)) : p \in {j2} \X Cut(j2, i(id2))
            BY <1>1, <2>2, <3>3
        <3>6. j1 = j2 /\ p[2] \in Cut(j1, i(id1)) /\ p[2] \in Cut(j1, i(id2))
            BY <3>4, <3>5
        <3>7. j1 \in 0 .. njobs - 1
            BY <1>7, <3>1
        <3>8. g(id1) = g(id2)
            BY <1>7, <3>1, <3>6
        <3>. QED BY <1>8, <3>1, <3>2, <3>6, <3>7, <3>8
    <2>. QED BY <2>1, <2>2
<1>. QED BY <1>9, <1>10, <1>11 DEF Share
------------------------------------------------------------------------------
(* Loops.  A loop goes from x to step[x] until it stops and returns out[x];*)
(* mu[x] bounds the number of rounds that are left.                        *)

Loop(S, stop, step, out, f) ==
    f = [x \in S |-> IF x \in stop THEN out[x] ELSE f[step[x]]]

Descends(S, stop, step, mu) ==
    /\ mu \in [S -> Nat]
    /\ \A x \in S : x \notin stop => step[x] \in S /\ mu[step[x]] < mu[x]

\* A loop whose rounds are bounded is a function.
LEMMA LoopIsDefined ==
    ASSUME NEW S, NEW stop, NEW step, NEW out, NEW mu, Descends(S, stop, step, mu)
    PROVE  \E f : Loop(S, stop, step, out, f)
<1>. DEFINE Value(g, x) == IF x \in stop THEN out[x] ELSE g[step[x]]
            Solves(g, n) == \A x \in S : mu[x] < n => g[x] = Value(g, x)
            Unsolved == { n \in Nat : ~\E g : Solves(g, n) }
<1>1. \A x \in S : /\ mu[x] \in Nat
                   /\ x \notin stop => step[x] \in S /\ mu[step[x]] < mu[x]
                                       /\ mu[step[x]] \in Nat
    BY DEF Descends
<1>2. Unsolved = {}
    <2>1. SUFFICES ASSUME Unsolved # {} PROVE FALSE
        OBVIOUS
    <2>2. PICK n \in Unsolved : \A m \in Unsolved : n <= m
        <3>1. Unsolved \subseteq Nat
            OBVIOUS
        <3>. QED BY <2>1, <3>1, SmallestExists
    <2>3. n # 0
        <3>1. \A g : Solves(g, 0)
            BY <1>1
        <3>. QED BY <2>2, <3>1
    <2>4. n \in Nat /\ n - 1 \in Nat /\ n - 1 \notin Unsolved
        BY <2>2, <2>3
    <2>5. PICK g : Solves(g, n - 1)
        BY <2>4
    <2>. DEFINE h == [x \in S |-> IF mu[x] < n - 1 THEN g[x] ELSE Value(g, x)]
    <2>6. \A x \in S : mu[x] < n => h[x] = Value(g, x)
        BY <2>5
    <2>7. \A x \in S : mu[x] < n /\ x \notin stop => h[step[x]] = g[step[x]]
        <3>1. SUFFICES ASSUME NEW x \in S, mu[x] < n, x \notin stop
                       PROVE  h[step[x]] = g[step[x]]
            OBVIOUS
        <3>2. step[x] \in S /\ mu[step[x]] < n - 1
            BY <1>1, <2>4, <3>1
        <3>. QED BY <3>2
    <2>. HIDE DEF h
    <2>8. Solves(h, n)
        BY <2>6, <2>7
    <2>. QED BY <2>2, <2>8
<1>3. ASSUME NEW g, NEW h, NEW m \in Nat, NEW n \in Nat, Solves(g, m), Solves(h, n)
      PROVE  \A x \in S : mu[x] < m /\ mu[x] < n => g[x] = h[x]
    <2>. DEFINE Differ == { k \in Nat : \E x \in S : /\ mu[x] = k /\ k < m /\ k < n
                                                     /\ g[x] # h[x] }
    <2>1. SUFFICES ASSUME Differ # {} PROVE FALSE
        BY <1>1
    <2>2. PICK k \in Differ : \A j \in Differ : k <= j
        <3>1. Differ \subseteq Nat
            OBVIOUS
        <3>. QED BY <2>1, <3>1, SmallestExists
    <2>3. PICK x \in S : mu[x] = k /\ k < m /\ k < n /\ g[x] # h[x]
        BY <2>2
    <2>4. x \notin stop /\ g[x] = g[step[x]] /\ h[x] = h[step[x]]
        BY <1>3, <2>3
    <2>5. step[x] \in S /\ mu[step[x]] < k /\ mu[step[x]] \in Nat
        BY <1>1, <2>3, <2>4
    <2>6. mu[step[x]] < m /\ mu[step[x]] < n
        BY <2>3, <2>5
    <2>7. mu[step[x]] \in Differ
        BY <2>3, <2>4, <2>5, <2>6
    <2>. QED BY <2>2, <2>5, <2>7
<1>. DEFINE G(x) == CHOOSE g : Solves(g, mu[x] + 1)
            f == [x \in S |-> G(x)[x]]
<1>4. ASSUME NEW x \in S PROVE Solves(G(x), mu[x] + 1)
    <2>1. mu[x] + 1 \in Nat /\ mu[x] + 1 \notin Unsolved
        BY <1>1, <1>2
    <2>2. \E g : Solves(g, mu[x] + 1)
        BY <2>1
    <2>. HIDE DEF Solves
    <2>. QED BY <2>2
<1>. HIDE DEF G
<1>5. ASSUME NEW x \in S PROVE f[x] = Value(f, x)
    <2>1. f[x] = Value(G(x), x)
        BY <1>1, <1>4
    <2>2. x \notin stop => G(x)[step[x]] = G(step[x])[step[x]]
        <3>1. SUFFICES ASSUME x \notin stop PROVE G(x)[step[x]] = G(step[x])[step[x]]
            OBVIOUS
        <3>2. step[x] \in S /\ mu[step[x]] < mu[x] /\ mu[step[x]] \in Nat /\ mu[x] \in Nat
            BY <1>1, <3>1
        <3>3. Solves(G(x), mu[x] + 1) /\ Solves(G(step[x]), mu[step[x]] + 1)
            BY <1>4, <3>2
        <3>4. mu[step[x]] < mu[x] + 1 /\ mu[step[x]] < mu[step[x]] + 1
              /\ mu[x] + 1 \in Nat /\ mu[step[x]] + 1 \in Nat
            BY <3>2
        <3>. HIDE DEF Solves
        <3>. QED BY <1>3, <3>2, <3>3, <3>4
    <2>3. x \notin stop => f[step[x]] = G(step[x])[step[x]]
        BY <1>1
    <2>. HIDE DEF f
    <2>. QED BY <2>1, <2>2, <2>3
<1>6. f = [x \in S |-> Value(f, x)]
    BY <1>5
<1>. HIDE DEF f
<1>. QED BY <1>6 DEF Loop

\* A loop ends where it stops, in a state with the invariant it started with.
LEMMA LoopEnds ==
    ASSUME NEW S, NEW stop, NEW step, NEW out, NEW mu, Descends(S, stop, step, mu),
           NEW f, Loop(S, stop, step, out, f),
           NEW inv, inv \subseteq S, \A x \in inv : x \notin stop => step[x] \in inv
    PROVE  \A x \in inv : \E y \in inv : y \in stop /\ f[x] = out[y]
<1>. DEFINE Ends(x) == \E y \in inv : y \in stop /\ f[x] = out[y]
            Bad == { k \in Nat : \E x \in inv : mu[x] = k /\ ~Ends(x) }
<1>1. \A x \in S : mu[x] \in Nat
    BY DEF Descends
<1>2. SUFFICES ASSUME Bad # {} PROVE FALSE
    BY <1>1
<1>3. PICK k \in Bad : \A j \in Bad : k <= j
    <2>1. Bad \subseteq Nat
        OBVIOUS
    <2>. QED BY <1>2, <2>1, SmallestExists
<1>4. PICK x \in inv : mu[x] = k /\ ~Ends(x)
    BY <1>3
<1>5. x \in S /\ f[x] = IF x \in stop THEN out[x] ELSE f[step[x]]
    BY DEF Loop
<1>6. x \notin stop
    BY <1>4, <1>5
<1>7. step[x] \in inv /\ mu[step[x]] < k /\ mu[step[x]] \in Nat /\ f[x] = f[step[x]]
    BY <1>1, <1>4, <1>5, <1>6 DEF Descends
<1>8. ~Ends(step[x])
    BY <1>4, <1>7
<1>9. mu[step[x]] \in Bad
    BY <1>7, <1>8
<1>. QED BY <1>3, <1>7, <1>9

------------------------------------------------------------------------------
(* calc_nthr_nocopy: the loops over the numbers of threads along m and n   *)

\* while (nthr_m * nthr_n > nthr) leaves a product that is not larger.
LEMMA ShrinkFits ==
    ASSUME NEW m0 \in Nat \ {0}, NEW n0 \in Nat \ {0}, NEW nthr \in Nat \ {0}
    PROVE  \E p \in (Nat \ {0}) \X (Nat \ {0}) :
              p[1] * p[2] <= nthr /\ Shrink(m0, n0, nthr) = p
<1>. DEFINE S == (0 .. m0) \X (0 .. n0)
            stop == { p \in S : p[1] * p[2] <= nthr }
            step == [p \in S |-> IF p[1] > p[2] THEN <<p[1] - 1, p[2]>>
                                 ELSE <<p[1], p[2] - 1>>]
            out == [p \in S |-> p]
            mu == [p \in S |-> p[1] + p[2]]
            inv == { p \in S : p[1] >= 1 /\ p[2] >= 1 }
            Round(f) == [p \in S |->
                IF p[1] * p[2] <= nthr THEN p
                ELSE f[IF p[1] > p[2] THEN <<p[1] - 1, p[2]>> ELSE <<p[1], p[2] - 1>>]]
            f == CHOOSE f : f = Round(f)
<1>1. \A p \in S : p[1] \in Nat /\ p[2] \in Nat /\ p[1] <= m0 /\ p[2] <= n0
    OBVIOUS
<1>2. ASSUME NEW p \in S, p \notin stop
      PROVE  /\ p[1] >= 1 /\ p[2] >= 1
             /\ p[1] > p[2] \/ p[2] > 1
             /\ step[p] \in S /\ mu[step[p]] < mu[p]
             /\ step[p] \in inv
    <2>1. PICK a \in Nat : a = p[1] /\ a <= m0
        BY <1>1
    <2>2. PICK b \in Nat : b = p[2] /\ b <= n0
        BY <1>1
    <2>3. ~(a * b <= nthr)
        BY <1>2, <2>1, <2>2
    <2>4. a # 0 /\ b # 0 /\ ~(a = 1 /\ b = 1)
        BY <2>3
    <2>5. CASE a > b
        <3>1. step[p] = <<a - 1, b>> /\ a - 1 \in 0 .. m0 /\ a - 1 >= 1
            BY <2>1, <2>2, <2>4, <2>5
        <3>2. <<a - 1, b>> \in S
            BY <2>1, <2>2, <3>1
        <3>. QED BY <2>1, <2>2, <2>4, <2>5, <3>1, <3>2
    <2>6. CASE ~(a > b)
        <3>1. step[p] = <<a, b - 1>> /\ b - 1 \in 0 .. n0 /\ b - 1 >= 1
            BY <2>1, <2>2, <2>4, <2>6
        <3>2. <<a, b - 1>> \in S
            BY <2>1, <2>2, <3>1
        <3>. QED BY <2>1, <2>2, <2>4, <2>6, <3>1, <3>2
    <2>. QED BY <2>5, <2>6
<1>3. Descends(S, stop, step, mu)
    <2>1. mu \in [S -> Nat]
        BY <1>1
    <2>. HIDE DEF S, stop, step, mu, inv
    <2>. QED BY <1>2, <2>1 DEF Descends
<1>4. \A g : g = Round(g) <=> Loop(S, stop, step, out, g)
    <2>1. \A g : Round(g) = [x \in S |-> IF x \in stop THEN out[x] ELSE g[step[x]]]
        OBVIOUS
    <2>. HIDE DEF Round, S, stop, step, out
    <2>. QED BY <2>1 DEF Loop
<1>5. Shrink(m0, n0, nthr) = f[<<m0, n0>>]
    BY DEF Shrink
<1>6. <<m0, n0>> \in inv
    OBVIOUS
<1>7. inv \subseteq S
    OBVIOUS
<1>8. \A p \in inv : p \in stop =>
         p \in (Nat \ {0}) \X (Nat \ {0}) /\ p[1] * p[2] <= nthr /\ out[p] = p
    OBVIOUS
<1>. HIDE DEF Round, S, stop, step, out, mu, inv
<1>9. \E g : g = Round(g)
    BY <1>3, <1>4, LoopIsDefined
<1>10. f = Round(f)
    BY <1>9
<1>. HIDE DEF f
<1>11. Loop(S, stop, step, out, f)
    BY <1>4, <1>10
<1>12. \A x \in inv : x \notin stop => step[x] \in inv
    BY <1>2, <1>7
<1>13. \E y \in inv : y \in stop /\ f[<<m0, n0>>] = out[y]
    BY <1>3, <1>6, <1>7, <1>11, <1>12, LoopEnds
<1>. QED BY <1>5, <1>8, <1>13

\* while (nthr_m * nthr_n < nthr) overshoots only where both are larger than 1.
LEMMA GrowFills ==
    ASSUME NEW m0 \in Nat \ {0}, NEW n0 \in Nat \ {0}, NEW nthr \in Nat \ {0},
           m0 * n0 <= nthr
    PROVE  \E p \in (Nat \ {0}) \X (Nat \ {0}) :
              /\ p[1] * p[2] <= nthr \/ (p[1] > 1 /\ p[2] > 1)
              /\ Grow(m0, n0, nthr) = p
<1>. DEFINE S == (m0 .. m0 + nthr) \X (n0 .. n0 + nthr)
            stop == { p \in S : p[1] * p[2] >= nthr }
            step == [p \in S |-> IF p[1] < p[2] THEN <<p[1] + 1, p[2]>>
                                 ELSE <<p[1], p[2] + 1>>]
            out == [p \in S |-> p]
            mu == [p \in S |-> (m0 + nthr - p[1]) + (n0 + nthr - p[2])]
            Good(p) == p[1] * p[2] <= nthr \/ (p[1] > 1 /\ p[2] > 1)
            inv == { p \in S : Good(p) }
            Round(f) == [p \in S |->
                IF p[1] * p[2] >= nthr THEN p
                ELSE f[IF p[1] < p[2] THEN <<p[1] + 1, p[2]>> ELSE <<p[1], p[2] + 1>>]]
            f == CHOOSE f : f = Round(f)
<1>1. \A p \in S : /\ p[1] \in Nat \ {0} /\ p[2] \in Nat \ {0}
                   /\ p[1] <= m0 + nthr /\ p[2] <= n0 + nthr
    OBVIOUS
<1>2. ASSUME NEW p \in S, p \notin stop
      PROVE  step[p] \in S /\ mu[step[p]] < mu[p] /\ step[p] \in inv
    <2>1. PICK a \in Nat \ {0} : a = p[1] /\ a \in m0 .. m0 + nthr
        BY <1>1
    <2>2. PICK b \in Nat \ {0} : b = p[2] /\ b \in n0 .. n0 + nthr
        BY <1>1
    <2>3. a * b < nthr
        BY <1>2, <2>1, <2>2
    <2>4. a < nthr /\ b < nthr
        <3>1. (b - 1) \in Nat /\ a * (b - 1) \in Nat /\ a * (b - 1) = a * b - a
            BY <2>2
        <3>2. (a - 1) \in Nat /\ (a - 1) * b \in Nat /\ (a - 1) * b = a * b - b
            BY <2>1
        <3>3. a * b \in Nat
            OBVIOUS
        <3>. QED BY <2>3, <3>1, <3>2, <3>3
    <2>5. CASE a < b
        <3>1. step[p] = <<a + 1, b>> /\ a + 1 \in m0 .. m0 + nthr
            BY <2>1, <2>2, <2>4, <2>5
        <3>2. <<a + 1, b>> \in S
            BY <2>1, <2>2, <3>1
        <3>3. Good(<<a + 1, b>>)
            BY <2>5
        <3>4. mu[<<a + 1, b>>] < mu[p]
            BY <2>1, <2>2, <3>2
        <3>. QED BY <3>1, <3>2, <3>3, <3>4
    <2>6. CASE ~(a < b)
        <3>1. step[p] = <<a, b + 1>> /\ b + 1 \in n0 .. n0 + nthr
            BY <2>1, <2>2, <2>4, <2>6
        <3>2. <<a, b + 1>> \in S
            BY <2>1, <2>2, <3>1
        <3>3. Good(<<a, b + 1>>)
            <4>1. a = 1 => b = 1 /\ a * (b + 1) <= nthr
                BY <2>3, <2>6
            <4>. QED BY <4>1
        <3>4. mu[<<a, b + 1>>] < mu[p]
            BY <2>1, <2>2, <3>2
        <3>. QED BY <3>1, <3>2, <3>3, <3>4
    <2>. QED BY <2>5, <2>6
<1>3. Descends(S, stop, step, mu)
    <2>1. mu \in [S -> Nat]
        BY <1>1
    <2>. HIDE DEF S, stop, step, mu, inv
    <2>. QED BY <1>2, <2>1 DEF Descends
<1>4. \A g : g = Round(g) <=> Loop(S, stop, step, out, g)
    <2>1. \A g : Round(g) = [x \in S |-> IF x \in stop THEN out[x] ELSE g[step[x]]]
        OBVIOUS
    <2>. HIDE DEF Round, S, stop, step, out
    <2>. QED BY <2>1 DEF Loop
<1>5. Grow(m0, n0, nthr) = f[<<m0, n0>>]
    BY DEF Grow
<1>6. <<m0, n0>> \in inv
    OBVIOUS
<1>7. inv \subseteq S
    OBVIOUS
<1>8. \A p \in inv : p \in (Nat \ {0}) \X (Nat \ {0}) /\ Good(p) /\ out[p] = p
    OBVIOUS
<1>. HIDE DEF Round, S, stop, step, out, mu, inv
<1>9. \E g : g = Round(g)
    BY <1>3, <1>4, LoopIsDefined
<1>10. f = Round(f)
    BY <1>9
<1>. HIDE DEF f
<1>11. Loop(S, stop, step, out, f)
    BY <1>4, <1>10
<1>12. \A x \in inv : x \notin stop => step[x] \in inv
    BY <1>2, <1>7
<1>13. \E y \in inv : y \in stop /\ f[<<m0, n0>>] = out[y]
    BY <1>3, <1>6, <1>7, <1>11, <1>12, LoopEnds
<1>. QED BY <1>5, <1>8, <1>13

\* while (nthr_m * nthr_n > 4 * nthr) leaves two numbers of threads.
LEMMA HalveIsPair ==
    ASSUME NEW m \in Nat \ {0}, NEW n \in Nat \ {0}, NEW nthr \in Nat \ {0}
    PROVE  \E a, b \in Nat \ {0} : Halve(m, n, nthr) = <<a, b>>
<1>. DEFINE S == (0 .. m) \X (0 .. n)
            stop == { p \in S : p[1] * p[2] <= 4 * nthr }
            step == [p \in S |-> <<p[1] \div 2, p[2] \div 2>>]
            out == [p \in S |-> p]
            mu == [p \in S |-> p[1] + p[2]]
            Round(f) == [p \in S |->
                IF p[1] * p[2] <= 4 * nthr THEN p
                ELSE f[<<p[1] \div 2, p[2] \div 2>>]]
            f == CHOOSE f : f = Round(f)
            h == f[<<m, n>>]
<1>1. ASSUME NEW p \in S, p \notin stop
      PROVE  step[p] \in S /\ mu[step[p]] < mu[p]
    <2>1. PICK a \in Nat : a = p[1] /\ a <= m
        OBVIOUS
    <2>2. PICK b \in Nat : b = p[2] /\ b <= n
        OBVIOUS
    <2>3. a # 0 /\ b # 0
        BY <1>1, <2>1, <2>2
    <2>4. /\ a \div 2 \in 0 .. m /\ a \div 2 < a
          /\ b \div 2 \in 0 .. n /\ b \div 2 < b
        BY <2>1, <2>2, <2>3
    <2>5. PICK c \in 0 .. m : c = a \div 2 /\ c < a
        BY <2>4
    <2>6. PICK d \in 0 .. n : d = b \div 2 /\ d < b
        BY <2>4
    <2>7. step[p] = <<c, d>> /\ <<c, d>> \in S
        BY <2>1, <2>2, <2>5, <2>6
    <2>. QED BY <2>1, <2>2, <2>5, <2>6, <2>7
<1>2. Descends(S, stop, step, mu)
    <2>1. mu \in [S -> Nat]
        OBVIOUS
    <2>. HIDE DEF S, stop, step, mu
    <2>. QED BY <1>1, <2>1 DEF Descends
<1>3. \A g : g = Round(g) <=> Loop(S, stop, step, out, g)
    <2>1. \A g : Round(g) = [x \in S |-> IF x \in stop THEN out[x] ELSE g[step[x]]]
        OBVIOUS
    <2>. HIDE DEF Round, S, stop, step, out
    <2>. QED BY <2>1 DEF Loop
<1>4. Halve(m, n, nthr) = <<Max({1, h[1]}), Max({1, h[2]})>>
    BY DEF Halve
<1>5. <<m, n>> \in S /\ S \subseteq S
    OBVIOUS
<1>6. \A p \in S : p[1] \in Nat /\ p[2] \in Nat /\ out[p] = p
    OBVIOUS
<1>. HIDE DEF Round, S, stop, step, out, mu
<1>7. \E g : g = Round(g)
    BY <1>2, <1>3, LoopIsDefined
<1>8. f = Round(f)
    BY <1>7
<1>. HIDE DEF f
<1>9. Loop(S, stop, step, out, f)
    BY <1>3, <1>8
<1>10. \E y \in S : y \in stop /\ h = out[y]
    BY <1>1, <1>2, <1>5, <1>9, LoopEnds
<1>11. h[1] \in Nat /\ h[2] \in Nat
    BY <1>6, <1>10
<1>12. \A a \in Nat : Max({1, a}) \in Nat \ {0}
    <2>1. SUFFICES ASSUME NEW a \in Nat PROVE Max({1, a}) \in Nat \ {0}
        OBVIOUS
    <2>2. \E x \in {1, a} : \A y \in {1, a} : x >= y
        OBVIOUS
    <2>3. Max({1, a}) \in {1, a} /\ \A y \in {1, a} : Max({1, a}) >= y
        BY <2>2 DEF Max
    <2>. QED BY <2>3
<1>. QED BY <1>4, <1>11, <1>12

\* Where the loops of AVX-512 go from s: by their own definition.
Turn(s, ratio, step) ==
    LET next == IF s[3] < ratio THEN s[3] + 1 ELSE 0
    IN  IF (s[1] > s[2]) = (s[3] < ratio) THEN <<s[1] + step, s[2], next>>
        ELSE <<s[1], s[2] + step, next>>

Pairs == Nat \X Nat \X Nat

\* A loop of turns that ends does so with a product that is wanted.
LEMMA TurnsEnd ==
    ASSUME NEW ratio \in Nat, NEW step \in Int, NEW goal, NEW mu \in [Pairs -> Nat],
           \A s \in Pairs : s[1] * s[2] \notin goal =>
               Turn(s, ratio, step) \in Pairs /\ mu[Turn(s, ratio, step)] < mu[s]
    PROVE  \A p \in Nat \X Nat : \E a, b \in Nat :
              a * b \in goal /\ Turns(p, ratio, step, goal) = <<a, b>>
<1>. DEFINE stop == { s \in Pairs : s[1] * s[2] \in goal }
            to == [s \in Pairs |-> Turn(s, ratio, step)]
            out == [s \in Pairs |-> <<s[1], s[2]>>]
            V(f, s) ==
                LET next == IF s[3] < ratio THEN s[3] + 1 ELSE 0
                IN  IF s[1] * s[2] \in goal THEN <<s[1], s[2]>>
                    ELSE f[IF (s[1] > s[2]) = (s[3] < ratio)
                           THEN <<s[1] + step, s[2], next>>
                           ELSE <<s[1], s[2] + step, next>>]
            Round(f) == [s \in Pairs |-> V(f, s)]
            f == CHOOSE f : f = Round(f)
<1>1. Descends(Pairs, stop, to, mu)
    BY DEF Descends
<1>2. \A g : g = Round(g) <=> Loop(Pairs, stop, to, out, g)
    <2>1. \A g : Round(g) = [x \in Pairs |-> IF x \in stop THEN out[x] ELSE g[to[x]]]
        <3>1. ASSUME NEW g, NEW s \in Pairs
              PROVE  V(g, s) = IF s \in stop THEN out[s] ELSE g[to[s]]
            <4>1. to[s] = Turn(s, ratio, step)
                OBVIOUS
            <4>2. V(g, s) = IF s[1] * s[2] \in goal THEN <<s[1], s[2]>>
                            ELSE g[Turn(s, ratio, step)]
                BY DEF Turn
            <4>. HIDE DEF to, V
            <4>. QED BY <4>1, <4>2
        <3>. HIDE DEF V, stop, out, to
        <3>. QED BY <3>1
    <2>. HIDE DEF Round, V, stop, to, out
    <2>. QED BY <2>1 DEF Loop
<1>3. \A p : Turns(p, ratio, step, goal) = f[<<p[1], p[2], 0>>]
    BY DEF Turns, Pairs
<1>4. \A s \in Pairs : s \in stop =>
         s[1] \in Nat /\ s[2] \in Nat /\ s[1] * s[2] \in goal /\ out[s] = <<s[1], s[2]>>
    BY DEF Pairs
<1>5. Pairs \subseteq Pairs /\ \A p \in Nat \X Nat : <<p[1], p[2], 0>> \in Pairs
    BY DEF Pairs
<1>6. \A s \in Pairs : s \notin stop => to[s] \in Pairs
    OBVIOUS
<1>. HIDE DEF Round, V, stop, to, out
<1>7. \E g : g = Round(g)
    BY <1>1, <1>2, LoopIsDefined
<1>8. f = Round(f)
    BY <1>7
<1>. HIDE DEF f
<1>9. Loop(Pairs, stop, to, out, f)
    BY <1>2, <1>8
<1>10. \A s \in Pairs : \E y \in Pairs : y \in stop /\ f[s] = out[y]
    BY <1>1, <1>5, <1>6, <1>9, LoopEnds
<1>11. ASSUME NEW p \in Nat \X Nat
       PROVE  \E a, b \in Nat : a * b \in goal /\ Turns(p, ratio, step, goal) = <<a, b>>
    <2>1. PICK s \in Pairs : s = <<p[1], p[2], 0>>
        BY <1>5
    <2>2. PICK y \in Pairs : y \in stop /\ f[s] = out[y]
        BY <1>10
    <2>3. Turns(p, ratio, step, goal) = f[s]
        BY <1>3, <2>1, Zenon
    <2>. QED BY <1>4, <2>2, <2>3
<1>. QED BY <1>11

\* Turn t of s, whose parts are a, b and c, in cases.
InTurn(s, t, ratio, step, a, b, c, d) ==
    /\ s[1] = a /\ s[2] = b /\ s[3] = c
    /\ d = (IF c < ratio THEN c + 1 ELSE 0)
    /\ t = IF (a > b /\ c < ratio) \/ (~(a > b) /\ ~(c < ratio))
           THEN <<a + step, b, d>> ELSE <<a, b + step, d>>

\* A turn adds step to one of two numbers and goes on counting.
LEMMA TurnMoves ==
    ASSUME NEW s \in Pairs, NEW ratio \in Nat, NEW step
    PROVE  \E a, b, c, d \in Nat : InTurn(s, Turn(s, ratio, step), ratio, step, a, b, c, d)
<1>1. PICK a \in Nat : a = s[1]
    BY DEF Pairs
<1>2. PICK b \in Nat : b = s[2]
    BY DEF Pairs
<1>3. PICK c \in Nat : c = s[3]
    BY DEF Pairs
<1>5. PICK d \in Nat : d = (IF c < ratio THEN c + 1 ELSE 0)
    OBVIOUS
<1>6. Turn(s, ratio, step) =
          IF (a > b) = (c < ratio) THEN <<a + step, b, d>> ELSE <<a, b + step, d>>
    BY <1>1, <1>2, <1>3, <1>5, Zenon DEF Turn
<1>7. ((a > b) = (c < ratio)) <=> ((a > b /\ c < ratio) \/ (~(a > b) /\ ~(c < ratio)))
    OBVIOUS
<1>8. Turn(s, ratio, step) =
          IF (a > b /\ c < ratio) \/ (~(a > b) /\ ~(c < ratio))
          THEN <<a + step, b, d>> ELSE <<a, b + step, d>>
    BY <1>6, <1>7
<1>. QED BY <1>1, <1>2, <1>3, <1>5, <1>8 DEF InTurn

\* while (nthr_m * nthr_n > nthr), on AVX-512: each turn takes a thread away.
LEMMA TurnsDown ==
    ASSUME NEW ratio \in Nat, NEW nthr \in Nat, NEW p \in Nat \X Nat
    PROVE  \E a, b \in Nat : Turns(p, ratio, -1, 0 .. nthr) = <<a, b>>
<1>. DEFINE mu == [s \in Pairs |-> s[1] + s[2]]
<1>0. PICK st \in {-1, 1} : st = -1
    OBVIOUS
<1>1. mu \in [Pairs -> Nat]
    BY DEF Pairs
<1>2. ASSUME NEW s \in Pairs, s[1] * s[2] \notin 0 .. nthr
      PROVE  Turn(s, ratio, st) \in Pairs /\ mu[Turn(s, ratio, st)] < mu[s]
    <2>1. PICK a, b, c, d \in Nat : InTurn(s, Turn(s, ratio, st), ratio, st, a, b, c, d)
        BY TurnMoves
    <2>2. /\ s[1] = a /\ s[2] = b
          /\ Turn(s, ratio, st) \in {<<a + st, b, d>>, <<a, b + st, d>>}
        BY <2>1 DEF InTurn
    <2>3. a # 0 /\ b # 0
        BY <1>2, <2>2
    <2>4. Turn(s, ratio, st) \in {<<a - 1, b, d>>, <<a, b - 1, d>>}
        BY <1>0, <2>2
    <2>5. <<a - 1, b, d>> \in Pairs /\ <<a, b - 1, d>> \in Pairs
        BY <2>3 DEF Pairs
    <2>6. mu[<<a - 1, b, d>>] = a + b - 1 /\ mu[<<a, b - 1, d>>] = a + b - 1
        BY <2>5
    <2>7. mu[s] = a + b
        BY <2>2
    <2>. HIDE DEF mu
    <2>. QED BY <2>4, <2>5, <2>6, <2>7
<1>. HIDE DEF mu
<1>3. \E a, b \in Nat : a * b \in 0 .. nthr /\ Turns(p, ratio, st, 0 .. nthr) = <<a, b>>
    BY <1>0, <1>1, <1>2, TurnsEnd
<1>. QED BY <1>0, <1>3

\* while (nthr_m * nthr_n < 0.95 * nthr): each turn adds a thread, every other
\* round at least to the smaller number.
LEMMA TurnsUp ==
    ASSUME NEW ratio \in Nat, NEW nthr \in Nat \ {0}, NEW p \in Nat \X Nat
    PROVE  \E a, b \in Nat \ {0} :
              Turns(p, ratio, 1, {x \in Nat : 100 * x >= 95 * nthr}) = <<a, b>>
<1>. DEFINE goal == {x \in Nat : 100 * x >= 95 * nthr}
            Level(a, b) == 2 * Lesser(a, b) + (IF a = b THEN 0 ELSE 1)
            K == ratio + 2
            Left(a, b, c) == IF Level(a, b) >= 2 * nthr THEN 0
                             ELSE (2 * nthr - Level(a, b)) * K - Lesser(c, ratio + 1)
            mu == [s \in Pairs |-> Left(s[1], s[2], s[3])]
<1>1. \A a, b \in Nat : Level(a, b) \in Nat
    BY DEF Lesser
<1>2. ASSUME NEW a \in Nat, NEW b \in Nat, a * b \notin goal
      PROVE  Level(a, b) < 2 * nthr
    <2>1. a * b \in Nat /\ a * b < nthr
        BY <1>2
    <2>2. a < nthr \/ b < nthr
        <3>1. ASSUME a >= nthr, b >= nthr PROVE FALSE
            <4>1. (a - nthr) \in Nat /\ (a - nthr) * b \in Nat
                  /\ (a - nthr) * b = a * b - nthr * b
                BY <3>1
            <4>2. (b - nthr) \in Nat /\ nthr * (b - nthr) \in Nat
                  /\ nthr * (b - nthr) = nthr * b - nthr * nthr
                BY <3>1
            <4>3. (nthr - 1) * nthr \in Nat /\ (nthr - 1) * nthr = nthr * nthr - nthr
                OBVIOUS
            <4>4. nthr * b \in Nat /\ nthr * nthr \in Nat
                OBVIOUS
            <4>. QED BY <2>1, <4>1, <4>2, <4>3, <4>4
        <3>. QED BY <3>1
    <2>. QED BY <2>2 DEF Lesser
<1>3. ASSUME NEW a \in Nat, NEW b \in Nat, NEW c \in Nat
      PROVE  /\ Left(a, b, c) \in Nat
             /\ Level(a, b) < 2 * nthr => Left(a, b, c) >= 1
    <2>1. PICK l \in Nat : l = Level(a, b)
        BY <1>1
    <2>2. CASE l < 2 * nthr
        <3>1. (2 * nthr - l - 1) * K \in Nat /\ (2 * nthr - l - 1) * K = (2 * nthr - l) * K - K
            BY <2>2
        <3>2. Lesser(c, ratio + 1) \in 0 .. ratio + 1
            BY DEF Lesser
        <3>3. PICK w \in Int : w = (2 * nthr - l) * K
            OBVIOUS
        <3>4. Left(a, b, c) = w - Lesser(c, ratio + 1)
            BY <2>1, <2>2, <3>3
        <3>. HIDE DEF Left, Level
        <3>. QED BY <3>1, <3>2, <3>3, <3>4
    <2>3. CASE ~(l < 2 * nthr)
        BY <2>1, <2>3
    <2>. QED BY <2>2, <2>3
<1>4. ASSUME NEW a \in Nat, NEW b \in Nat, NEW c \in Nat, NEW x \in Nat, NEW y \in Nat,
             NEW d \in Nat, Level(a, b) < 2 * nthr,
             \/ Level(x, y) > Level(a, b) /\ d <= c + 1
             \/ Level(x, y) > Level(a, b) /\ d = 0
             \/ Level(x, y) = Level(a, b) /\ c < ratio /\ d = c + 1
      PROVE  Left(x, y, d) < Left(a, b, c)
    <2>1. PICK l \in Nat : l = Level(a, b) /\ l < 2 * nthr
        BY <1>1, <1>4
    <2>2. PICK k \in Nat : k = Level(x, y)
        BY <1>1
    <2>3. Left(a, b, c) >= 1 /\ Left(a, b, c) \in Nat
        BY <1>3, <1>4
    <2>4. CASE k >= 2 * nthr
        BY <2>2, <2>3, <2>4
    <2>5. CASE k < 2 * nthr /\ k = l
        <3>1. Left(a, b, c) = (2 * nthr - l) * K - c
            BY <1>4, <2>1, <2>2, <2>5 DEF Lesser
        <3>2. Left(x, y, d) = (2 * nthr - l) * K - (c + 1)
            BY <1>4, <2>1, <2>2, <2>5 DEF Lesser
        <3>. QED BY <3>1, <3>2
    <2>6. CASE k < 2 * nthr /\ k > l
        <3>1. PICK v \in Int : v = (2 * nthr - l) * K
            OBVIOUS
        <3>2. PICK w \in Int : w = (2 * nthr - k) * K
            OBVIOUS
        <3>3. w <= v - K
            <4>1. (k - l - 1) \in Nat /\ (k - l - 1) * K \in Nat
                BY <2>6
            <4>2. (k - l - 1) * K = (2 * nthr - l) * K - (2 * nthr - k) * K - K
                OBVIOUS
            <4>. QED BY <3>1, <3>2, <4>1, <4>2
        <3>4. Left(a, b, c) = v - Lesser(c, ratio + 1) /\ Left(x, y, d) = w - Lesser(d, ratio + 1)
            BY <2>1, <2>2, <2>6, <3>1, <3>2
        <3>5. Lesser(c, ratio + 1) \in 0 .. ratio + 1 /\ Lesser(d, ratio + 1) \in 0 .. ratio + 1
            BY DEF Lesser
        <3>. HIDE DEF Left, Level
        <3>. QED BY <3>3, <3>4, <3>5
    <2>. QED BY <1>4, <2>1, <2>2, <2>4, <2>5, <2>6
<1>5. mu \in [Pairs -> Nat]
    BY <1>3 DEF Pairs
<1>6. ASSUME NEW s \in Pairs, s[1] * s[2] \notin goal
      PROVE  Turn(s, ratio, 1) \in Pairs /\ mu[Turn(s, ratio, 1)] < mu[s]
    <2>1. PICK a, b, c, d \in Nat : InTurn(s, Turn(s, ratio, 1), ratio, 1, a, b, c, d)
        BY TurnMoves
    <2>2. /\ s[1] = a /\ s[2] = b /\ s[3] = c
          /\ d = (IF c < ratio THEN c + 1 ELSE 0)
          /\ Turn(s, ratio, 1) = IF (a > b /\ c < ratio) \/ (~(a > b) /\ ~(c < ratio))
                                 THEN <<a + 1, b, d>> ELSE <<a, b + 1, d>>
        BY <2>1 DEF InTurn
    <2>3. Level(a, b) < 2 * nthr
        BY <1>2, <1>6, <2>2
    <2>4. CASE (a > b /\ c < ratio) \/ (~(a > b) /\ ~(c < ratio))
        <3>1. \/ Level(a + 1, b) > Level(a, b) /\ d = 0
              \/ Level(a + 1, b) = Level(a, b) /\ c < ratio /\ d = c + 1
            BY <2>2, <2>4 DEF Lesser
        <3>. HIDE DEF Level, Left
        <3>2. Left(a + 1, b, d) < Left(a, b, c)
            <4>1. PICK v \in Nat : v = a + 1
                OBVIOUS
            <4>2. Left(v, b, d) < Left(a, b, c)
                BY <1>4, <2>3, <3>1, <4>1
            <4>. QED BY <4>1, <4>2
        <3>3. Turn(s, ratio, 1) = <<a + 1, b, d>> /\ <<a + 1, b, d>> \in Pairs
            BY <2>2, <2>4 DEF Pairs
        <3>. QED BY <2>2, <3>2, <3>3
    <2>5. CASE ~((a > b /\ c < ratio) \/ (~(a > b) /\ ~(c < ratio)))
        <3>1. \/ Level(a, b + 1) > Level(a, b) /\ d <= c + 1
              \/ Level(a, b + 1) > Level(a, b) /\ d = 0
              \/ Level(a, b + 1) = Level(a, b) /\ c < ratio /\ d = c + 1
            BY <2>2, <2>5 DEF Lesser
        <3>. HIDE DEF Level, Left
        <3>2. Left(a, b + 1, d) < Left(a, b, c)
            <4>1. PICK v \in Nat : v = b + 1
                OBVIOUS
            <4>2. Left(a, v, d) < Left(a, b, c)
                BY <1>4, <2>3, <3>1, <4>1
            <4>. QED BY <4>1, <4>2
        <3>3. Turn(s, ratio, 1) = <<a, b + 1, d>> /\ <<a, b + 1, d>> \in Pairs
            BY <2>2, <2>5 DEF Pairs
        <3>. QED BY <2>2, <3>2, <3>3
    <2>. QED BY <2>4, <2>5
<1>. HIDE DEF mu
<1>7. PICK a, b \in Nat : a * b \in goal /\ Turns(p, ratio, 1, goal) = <<a, b>>
    <2>. HIDE DEF goal
    <2>. QED BY <1>5, <1>6, TurnsEnd
<1>8. a # 0 /\ b # 0
    BY <1>7
<1>. QED BY <1>7, <1>8

LEMMA LargestExists ==
    ASSUME NEW b \in Nat, NEW T, T \subseteq 0 .. b, T # {}
    PROVE  Max(T) \in T /\ \A z \in T : Max(T) >= z
<1>. DEFINE Below == { y \in Nat : \E x \in T : y = b - x }
<1>1. Below \subseteq Nat /\ Below # {}
    <2>1. PICK x \in T : x \in 0 .. b
        OBVIOUS
    <2>2. b - x \in Below
        BY <2>1
    <2>. QED BY <2>2
<1>2. PICK y \in Below : \A z \in Below : y <= z
    BY <1>1, SmallestExists
<1>3. PICK x \in T : y = b - x
    BY <1>2
<1>4. ASSUME NEW z \in T PROVE x >= z
    <2>1. x \in 0 .. b /\ z \in 0 .. b
        OBVIOUS
    <2>2. b - z \in Below
        BY <2>1
    <2>3. b - x <= b - z
        BY <1>2, <1>3, <2>2
    <2>. QED BY <2>1, <2>3
<1>. QED BY <1>4 DEF Max

\* The number of threads along one dimension that divides the team.
LEMMA DivisorDivides ==
    ASSUME NEW nthr \in Nat \ {0}, NEW blocks \in Nat
    PROVE  LET d == Divisor(nthr, blocks)
           IN  /\ d \in Nat \ {0} /\ nthr \div d \in Nat \ {0}
               /\ d * (nthr \div d) = nthr /\ (nthr \div d) * d = nthr
<1>. DEFINE T == {1} \cup { a \in 1 .. blocks : a * a <= nthr /\ nthr % a = 0 }
            d == Divisor(nthr, blocks)
<1>1. d = Max(T)
    BY DEF Divisor
<1>2. T \subseteq 0 .. blocks + 1 /\ T # {} /\ blocks + 1 \in Nat
    OBVIOUS
<1>3. \A x \in T : x \in Nat \ {0} /\ (x = 1 \/ nthr % x = 0)
    OBVIOUS
<1>. HIDE DEF d, T
<1>4. d \in T
    BY <1>1, <1>2, LargestExists
<1>5. PICK e \in Nat \ {0} : e = d /\ (e = 1 \/ nthr % e = 0)
    BY <1>3, <1>4
<1>6. nthr % e = 0
    BY <1>5
<1>7. PICK q \in Nat : q = nthr \div e /\ nthr = e * q + (nthr % e)
    BY Quotients
<1>8. nthr = e * q /\ q # 0
    BY <1>6, <1>7
<1>9. q * e = e * q
    BY <1>7
<1>. QED BY <1>5, <1>7, <1>8, <1>9 DEF d

\* Numbers of threads along two dimensions, for a team of nthr.
Teamed(nthr) == { p \in (Nat \ {0}) \X (Nat \ {0}) : p[1] * p[2] <= nthr }

\* The last resort uses the whole team and no more, whatever the loops did.
LEMMA ExactFits ==
    ASSUME NEW m \in Nat \ {0}, NEW n \in Nat \ {0}, NEW nthr \in Nat \ {0},
           NEW p \in (Nat \ {0}) \X (Nat \ {0})
    PROVE  Exact(p, m, n, nthr) \in Teamed(nthr)
<1>1. CASE p[1] * p[2] <= nthr
    BY <1>1 DEF Exact, Teamed
<1>2. CASE ~(p[1] * p[2] <= nthr)
    <2>1. p[1] * p[2] > nthr
        <3>1. p[1] * p[2] \in Nat
            OBVIOUS
        <3>. QED BY <1>2, <3>1
    <2>2. PICK x \in Nat : x = DivUp(m, BMSmall)
        BY DivUpBounds DEF BMSmall
    <2>3. PICK y \in Nat : y = DivUp(n, BNSmall)
        BY DivUpBounds DEF BNSmall
    <2>4. PICK d \in Nat \ {0} : /\ d = Divisor(nthr, x) /\ nthr \div d \in Nat \ {0}
                                 /\ d * (nthr \div d) = nthr
        BY DivisorDivides
    <2>5. PICK e \in Nat \ {0} : /\ e = Divisor(nthr, y) /\ nthr \div e \in Nat \ {0}
                                 /\ (nthr \div e) * e = nthr
        BY DivisorDivides
    <2>6. Exact(p, m, n, nthr) \in {<<d, nthr \div d>>, <<nthr \div e, e>>}
        BY <2>1, <2>2, <2>3, <2>4, <2>5 DEF Exact, Factors
    <2>7. <<d, nthr \div d>> \in Teamed(nthr)
        BY <2>4 DEF Teamed
    <2>8. <<nthr \div e, e>> \in Teamed(nthr)
        BY <2>5 DEF Teamed
    <2>. QED BY <2>6, <2>7, <2>8
<1>. QED BY <1>1, <1>2

\* calc_nthr_nocopy_avx: the threads along m and n fit the team.
LEMMA ThreadsMNFit ==
    ASSUME NEW m \in Nat \ {0}, NEW n \in Nat \ {0}, NEW nthr \in Nat \ {0}
    PROVE  ThreadsMN(m, n, nthr) \in Teamed(nthr)
<1>1. ASSUME NEW x \in Nat \ {0}, NEW b \in Nat \ {0} PROVE DivUp(x, b) \in Nat \ {0}
    <2>1. DivUp(x, b) \in Nat /\ x <= DivUp(x, b) * b
        BY DivUpBounds
    <2>. QED BY <2>1
<1>2. PICK m0 \in Nat \ {0} : m0 = DivUp(m, BM)
    BY <1>1 DEF BM
<1>3. PICK n0 \in Nat \ {0} : n0 = DivUp(n, BN)
    BY <1>1 DEF BN
<1>4. PICK n1 \in Nat \ {0} : n1 = IF m0 = 1 THEN nthr ELSE n0
    OBVIOUS
<1>5. PICK m1 \in Nat \ {0} : m1 = IF n1 = 1 THEN nthr ELSE m0
    OBVIOUS
<1>6. PICK p \in (Nat \ {0}) \X (Nat \ {0}) :
         p[1] * p[2] <= nthr /\ Shrink(m1, n1, nthr) = p
    BY ShrinkFits
<1>7. PICK q \in (Nat \ {0}) \X (Nat \ {0}) :
         /\ q[1] * q[2] <= nthr \/ (q[1] > 1 /\ q[2] > 1)
         /\ Grow(p[1], p[2], nthr) = q
    <2>1. PICK a \in Nat \ {0} : a = p[1]
        OBVIOUS
    <2>2. PICK b \in Nat \ {0} : b = p[2]
        OBVIOUS
    <2>3. a * b <= nthr
        BY <1>6, <2>1, <2>2
    <2>. QED BY <2>1, <2>2, <2>3, GrowFills
<1>8. ThreadsMN(m, n, nthr) = IF q[1] > 1 /\ q[2] > 1 THEN Exact(q, m, n, nthr) ELSE q
    BY <1>2, <1>3, <1>4, <1>5, <1>6, <1>7 DEF ThreadsMN
<1>9. CASE q[1] > 1 /\ q[2] > 1
    BY <1>8, <1>9, ExactFits
<1>10. CASE ~(q[1] > 1 /\ q[2] > 1)
    BY <1>7, <1>8, <1>10 DEF Teamed
<1>. QED BY <1>9, <1>10

\* calc_nthr_nocopy_avx512_common: the same.
LEMMA ThreadsMN512Fit ==
    ASSUME NEW m \in Nat \ {0}, NEW n \in Nat \ {0}, NEW nthr \in Nat \ {0}
    PROVE  ThreadsMN512(m, n, nthr) \in Teamed(nthr)
<1>1. ASSUME NEW x \in Nat \ {0}, NEW b \in Nat \ {0} PROVE DivUp(x, b) \in Nat \ {0}
    <2>1. DivUp(x, b) \in Nat /\ x <= DivUp(x, b) * b
        BY DivUpBounds
    <2>. QED BY <2>1
<1>2. PICK m0 \in Nat \ {0} : m0 = DivUp(m, 32)
    BY <1>1
<1>3. PICK n0 \in Nat \ {0} : n0 = DivUp(n, 64)
    BY <1>1
<1>4. PICK r \in Nat : r = Ratio(m0, n0)
    <2>1. m0 \div n0 \in Nat
        BY Quotients
    <2>2. n0 \div m0 \in Nat /\ (m0 <= n0 => n0 \div m0 >= 1)
        BY Quotients
    <2>3. Ratio(m0, n0) \in {m0 \div n0, n0 \div m0}
          \/ (m0 <= n0 /\ Ratio(m0, n0) = (n0 \div m0) - 1)
        BY DEF Ratio
    <2>. QED BY <2>1, <2>2, <2>3
<1>5. PICK h \in Nat \X Nat : h = Halve(m0, n0, nthr)
    BY HalveIsPair
<1>6. PICK l \in Nat \X Nat : l = Turns(h, r, -1, 0 .. nthr)
    <2>1. PICK a, b \in Nat : Turns(h, r, -1, 0 .. nthr) = <<a, b>>
        BY TurnsDown
    <2>. QED BY <2>1
<1>7. PICK q \in (Nat \ {0}) \X (Nat \ {0}) :
         q = Turns(l, r, 1, {x \in Nat : 100 * x >= 95 * nthr})
    BY TurnsUp
<1>8. ThreadsMN512(m, n, nthr) = Exact(q, m, n, nthr)
    BY <1>2, <1>3, <1>4, <1>5, <1>6, <1>7, Zenon DEF ThreadsMN512
<1>. QED BY <1>8, ExactFits

\* nthr blocks cover 0 .. size - 1 and the last of them is not empty.
CutIn(nthr, block, size) ==
    /\ nthr \in Nat \ {0} /\ block \in Nat \ {0}
    /\ (nthr - 1) * block < size /\ size <= nthr * block

\* Rounding the blocks up and dropping the threads without work leaves a block
\* for each thread, and no more threads than before.
LEMMA DropIdleCuts ==
    ASSUME NEW size \in Nat \ {0}, NEW nthr \in Nat \ {0}, NEW small \in Nat \ {0}
    PROVE  LET block == RndUp(DivUp(size, nthr), small)
               n == DropIdle(nthr, size, block)
           IN  CutIn(n, block, size) /\ n <= nthr
<1>1. PICK u \in Nat : u = DivUp(size, nthr) /\ size <= u * nthr
    BY DivUpBounds
<1>2. PICK v \in Nat : v = DivUp(u, small) /\ u <= v * small
    BY DivUpBounds
<1>3. PICK b \in Nat : b = v * small /\ b = RndUp(u, small)
    BY <1>2 DEF RndUp
<1>4. size <= b * nthr /\ b # 0
    <2>1. u <= b
        BY <1>2, <1>3
    <2>2. (b - u) \in Nat /\ (b - u) * nthr \in Nat /\ (b - u) * nthr = b * nthr - u * nthr
        BY <2>1
    <2>3. b * nthr \in Nat /\ u * nthr \in Nat
        OBVIOUS
    <2>4. u # 0
        BY <1>1
    <2>. QED BY <1>1, <2>1, <2>2, <2>3, <2>4
<1>5. PICK d \in Nat : d = DivUp(size, b) /\ size <= d * b /\ d * b <= size + b - 1
    BY <1>4, DivUpBounds
<1>6. DropIdle(nthr, size, b) = IF b * nthr > size THEN d ELSE nthr
    BY <1>5 DEF DropIdle
<1>7. CutIn(d, b, size) /\ d <= nthr
    <2>1. d # 0
        BY <1>5
    <2>2. (d - 1) * b = d * b - b /\ d * b \in Nat /\ (d - 1) * b \in Nat
        BY <2>1
    <2>3. (d - 1) * b < size
        BY <1>5, <2>2
    <2>4. d <= nthr
        <3>1. ASSUME d - 1 >= nthr PROVE FALSE
            <4>1. (d - 1 - nthr) \in Nat /\ (d - 1 - nthr) * b \in Nat
                  /\ (d - 1 - nthr) * b = (d - 1) * b - nthr * b
                BY <3>1
            <4>2. nthr * b = b * nthr /\ nthr * b \in Nat
                OBVIOUS
            <4>. QED BY <1>4, <2>2, <2>3, <4>1, <4>2
        <3>. QED BY <3>1
    <2>. QED BY <1>4, <1>5, <2>1, <2>3, <2>4 DEF CutIn
<1>8. b * nthr = size => CutIn(nthr, b, size)
    <2>1. (nthr - 1) * b = b * nthr - b /\ nthr * b = b * nthr
        OBVIOUS
    <2>. QED BY <1>4, <2>1 DEF CutIn
<1>9. b * nthr \in Nat
    OBVIOUS
<1>. QED BY <1>1, <1>3, <1>4, <1>6, <1>7, <1>8, <1>9

\* Products are monotone in each factor.
LEMMA ProductsGrow ==
    ASSUME NEW a \in Nat, NEW b \in Nat, NEW c \in Nat, NEW d \in Nat, a <= c, b <= d
    PROVE  a * b <= c * d
<1>1. (c - a) \in Nat /\ (c - a) * b \in Nat /\ (c - a) * b = c * b - a * b
    OBVIOUS
<1>2. (d - b) \in Nat /\ c * (d - b) \in Nat /\ c * (d - b) = c * d - c * b
    OBVIOUS
<1>3. a * b \in Nat /\ c * b \in Nat /\ c * d \in Nat
    OBVIOUS
<1>. QED BY <1>1, <1>2, <1>3

\* The blocks of a problem whose threads along m, n and k fit the team.
LEMMA BlockedFits ==
    ASSUME NEW m \in Nat \ {0}, NEW n \in Nat \ {0}, NEW k \in Nat \ {0},
           NEW nthrs \in Nat \ {0}, NEW nk \in 1 .. nthrs,
           NEW mn \in Teamed(nthrs \div nk)
    PROVE  LET b == Blocked(mn, nk, m, n, k)
           IN  /\ CutIn(b.nthr_m, b.MB, m) /\ CutIn(b.nthr_n, b.NB, n)
               /\ CutIn(b.nthr_k, b.KB, k)
               /\ b.nthr_m * b.nthr_n * b.nthr_k <= nthrs
<1>. DEFINE MB == RndUp(DivUp(m, mn[1]), BMSmall)
            NB == RndUp(DivUp(n, mn[2]), BNSmall)
            KB == RndUp(DivUp(k, nk), BKSmall)
            b == Blocked(mn, nk, m, n, k)
<1>1. PICK x \in Nat \ {0} : x = mn[1]
    BY DEF Teamed
<1>2. PICK y \in Nat \ {0} : y = mn[2]
    BY DEF Teamed
<1>3. x * y <= nthrs \div nk
    BY <1>1, <1>2 DEF Teamed
<1>4. CutIn(DropIdle(x, m, MB), MB, m) /\ DropIdle(x, m, MB) <= x
    <2>1. BMSmall \in Nat \ {0}
        BY DEF BMSmall
    <2>. QED BY <1>1, <2>1, DropIdleCuts
<1>5. CutIn(DropIdle(y, n, NB), NB, n) /\ DropIdle(y, n, NB) <= y
    <2>1. BNSmall \in Nat \ {0}
        BY DEF BNSmall
    <2>. QED BY <1>2, <2>1, DropIdleCuts
<1>6. CutIn(DropIdle(nk, k, KB), KB, k) /\ DropIdle(nk, k, KB) <= nk
    <2>1. BKSmall \in Nat \ {0} /\ nk \in Nat \ {0}
        BY DEF BKSmall
    <2>. QED BY <2>1, DropIdleCuts
<1>7. /\ b.nthr_m = DropIdle(x, m, MB) /\ b.MB = MB
      /\ b.nthr_n = DropIdle(y, n, NB) /\ b.NB = NB
      /\ b.nthr_k = DropIdle(nk, k, KB) /\ b.KB = KB
    BY <1>1, <1>2 DEF Blocked
<1>. HIDE DEF MB, NB, KB, b
<1>8. PICK p \in Nat \ {0} : p = b.nthr_m /\ p <= x
    BY <1>4, <1>7 DEF CutIn
<1>9. PICK q \in Nat \ {0} : q = b.nthr_n /\ q <= y
    BY <1>5, <1>7 DEF CutIn
<1>10. PICK r \in Nat \ {0} : r = b.nthr_k /\ r <= nk
    BY <1>6, <1>7 DEF CutIn
<1>11. p * q * r <= nthrs
    <2>1. PICK t \in Nat : t = nthrs \div nk /\ t * nk <= nthrs
        <3>1. nk \in Nat \ {0}
            OBVIOUS
        <3>. QED BY <3>1, Quotients
    <2>2. p * q <= x * y /\ p * q \in Nat /\ x * y \in Nat
        BY <1>8, <1>9, ProductsGrow
    <2>3. PICK z \in Nat : z = p * q /\ z <= t
        BY <1>3, <2>1, <2>2
    <2>4. z * r <= t * nk /\ z * r \in Nat /\ t * nk \in Nat
        BY <1>10, <2>3, ProductsGrow
    <2>. QED BY <2>1, <2>3, <2>4
<1>. QED BY <1>4, <1>5, <1>6, <1>7, <1>8, <1>9, <1>10, <1>11 DEF b

(***************************************************************************)
(* calc_nthr_nocopy uses no more threads than there are, and gives each of *)
(* them a block of C and a part of the sum: for every problem and team, on *)
(* both instruction sets.                                                  *)
(***************************************************************************)
THEOREM BlocksHaveWork ==
    ASSUME NEW m \in Nat \ {0}, NEW n \in Nat \ {0}, NEW k \in Nat \ {0},
           NEW nthrs \in Nat \ {0}, NEW avx512
    PROVE  LET b == calc_nthr_nocopy(avx512, m, n, k, nthrs)
           IN  /\ CutIn(b.nthr_m, b.MB, m) /\ CutIn(b.nthr_n, b.NB, n)
               /\ CutIn(b.nthr_k, b.KB, k)
               /\ b.nthr_m * b.nthr_n * b.nthr_k <= nthrs
<1>1. ASSUME NEW nk \in 1 .. nthrs PROVE nthrs \div nk \in Nat \ {0}
    <2>1. nk \in Nat \ {0} /\ nk <= nthrs
        OBVIOUS
    <2>2. nthrs \div nk \in Nat /\ nthrs \div nk >= 1
        BY <2>1, Quotients
    <2>. QED BY <2>2
<1>2. PICK x \in 1 .. nthrs : x = ThreadsK(DivUp(m, BM) * DivUp(n, BN), k, nthrs)
    <2>. DEFINE mn == DivUp(m, BM) * DivUp(n, BN)
                T == {1} \cup { o \in 2 .. nthrs :
                                  /\ mn * (o - 1) < nthrs
                                  /\ k \div o > BK
                                  /\ 10 * ((nthrs \div o) * o) > 9 * nthrs }
    <2>1. T \subseteq 0 .. nthrs /\ T # {} /\ T \subseteq 1 .. nthrs
        OBVIOUS
    <2>2. ThreadsK(mn, k, nthrs) = Max(T)
        BY DEF ThreadsK
    <2>. HIDE DEF T, mn
    <2>3. Max(T) \in T
        BY <2>1, LargestExists
    <2>. QED BY <2>1, <2>2, <2>3 DEF mn
<1>3. PICK y \in 1 .. nthrs : y = ThreadsK512(m, n, k, nthrs)
    <2>. DEFINE l == Least(k \div 192, nthrs \div 4)
                T == {1} \cup { a \in 1 .. l : nthrs % a = 0 }
    <2>1. l \in Nat /\ l <= nthrs
        <3>1. k \div 192 \in Nat /\ nthrs \div 4 \in Nat /\ nthrs \div 4 <= nthrs
            BY Quotients
        <3>. QED BY <3>1 DEF Least
    <2>2. ThreadsK512(m, n, k, nthrs) \in {Max(T), 1}
        BY DEF ThreadsK512
    <2>. HIDE DEF l
    <2>3. T \subseteq 0 .. nthrs /\ T # {} /\ T \subseteq 1 .. nthrs
        BY <2>1
    <2>. HIDE DEF T
    <2>4. Max(T) \in 1 .. nthrs
        BY <2>3, LargestExists
    <2>5. 1 \in 1 .. nthrs
        OBVIOUS
    <2>. QED BY <2>2, <2>4, <2>5
<1>4. CASE avx512
    <2>1. PICK t \in Nat \ {0} : t = nthrs \div y
        BY <1>1
    <2>2. PICK mn \in Teamed(t) : mn = ThreadsMN512(m, n, t)
        BY ThreadsMN512Fit
    <2>3. calc_nthr_nocopy(avx512, m, n, k, nthrs) = Blocked(mn, y, m, n, k)
        BY <1>3, <1>4, <2>1, <2>2 DEF calc_nthr_nocopy, calc_nthr_nocopy_avx512_common
    <2>. QED BY <2>1, <2>3, BlockedFits
<1>5. CASE ~avx512
    <2>1. PICK t \in Nat \ {0} : t = nthrs \div x
        BY <1>1
    <2>2. PICK mn \in Teamed(t) : mn = ThreadsMN(m, n, t)
        BY ThreadsMNFit
    <2>3. calc_nthr_nocopy(avx512, m, n, k, nthrs) = Blocked(mn, x, m, n, k)
        BY <1>2, <1>5, <2>1, <2>2 DEF calc_nthr_nocopy, calc_nthr_nocopy_avx
    <2>. QED BY <2>1, <2>3, BlockedFits
<1>. QED BY <1>4, <1>5

\* The columns that thread t of T adds up.
BandOf(t, T, n) == LET u == partition_unit_diff(t, T, n) IN u.off .. u.off + u.len - 1

(***************************************************************************)
(* partition_unit_diff deals out every column once, also when there are    *)
(* fewer columns than threads.                                             *)
(***************************************************************************)
THEOREM BandsPartition ==
    ASSUME NEW n \in Nat, NEW T \in Nat \ {0}
    PROVE  /\ \A t \in 0 .. T - 1 : BandOf(t, T, n) \subseteq 0 .. n - 1
           /\ \A z \in 0 .. n - 1 : \E t \in 0 .. T - 1 : z \in BandOf(t, T, n)
           /\ \A t, u \in 0 .. T - 1 : t # u => BandOf(t, T, n) \cap BandOf(u, T, n) = {}
<1>. DEFINE d == n \div T
            band == IF d = 0 THEN 1 ELSE d
            tail == IF n - band * T < 0 THEN 0 ELSE n - band * T
            off(t) == IF t < tail THEN (band + 1) * t ELSE band * t + tail
            len(t) == IF t < tail THEN band + 1 ELSE band
<1>1. d \in Nat /\ (n % T) \in 0 .. T - 1 /\ n = T * d + (n % T)
    BY Quotients
<1>2. \A t : partition_unit_diff(t, T, n) =
                IF off(t) >= n THEN [off |-> 0, len |-> 0]
                ELSE [off |-> off(t), len |-> Least(len(t), n - off(t))]
    BY DEF partition_unit_diff
<1>3. CASE d = 0
    <2>1. n < T /\ band = 1 /\ tail = 0
        BY <1>1, <1>3
    <2>2. \A t \in 0 .. T - 1 : off(t) = t /\ len(t) = 1
        BY <2>1
    <2>. HIDE DEF off, len
    <2>3. ASSUME NEW t \in 0 .. T - 1
          PROVE  partition_unit_diff(t, T, n) =
                    IF t < n THEN [off |-> t, len |-> 1] ELSE [off |-> 0, len |-> 0]
        <3>1. t < n => Least(1, n - t) = 1
            BY DEF Least
        <3>. QED BY <1>2, <2>2, <3>1
    <2>4. ASSUME NEW t \in 0 .. T - 1
          PROVE  BandOf(t, T, n) = IF t < n THEN {t} ELSE {}
        <3>1. CASE t < n
            <4>1. BandOf(t, T, n) = t .. t + 1 - 1
                BY <2>3, <3>1 DEF BandOf
            <4>. QED BY <3>1, <4>1
        <3>2. CASE ~(t < n)
            <4>1. BandOf(t, T, n) = 0 .. 0 + 0 - 1
                BY <2>3, <3>2 DEF BandOf
            <4>. QED BY <3>2, <4>1
        <3>. QED BY <3>1, <3>2
    <2>5. \A z \in 0 .. n - 1 : z \in 0 .. T - 1 /\ z < n
        BY <2>1
    <2>. QED BY <2>4, <2>5
<1>4. CASE d # 0
    <2>1. PICK r \in 0 .. T - 1 : r = n % T
        BY <1>1
    <2>2. band = d /\ n = d * T + r /\ d * T \in Nat
        BY <1>1, <1>4, <2>1
    <2>3. tail = r
        BY <1>4, <2>1, <2>2
    <2>. HIDE DEF d, tail
    <2>4. /\ \A t : off(t) = IF t < r THEN (d + 1) * t ELSE d * t + r
          /\ \A t : len(t) = IF t < r THEN d + 1 ELSE d
        BY <2>2, <2>3
    <2>. HIDE DEF off, len, band
    <2>5. ASSUME NEW t \in 0 .. T - 1, NEW u \in t + 1 .. T
          PROVE  off(t) \in Nat /\ off(u) \in Nat /\ len(t) \in Nat \ {0}
                 /\ off(t) + len(t) <= off(u)
        <3>1. PICK w \in Nat : u = t + 1 + w
            <4>1. u - t - 1 \in Nat /\ u = t + 1 + (u - t - 1)
                OBVIOUS
            <4>. QED BY <4>1
        <3>2. d * w \in Nat /\ d * t \in Nat /\ d * u = d * t + d + d * w
            BY <1>1, <3>1
        <3>3. (d + 1) * t = d * t + t /\ (d + 1) * u = d * u + u
            BY <1>1
        <3>. QED BY <1>1, <1>4, <2>4, <3>1, <3>2, <3>3
    <2>6. off(T) = n
        <3>1. d * T + r = n /\ ~(T < r)
            BY <2>2
        <3>. QED BY <2>4, <3>1
    <2>7. ASSUME NEW t \in 0 .. T - 1
          PROVE  off(t) \in Nat /\ len(t) \in Nat \ {0} /\ off(t) + len(t) <= n
        BY <2>5, <2>6
    <2>8. ASSUME NEW t \in 0 .. T - 1
          PROVE  BandOf(t, T, n) = off(t) .. off(t) + len(t) - 1
        <3>1. ~(off(t) >= n) /\ Least(len(t), n - off(t)) = len(t)
            BY <2>7 DEF Least
        <3>2. partition_unit_diff(t, T, n) = [off |-> off(t), len |-> len(t)]
            BY <1>2, <3>1
        <3>. QED BY <3>2 DEF BandOf
    <2>9. ASSUME NEW z \in 0 .. n - 1
          PROVE  \E t \in 0 .. T - 1 : off(t) <= z /\ z < off(t) + len(t)
        <3>1. CASE z < (d + 1) * r
            <4>1. PICK q \in Nat, s \in 0 .. d : z = (d + 1) * q + s
                <5>1. z \in Nat /\ d + 1 \in Nat \ {0}
                    BY <1>1
                <5>2. z \div (d + 1) \in Nat /\ z % (d + 1) \in 0 .. (d + 1) - 1
                      /\ z = (d + 1) * (z \div (d + 1)) + (z % (d + 1))
                    BY <5>1, Quotients
                <5>3. PICK s \in 0 .. d : s = z % (d + 1)
                    BY <1>1, <5>2
                <5>. QED BY <5>2, <5>3
            <4>2. q < r
                <5>1. q < r <=> q * (d + 1) + s < r * (d + 1)
                    BY <1>1, RowOrder
                <5>2. q * (d + 1) = (d + 1) * q /\ r * (d + 1) = (d + 1) * r
                    BY <1>1
                <5>. QED BY <3>1, <4>1, <5>1, <5>2
            <4>3. off(q) = (d + 1) * q /\ len(q) = d + 1 /\ q \in 0 .. T - 1
                BY <2>4, <4>2
            <4>4. (d + 1) * q \in Nat
                BY <1>1
            <4>. QED BY <1>1, <4>1, <4>3, <4>4
        <3>2. CASE ~(z < (d + 1) * r)
            <4>1. (d + 1) * r = d * r + r /\ d * r \in Nat
                BY <1>1
            <4>2. z - r \in Nat /\ d * r <= z - r
                BY <3>2, <4>1
            <4>3. PICK q \in Nat, s \in 0 .. d - 1 : z - r = d * q + s
                <5>1. PICK x \in Nat : x = z - r
                    BY <4>2
                <5>2. x \div d \in Nat /\ x % d \in 0 .. d - 1 /\ x = d * (x \div d) + (x % d)
                    BY <1>1, <1>4, Quotients
                <5>. QED BY <5>1, <5>2
            <4>4. ~(q < r)
                <5>1. q < r <=> q * d + s < r * d
                    BY <1>1, <1>4, RowOrder
                <5>2. q * d = d * q /\ r * d = d * r
                    BY <1>1
                <5>. QED BY <1>1, <4>1, <4>2, <4>3, <5>1, <5>2
            <4>5. q < T
                <5>1. q < T <=> q * d + s < T * d
                    BY <1>1, <1>4, RowOrder
                <5>2. q * d = d * q /\ T * d = d * T
                    BY <1>1
                <5>3. z - r < d * T
                    BY <2>2
                <5>. QED BY <1>1, <2>2, <4>3, <5>1, <5>2, <5>3
            <4>6. off(q) = d * q + r /\ len(q) = d /\ q \in 0 .. T - 1
                BY <2>4, <4>4, <4>5
            <4>7. d * q \in Nat
                BY <1>1
            <4>. QED BY <1>1, <4>3, <4>6, <4>7
        <3>. QED BY <3>1, <3>2
    <2>10. \A t \in 0 .. T - 1 : BandOf(t, T, n) \subseteq 0 .. n - 1
        BY <2>7, <2>8
    <2>11. ASSUME NEW z \in 0 .. n - 1 PROVE \E t \in 0 .. T - 1 : z \in BandOf(t, T, n)
        <3>1. PICK t \in 0 .. T - 1 : off(t) <= z /\ z < off(t) + len(t)
            BY <2>9
        <3>2. off(t) \in Nat /\ len(t) \in Nat
            BY <2>7
        <3>. QED BY <2>8, <3>1, <3>2
    <2>12. ASSUME NEW t \in 0 .. T - 1, NEW u \in 0 .. T - 1, t < u
           PROVE  BandOf(t, T, n) \cap BandOf(u, T, n) = {}
        <3>1. u \in t + 1 .. T
            BY <2>12
        <3>2. off(t) + len(t) <= off(u) /\ off(t) \in Nat /\ off(u) \in Nat /\ len(t) \in Nat
            BY <2>5, <3>1
        <3>3. len(u) \in Nat
            BY <2>7
        <3>. QED BY <2>8, <3>2, <3>3
    <2>13. \A t, u \in 0 .. T - 1 : t # u => BandOf(t, T, n) \cap BandOf(u, T, n) = {}
        <3>1. \A t, u \in 0 .. T - 1 : t # u => t < u \/ u < t
            OBVIOUS
        <3>. QED BY <2>12, <3>1
    <2>. QED BY <2>10, <2>11, <2>13
<1>. QED BY <1>3, <1>4
==============================================================================

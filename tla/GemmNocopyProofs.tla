--------------------------- MODULE GemmNocopyProofs ---------------------------
(***************************************************************************)
(* The no-copy gemm for every problem and every team: nobody writes what   *)
(* another writes or reads, and every part is added once.                  *)
(***************************************************************************)
EXTENDS GemmNocopy, WorkSharingProofs, FiniteSetTheorems

------------------------------------------------------------------------------
(* Shares.  Share s is part PartOf(s) of block BlockOf(s), and adds up the *)
(* columns Strip(s) of the block.                                          *)

AllShares == 0 .. Shares - 1

BlockOf(s) == s % nthr_mn

PartOf(s) == LET k == s \div nthr_mn IN
             IF k = 0 THEN nthr_k - 1 ELSE IF k = nthr_k - 1 THEN 0 ELSE k

Strip(s) == BandOf(PartOf(s), nthr_k, Cardinality(Cols(BlockOf(s))))

\* The shares that thread p of a team of t goes through.
Own(p, t) == { s \in AllShares : First(p, t) <= s /\ s < Last(p, t) }

Mine(p) == Own(p, team)

------------------------------------------------------------------------------
(* The inductive invariant                                                 *)

\* The threads are adding up buffers, or will be when they have computed.
Summing == \/ phase = "sum"
           \/ phase = "compute" /\ nthr_k > 1 /\ ~sum_later(team)

AllParts == 1 .. nthr_k - 1

At(p, s) == ithr[p] = s /\ pc[p] \in {"gemm", "publish", "next", "adding"}

\* p has computed its share s, told so, or still has parts to add to its strip.
Computed(p, s) == \/ phase # "compute"
                  \/ s < ithr[p]
                  \/ ithr[p] = s /\ pc[p] \in {"publish", "next", "adding"}

Published(p, s) == s < ithr[p] \/ (ithr[p] = s /\ pc[p] \in {"next", "adding"})

Missing(p, s) ==
    IF ~Summing THEN AllParts
    ELSE IF s < ithr[p] THEN {}
    ELSE IF ithr[p] = s /\ pc[p] \in {"next", "adding"}
         THEN Range(todo[p])
    ELSE AllParts

Lists == { l \in Seq(AllParts) : \A i, j \in DOMAIN l : i # j => l[i] # l[j] }

\* Where the threads are.
Control ==
    /\ call \in Problems /\ team \in Teams
    /\ phase \in {"compute", "sum", "returned"}
    /\ pc \in [Threads -> {"fetch", "gemm", "publish", "next", "adding", "done"}]
    /\ ithr \in [Threads -> 0 .. nthr]
    /\ todo \in [Threads -> Lists]
    /\ DOMAIN seen = Threads
    /\ flag \in [Blocks \X Parts -> 0 .. 1]
    /\ ready \subseteq Blocks \X Parts
    /\ DOMAIN C = Blocks
    /\ \A b \in Blocks : C[b] \in [Cols(b) -> [Parts -> 0 .. 1]]
    /\ phase = "sum" => nthr_k > 1

Places ==
    \A p \in Team :
        /\ First(p, team) <= ithr[p] /\ ithr[p] <= Last(p, team)
        /\ pc[p] \in {"gemm", "publish", "next", "adding"} => ithr[p] \in Mine(p)
        /\ pc[p] = "done" => \A s \in Mine(p) : s < ithr[p]
        /\ pc[p] \in {"gemm", "publish"} => phase = "compute"
        /\ pc[p] \in {"publish", "next", "adding"} => Summing
        /\ pc[p] = "adding" => todo[p] # <<>>

\* Part 0 of a block is in C and the other parts are in buffers when, and only
\* when, the threads that have them have computed them.
Products ==
    phase # "returned" =>
        \A p \in Team : \A s \in Mine(p) :
            /\ PartOf(s) # 0 => (<<BlockOf(s), PartOf(s)>> \in ready <=> Computed(p, s))
            /\ PartOf(s) = 0 => \A j \in Cols(BlockOf(s)) :
                   C[BlockOf(s)][j][0] = IF Computed(p, s) THEN 1 ELSE 0

Flags ==
    phase = "compute" =>
        \A p \in Team : \A s \in Mine(p) :
            flag[<<BlockOf(s), PartOf(s)>>] = 1 <=> Summing /\ Published(p, s)

\* A column has the parts that the one thread whose strip it is in has added.
Sums ==
    phase # "returned" =>
        \A p \in Team : \A s \in Mine(p) : \A j \in Strip(s) : \A k \in AllParts :
            C[BlockOf(s)][j][k] = IF k \in Missing(p, s) THEN 0 ELSE 1

\* Nobody else writes the columns that a thread has read and will write.
Reads ==
    \A p \in Team : pc[p] = "adding" =>
        \A j \in Band(p) : seen[p][j] = C[Block(p)][j]

\* Nobody adds to a block before part 0 is in it, which overwrites it, or adds
\* a part before it has been computed.
Waits ==
    phase = "compute" /\ Summing =>
        \A p \in Team :
            /\ \A s \in Mine(p) : s < ithr[p] => flag[<<BlockOf(s), 0>>] = 1
            /\ pc[p] = "next" =>
                  \/ flag[<<Block(p), 0>>] = 1
                  \/ /\ todo[p] # <<>> /\ Head(todo[p]) = Part(p)
                     /\ Missing(p, ithr[p]) = AllParts
            /\ pc[p] = "adding" =>
                  /\ flag[<<Block(p), 0>>] = 1
                  /\ <<Block(p), Head(todo[p])>> \in ready

IInv == Control /\ Places /\ Products /\ Flags /\ Sums /\ Reads /\ Waits /\ SumIsComplete

------------------------------------------------------------------------------
(* The call and its shares.                                                *)

\* The partition of the call gives each of its shares something to do, and
\* there are no more shares than threads.
LEMMA CallFacts ==
    ASSUME call \in Problems
    PROVE  /\ CutIn(P.nthr_m, P.MB, M) /\ CutIn(P.nthr_n, P.NB, N)
           /\ M \in Nat \ {0} /\ N \in Nat \ {0}
           /\ nthr_mn \in Nat \ {0} /\ nthr_k \in Nat \ {0}
           /\ Shares \in 1 .. MaxThreads
           /\ MaxThreads \in Nat \ {0} /\ nthr = MaxThreads
<1>1. /\ M \in Nat \ {0} /\ N \in Nat \ {0} /\ call.K \in Nat \ {0}
      /\ MaxThreads \in Nat \ {0}
    BY ProblemAssumption DEF M, N
<1>2. P = calc_nthr_nocopy(call.avx512, M, N, call.K, MaxThreads)
    BY PartitionAssumption DEF P, M, N
<1>3. /\ CutIn(P.nthr_m, P.MB, M) /\ CutIn(P.nthr_n, P.NB, N)
      /\ CutIn(P.nthr_k, P.KB, call.K)
      /\ P.nthr_m * P.nthr_n * P.nthr_k <= MaxThreads
    BY <1>1, <1>2, BlocksHaveWork
<1>4. PICK a \in Nat \ {0}, b \in Nat \ {0}, c \in Nat \ {0} :
         a = P.nthr_m /\ b = P.nthr_n /\ c = P.nthr_k
    BY <1>3 DEF CutIn
<1>5. PICK ab \in Nat \ {0} : ab = a * b
    BY <1>4
<1>6. nthr_mn = ab /\ nthr_k = c
    BY <1>4, <1>5 DEF nthr_mn, nthr_k
<1>7. PICK abc \in Nat \ {0} : abc = ab * c
    BY <1>5, <1>4
<1>8. Shares = abc /\ abc <= MaxThreads
    BY <1>3, <1>4, <1>5, <1>6, <1>7 DEF Shares
<1>9. nthr = MaxThreads
    BY <1>1, <1>8 DEF nthr
<1>. QED BY <1>1, <1>3, <1>4, <1>5, <1>6, <1>7, <1>8, <1>9

\* No block is empty.
LEMMA BlocksAreCut ==
    ASSUME call \in Problems, NEW b \in Blocks
    PROVE  /\ BlockRows(b) # {}
           /\ \E n \in Nat \ {0} : Cols(b) = 0 .. n - 1 /\ Cardinality(Cols(b)) = n
<1>1. PICK nm \in Nat \ {0}, nn \in Nat \ {0}, mn \in Nat \ {0} :
         nm = P.nthr_m /\ nn = P.nthr_n /\ mn = nm * nn /\ mn = nthr_mn
    BY CallFacts DEF CutIn, nthr_mn
<1>2. PICK mb \in Nat \ {0}, nb \in Nat \ {0}, m \in Nat \ {0}, n \in Nat \ {0} :
         /\ mb = P.MB /\ nb = P.NB /\ m = M /\ n = N
         /\ (nm - 1) * mb < m /\ (nn - 1) * nb < n
    BY CallFacts, <1>1 DEF CutIn
<1>3. b \in Nat /\ b < mn
    BY <1>1 DEF Blocks
<1>4. PICK q \in Nat, r \in 0 .. nm - 1 : q = b \div nm /\ r = b % nm /\ b = nm * q + r
    <2>1. b \div nm \in Nat /\ b % nm \in 0 .. nm - 1 /\ b = nm * (b \div nm) + (b % nm)
        BY <1>3, Quotients
    <2>. QED BY <2>1
<1>5. q <= nn - 1
    <2>1. PICK x \in Nat, y \in Nat : x = nm * q /\ y = q * nm /\ x = y
        BY <1>4
    <2>2. y <= b
        BY <2>1, <1>4, <1>3
    <2>3. y + 0 < nn * nm
        <3>1. nn * nm = mn
            BY <1>1
        <3>. QED BY <3>1, <2>2, <1>3, <2>1
    <2>4. q < nn
        <3>1. 0 \in 0 .. nm - 1
            BY <1>1
        <3>2. q < nn <=> q * nm + 0 < nn * nm
            BY <3>1, <1>1, <1>4, RowOrder
        <3>. QED BY <3>2, <2>1, <2>3
    <2>. QED BY <2>4, <1>4, <1>1
<1>6. PICK c \in Nat : c = nb * q /\ c < n
    <2>1. PICK u \in Nat : u = nn - 1
        BY <1>1
    <2>2. q * nb <= u * nb
        BY <2>1, <1>5, <1>2, <1>4, ProductsGrow
    <2>3. u * nb < n
        BY <2>1, <1>2
    <2>4. q * nb \in Nat /\ u * nb \in Nat /\ nb * q = q * nb
        BY <2>1, <1>4, <1>2
    <2>. QED BY <2>2, <2>3, <2>4
<1>7. PICK d \in Nat : d = mb * r /\ d < m
    <2>1. PICK u \in Nat : u = nm - 1
        BY <1>1
    <2>2. r \in Nat /\ r <= u
        BY <2>1, <1>4
    <2>3. r * mb <= u * mb
        BY <2>1, <2>2, <1>2, ProductsGrow
    <2>4. u * mb < m
        BY <2>1, <1>2
    <2>5. r * mb \in Nat /\ u * mb \in Nat /\ mb * r = r * mb
        BY <2>1, <2>2, <1>2
    <2>. QED BY <2>3, <2>4, <2>5
<1>8. PICK w \in Nat \ {0} : w = Least(nb, n - c)
    BY <1>2, <1>6 DEF Least
<1>9. PICK v \in Nat \ {0} : v = Least(mb, m - d)
    BY <1>2, <1>7 DEF Least
<1>10. BlockRows(b) = 0 .. v - 1
    BY <1>1, <1>2, <1>4, <1>7, <1>9 DEF BlockRows
<1>11. Cols(b) = 0 .. w - 1
    BY <1>1, <1>2, <1>4, <1>6, <1>8 DEF Cols
<1>12. Cardinality(0 .. w - 1) = w
    BY FS_Interval
<1>. QED BY <1>10, <1>11, <1>12

LEMMA ShareFacts ==
    ASSUME call \in Problems, NEW s \in AllShares
    PROVE  /\ s \in 0 .. nthr - 1 /\ BlockOf(s) \in Blocks /\ PartOf(s) \in Parts
           /\ BlockRows(BlockOf(s)) # {} /\ Cols(BlockOf(s)) # {}
           /\ Strip(s) \subseteq Cols(BlockOf(s))
<1>1. PICK mn \in Nat \ {0}, nk \in Nat \ {0}, all \in Nat \ {0} :
         /\ mn = nthr_mn /\ nk = nthr_k /\ all = nk * mn /\ all = Shares
         /\ all <= MaxThreads /\ nthr = MaxThreads /\ MaxThreads \in Nat
    BY CallFacts DEF Shares
<1>2. s \in Nat /\ s < all
    BY <1>1 DEF AllShares
<1>3. PICK q \in Nat, r \in 0 .. mn - 1 : q = s \div mn /\ r = s % mn /\ s = mn * q + r
    <2>1. s \div mn \in Nat /\ s % mn \in 0 .. mn - 1 /\ s = mn * (s \div mn) + (s % mn)
        BY <1>1, <1>2, Quotients
    <2>. QED BY <2>1
<1>4. q < nk
    <2>1. q < nk <=> q * mn + r < nk * mn
        BY <1>1, <1>3, RowOrder
    <2>2. PICK x \in Nat, y \in Nat : x = mn * q /\ y = q * mn /\ x = y
        BY <1>3
    <2>. QED BY <2>1, <2>2, <1>1, <1>2, <1>3
<1>5. BlockOf(s) \in Blocks
    BY <1>1, <1>3 DEF BlockOf, Blocks
<1>6. PartOf(s) \in Parts
    BY <1>1, <1>3, <1>4 DEF PartOf, Parts
<1>7. PICK n \in Nat \ {0} : /\ Cols(BlockOf(s)) = 0 .. n - 1
                             /\ Cardinality(Cols(BlockOf(s))) = n
    BY <1>5, BlocksAreCut
<1>8. Strip(s) \subseteq 0 .. n - 1
    BY <1>1, <1>6, <1>7, BandsPartition DEF Strip, Parts
<1>9. BlockRows(BlockOf(s)) # {}
    BY <1>5, BlocksAreCut
<1>10. s \in 0 .. nthr - 1
    BY <1>1, <1>2
<1>11. Cols(BlockOf(s)) # {}
    <2>1. 0 \in 0 .. n - 1
        OBVIOUS
    <2>. QED BY <1>7, <2>1
<1>. QED BY <1>5, <1>6, <1>7, <1>8, <1>9, <1>10, <1>11

\* Each part of each block is the work of one share.
LEMMA SharesReach ==
    ASSUME call \in Problems, NEW b \in Blocks, NEW k \in Parts
    PROVE  \E s \in AllShares : BlockOf(s) = b /\ PartOf(s) = k
<1>1. PICK mn \in Nat \ {0}, nk \in Nat \ {0}, all \in Nat \ {0} :
         mn = nthr_mn /\ nk = nthr_k /\ all = nk * mn /\ all = Shares
    BY CallFacts DEF Shares
<1>2. b \in 0 .. mn - 1 /\ k \in 0 .. nk - 1
    BY <1>1 DEF Blocks, Parts
<1>3. PICK q \in 0 .. nk - 1 : q = IF k = 0 THEN nk - 1 ELSE IF k = nk - 1 THEN 0 ELSE k
    BY <1>1, <1>2
<1>4. q \in Nat /\ q * mn \in Nat
    BY <1>3, RowOrder, <1>1
<1>5. PICK s \in Nat : s = q * mn + b
    BY <1>4, <1>2
<1>6. s \div mn = q /\ s % mn = b
    <2>1. b \in 0 .. mn - 1
        BY <1>2
    <2>. QED BY <2>1, <1>4, <1>5, RowMajorIsUnique
<1>7. s < all
    <2>1. q < nk <=> q * mn + b < nk * mn
        BY <1>1, <1>2, <1>4, RowOrder
    <2>2. q < nk
        OBVIOUS
    <2>. QED BY <2>1, <2>2, <1>1, <1>5
<1>8. s \in AllShares
    BY <1>1, <1>5, <1>7 DEF AllShares
<1>9. BlockOf(s) = b
    BY <1>1, <1>6 DEF BlockOf
<1>10. PartOf(s) = k
    BY <1>1, <1>2, <1>3, <1>6 DEF PartOf
<1>. QED BY <1>8, <1>9, <1>10

LEMMA SharesDiffer ==
    ASSUME call \in Problems, NEW s \in AllShares, NEW u \in AllShares,
           BlockOf(s) = BlockOf(u), PartOf(s) = PartOf(u)
    PROVE  s = u
<1>1. PICK mn \in Nat \ {0}, nk \in Nat \ {0}, all \in Nat \ {0} :
         mn = nthr_mn /\ nk = nthr_k /\ all = nk * mn /\ all = Shares
    BY CallFacts DEF Shares
<1>2. s \in Nat /\ u \in Nat /\ s < all /\ u < all
    BY <1>1 DEF AllShares
<1>3. ASSUME NEW a \in Nat, a < all
      PROVE  a \div mn \in 0 .. nk - 1 /\ a = mn * (a \div mn) + (a % mn)
    <2>1. a \div mn \in Nat /\ a % mn \in 0 .. mn - 1 /\ a = mn * (a \div mn) + (a % mn)
        BY <1>1, <1>3, Quotients
    <2>2. PICK q \in Nat, r \in 0 .. mn - 1 : q = a \div mn /\ r = a % mn /\ a = mn * q + r
        BY <2>1
    <2>3. q < nk <=> q * mn + r < nk * mn
        BY <1>1, <2>2, RowOrder
    <2>4. PICK x \in Nat, y \in Nat : x = mn * q /\ y = q * mn /\ x = y
        BY <2>2
    <2>. QED BY <2>1, <2>2, <2>3, <2>4, <1>1, <1>3
<1>4. PICK q \in 0 .. nk - 1 : q = s \div mn /\ s = mn * q + (s % mn)
    BY <1>2, <1>3
<1>5. PICK v \in 0 .. nk - 1 : v = u \div mn /\ u = mn * v + (u % mn)
    BY <1>2, <1>3
<1>6. s % mn = u % mn
    BY <1>1 DEF BlockOf
<1>7. q = v
    BY <1>1, <1>4, <1>5 DEF PartOf
<1>. QED BY <1>4, <1>5, <1>6, <1>7

\* The strips of a block are disjoint and cover it.
LEMMA StripsCover ==
    ASSUME call \in Problems, NEW b \in Blocks, NEW j \in Cols(b)
    PROVE  \E s \in AllShares : BlockOf(s) = b /\ j \in Strip(s)
<1>1. PICK n \in Nat \ {0} : Cols(b) = 0 .. n - 1 /\ Cardinality(Cols(b)) = n
    BY BlocksAreCut
<1>2. PICK k \in 0 .. nthr_k - 1 : j \in BandOf(k, nthr_k, n)
    BY <1>1, CallFacts, BandsPartition
<1>3. PICK s \in AllShares : BlockOf(s) = b /\ PartOf(s) = k
    BY <1>2, SharesReach DEF Parts
<1>. QED BY <1>1, <1>2, <1>3 DEF Strip

LEMMA StripsApart ==
    ASSUME call \in Problems, NEW s \in AllShares, NEW u \in AllShares,
           BlockOf(s) = BlockOf(u), s # u
    PROVE  Strip(s) \cap Strip(u) = {}
<1>1. PICK n \in Nat \ {0} : n = Cardinality(Cols(BlockOf(s)))
    BY ShareFacts, BlocksAreCut
<1>2. PartOf(s) # PartOf(u) /\ PartOf(s) \in 0 .. nthr_k - 1 /\ PartOf(u) \in 0 .. nthr_k - 1
    BY SharesDiffer, ShareFacts DEF Parts
<1>3. BandOf(PartOf(s), nthr_k, n) \cap BandOf(PartOf(u), nthr_k, n) = {}
    BY <1>1, <1>2, CallFacts, BandsPartition
<1>. QED BY <1>1, <1>3 DEF Strip

LEMMA OwnBounds ==
    ASSUME call \in Problems, NEW t \in Teams, NEW p \in 0 .. t - 1
    PROVE  /\ t \in 1 .. MaxThreads /\ p \in Threads
           /\ First(p, t) \in Nat /\ Last(p, t) \in Nat
           /\ First(p, t) <= Last(p, t) /\ Last(p, t) <= nthr
<1>1. PICK n \in Nat \ {0} : n = nthr /\ n = MaxThreads
    BY CallFacts
<1>2. t \in 1 .. n /\ t \in Nat \ {0}
    BY <1>1, TeamsAssumption
<1>3. /\ Start(n, t, p) \in Nat /\ End(n, t, p) \in Nat
      /\ Start(n, t, p) <= End(n, t, p) /\ Start(n, t, p) <= Start(n, t, t - 1)
      /\ Start(n, t, t - 1) <= End(n, t, t - 1)
      /\ Start(n, t, t - 1) \in Nat
    <2>1. p <= t - 1 /\ t - 1 \in 0 .. t - 1 /\ n \in Nat
        BY <1>1, <1>2
    <2>. QED BY <1>2, <2>1, SharesAreOrdered
<1>4. End(n, t, t - 1) = n
    BY <1>2, SharesAreConsecutive
<1>5. Start(n, t, p) .. End(n, t, p) - 1 \subseteq 0 .. n - 1
    BY <1>2, SharesArePartition
<1>6. End(n, t, p) <= n
    <2>1. CASE Start(n, t, p) = End(n, t, p)
        BY <2>1, <1>1, <1>3, <1>4
    <2>2. CASE Start(n, t, p) < End(n, t, p)
        <3>1. End(n, t, p) - 1 \in Start(n, t, p) .. End(n, t, p) - 1
            BY <1>3, <2>2
        <3>2. End(n, t, p) - 1 \in 0 .. n - 1
            BY <3>1, <1>5
        <3>. QED BY <3>2, <1>1, <1>3
    <2>. QED BY <1>3, <2>1, <2>2
<1>. QED BY <1>1, <1>2, <1>3, <1>6 DEF First, Last, Threads

\* Each share is executed by one thread.
LEMMA OwnersCover ==
    ASSUME call \in Problems, NEW t \in Teams, NEW s \in AllShares
    PROVE  \E p \in 0 .. t - 1 : s \in Own(p, t)
<1>1. PICK n \in Nat \ {0} : n = nthr
    BY CallFacts
<1>2. t \in Nat \ {0} /\ s \in 0 .. n - 1
    BY <1>1, CallFacts, TeamsAssumption, ShareFacts
<1>3. PICK p \in 0 .. t - 1 : s \in Start(n, t, p) .. End(n, t, p) - 1
    BY <1>2, SharesArePartition
<1>4. Start(n, t, p) \in Nat /\ End(n, t, p) \in Nat
    BY <1>1, OwnBounds DEF First, Last
<1>5. Start(n, t, p) <= s /\ s < End(n, t, p)
    BY <1>2, <1>3, <1>4
<1>. QED BY <1>1, <1>5 DEF Own, First, Last

LEMMA OwnersApart ==
    ASSUME call \in Problems, NEW t \in Teams,
           NEW p \in 0 .. t - 1, NEW q \in 0 .. t - 1, p # q
    PROVE  Own(p, t) \cap Own(q, t) = {}
<1>1. PICK n \in Nat \ {0} : n = nthr
    BY CallFacts
<1>2. t \in Nat \ {0}
    BY CallFacts, TeamsAssumption
<1>3. (Start(n, t, p) .. End(n, t, p) - 1) \cap (Start(n, t, q) .. End(n, t, q) - 1) = {}
    BY <1>2, SharesArePartition
<1>4. /\ Start(n, t, p) \in Nat /\ End(n, t, p) \in Nat
      /\ Start(n, t, q) \in Nat /\ End(n, t, q) \in Nat
    BY <1>1, OwnBounds DEF First, Last
<1>5. ASSUME NEW s \in AllShares, s \in Own(p, t), s \in Own(q, t) PROVE FALSE
    <2>1. s \in Nat
        BY ShareFacts, CallFacts
    <2>2. s \in Start(n, t, p) .. End(n, t, p) - 1 /\ s \in Start(n, t, q) .. End(n, t, q) - 1
        BY <1>1, <1>4, <1>5, <2>1 DEF Own, First, Last
    <2>. QED BY <2>2, <1>3
<1>. QED BY <1>5 DEF Own

------------------------------------------------------------------------------
(* Lists of parts.                                                         *)

LEMMA ListFacts ==
    ASSUME NEW l \in Lists, l # <<>>
    PROVE  /\ Head(l) \in AllParts /\ Head(l) \in Range(l)
           /\ Tail(l) \in Lists /\ Range(Tail(l)) = Range(l) \ {Head(l)}
<1>1. /\ l \in Seq(AllParts) /\ \A i, j \in DOMAIN l : i # j => l[i] # l[j]
    BY DEF Lists
<1>2. PICK n \in Nat \ {0} : n = Len(l) /\ DOMAIN l = 1 .. n
    BY <1>1
<1>3. Head(l) = l[1] /\ 1 \in DOMAIN l
    BY <1>1, <1>2
<1>4. /\ Tail(l) \in Seq(AllParts) /\ DOMAIN Tail(l) = 1 .. n - 1
      /\ \A i \in 1 .. n - 1 : Tail(l)[i] = l[i + 1]
    BY <1>1, <1>2
<1>5. \A i \in 1 .. n - 1 : i + 1 \in DOMAIN l /\ i + 1 # 1
    BY <1>2
<1>6. \A i, j \in 1 .. n - 1 : i # j => i + 1 # j + 1
    OBVIOUS
<1>7. Tail(l) \in Lists
    <2>. SUFFICES ASSUME NEW i \in 1 .. n - 1, NEW j \in 1 .. n - 1, i # j
                  PROVE  Tail(l)[i] # Tail(l)[j]
        BY <1>4 DEF Lists
    <2>. QED BY <1>1, <1>4, <1>5, <1>6
<1>8. Range(Tail(l)) = Range(l) \ {l[1]}
    <2>1. ASSUME NEW x \in Range(Tail(l)) PROVE x \in Range(l) \ {l[1]}
        BY <1>1, <1>3, <1>4, <1>5, <2>1 DEF Range
    <2>2. ASSUME NEW x \in Range(l) \ {l[1]} PROVE x \in Range(Tail(l))
        <3>1. PICK i \in 1 .. n : x = l[i] /\ i # 1
            BY <1>2, <2>2 DEF Range
        <3>2. i - 1 \in 1 .. n - 1 /\ (i - 1) + 1 = i
            BY <3>1
        <3>. QED BY <1>4, <3>1, <3>2 DEF Range
    <2>. QED BY <2>1, <2>2
<1>9. Head(l) \in AllParts
    BY <1>1, <1>2
<1>. QED BY <1>3, <1>7, <1>8, <1>9 DEF Range

LEMMA EmptyList ==
    /\ <<>> \in Lists /\ Range(<<>>) = {}
    /\ \A l \in Lists : l # <<>> <=> Range(l) # {}
<1>1. <<>> \in Seq(AllParts) /\ DOMAIN <<>> = {}
    OBVIOUS
<1>2. <<>> \in Lists /\ Range(<<>>) = {}
    BY <1>1 DEF Lists, Range
<1>. QED BY <1>2, ListFacts

\* A thread has every part to add, and its own first.
LEMMA AdditionsFacts ==
    ASSUME call \in Problems, NEW p, Part(p) \in Parts
    PROVE  /\ Additions(p) \in Lists /\ Range(Additions(p)) = AllParts
           /\ nthr_k > 1 => Additions(p) # <<>>
           /\ Part(p) # 0 => nthr_k > 1 /\ Head(Additions(p)) = Part(p)
<1>1. PICK nk \in Nat \ {0}, k \in Nat : nk = nthr_k /\ k = Part(p) /\ k <= nk - 1
    BY CallFacts DEF Parts
<1>. DEFINE a(i) == IF i = 1 /\ k # 0 THEN k ELSE IF i <= k THEN i - 1 ELSE i
            l == [i \in 1 .. nk - 1 |-> a(i)]
<1>2. Additions(p) = l
    BY <1>1 DEF Additions
<1>3. \A i \in 1 .. nk - 1 : a(i) \in 1 .. nk - 1
    BY <1>1
<1>4. \A i, j \in 1 .. nk - 1 : i # j => a(i) # a(j)
    BY <1>1
<1>5. \A x \in 1 .. nk - 1 : \E i \in 1 .. nk - 1 : x = a(i)
    <2>. SUFFICES ASSUME NEW x \in 1 .. nk - 1 PROVE \E i \in 1 .. nk - 1 : x = a(i)
        OBVIOUS
    <2>1. CASE k # 0 /\ x = k
        <3>1. 1 \in 1 .. nk - 1 /\ a(1) = x
            BY <1>1, <2>1
        <3>. QED BY <3>1
    <2>2. CASE x < k
        <3>1. x + 1 \in 1 .. nk - 1 /\ a(x + 1) = x
            BY <1>1, <2>2
        <3>. QED BY <3>1
    <2>3. CASE k = 0 \/ x > k
        <3>1. a(x) = x
            BY <1>1, <2>3
        <3>. QED BY <3>1
    <2>. QED BY <2>1, <2>2, <2>3, <1>1
<1>6. k # 0 => 1 \in 1 .. nk - 1 /\ a(1) = k
    BY <1>1
<1>. HIDE DEF a
<1>7. l \in [1 .. nk - 1 -> AllParts] /\ AllParts = 1 .. nk - 1
    BY <1>1, <1>3 DEF AllParts
<1>8. nk - 1 \in Nat
    BY <1>1
<1>9. l \in Seq(AllParts) /\ Len(l) = nk - 1
    BY <1>7, <1>8
<1>10. l \in Lists
    BY <1>4, <1>7, <1>9 DEF Lists
<1>11. Range(l) = AllParts
    BY <1>3, <1>5, <1>7 DEF Range
<1>12. nk > 1 => l # <<>>
    BY <1>9
<1>13. k # 0 => nk > 1 /\ Head(l) = k
    <2>. SUFFICES ASSUME k # 0 PROVE nk > 1 /\ Head(l) = k
        OBVIOUS
    <2>1. nk > 1 /\ l[1] = k
        BY <1>1, <1>6
    <2>2. l # <<>> /\ Head(l) = l[1]
        BY <1>9, <1>12, <2>1
    <2>. QED BY <2>1, <2>2
<1>. QED BY <1>1, <1>2, <1>10, <1>11, <1>12, <1>13

------------------------------------------------------------------------------
(* Owners.                                                                 *)

LEMMA OneOwner ==
    ASSUME Control, NEW p \in Team, NEW q \in Team, NEW s \in Mine(p), NEW u \in Mine(q),
           BlockOf(s) = BlockOf(u),
           PartOf(s) = PartOf(u) \/ Strip(s) \cap Strip(u) # {}
    PROVE  s = u /\ p = q
<1>1. s \in AllShares /\ u \in AllShares
    BY DEF Mine, Own
<1>2. s = u
    BY <1>1, SharesDiffer, StripsApart DEF Control
<1>. QED BY <1>2, OwnersApart DEF Control, Mine, Team

LEMMA SomeOwner ==
    ASSUME Control
    PROVE  /\ \A b \in Blocks : \A k \in Parts : \E p \in Team : \E s \in Mine(p) :
                 BlockOf(s) = b /\ PartOf(s) = k
           /\ \A b \in Blocks : \A j \in Cols(b) : \E p \in Team : \E s \in Mine(p) :
                 BlockOf(s) = b /\ j \in Strip(s)
<1>1. \A s \in AllShares : \E p \in Team : s \in Mine(p)
    BY OwnersCover DEF Control, Mine, Team
<1>. QED BY <1>1, SharesReach, StripsCover DEF Control

\* What holds of a share that a thread has or had.
LEMMA MineFacts ==
    ASSUME Control, NEW p \in Team, NEW s \in Mine(p)
    PROVE  /\ p \in Threads /\ s \in AllShares /\ s \in Nat
           /\ s \in 0 .. nthr - 1 /\ BlockOf(s) \in Blocks /\ PartOf(s) \in Parts
           /\ BlockRows(BlockOf(s)) # {} /\ Cols(BlockOf(s)) # {}
           /\ Strip(s) \subseteq Cols(BlockOf(s))
           /\ First(p, team) <= s /\ s < Last(p, team)
<1>1. s \in AllShares /\ First(p, team) <= s /\ s < Last(p, team)
    BY DEF Mine, Own
<1>2. s \in 0 .. nthr - 1 /\ nthr \in Nat
    BY <1>1, ShareFacts, CallFacts DEF Control
<1>3. p \in Threads
    BY OwnBounds DEF Control, Team
<1>. QED BY <1>1, <1>2, <1>3, ShareFacts DEF Control

\* The share that p is at.
LEMMA AtShare ==
    ASSUME NEW p
    PROVE  /\ Block(p) = BlockOf(ithr[p]) /\ Part(p) = PartOf(ithr[p])
           /\ Band(p) = Strip(ithr[p])
BY DEF Block, Part, Band, BlockOf, PartOf, Strip, BandOf

LEMMA SameCall ==
    ASSUME call' = call
    PROVE  /\ nthr_k' = nthr_k /\ nthr_mn' = nthr_mn /\ nthr' = nthr
           /\ AllShares' = AllShares
           /\ Blocks' = Blocks /\ Parts' = Parts /\ AllParts' = AllParts /\ Lists' = Lists
           /\ \A b : Cols(b)' = Cols(b)
           /\ \A s : /\ BlockOf(s)' = BlockOf(s) /\ PartOf(s)' = PartOf(s)
                     /\ Strip(s)' = Strip(s)
           /\ \A p, t : Own(p, t)' = Own(p, t) /\ First(p, t)' = First(p, t)
                                               /\ Last(p, t)' = Last(p, t)
           /\ \A t : sum_later(t)' = sum_later(t)
<1>1. P' = P /\ N' = N /\ M' = M
    BY DEF P, N, M
<1>2. nthr_k' = nthr_k /\ nthr_mn' = nthr_mn /\ Shares' = Shares /\ nthr' = nthr
    BY <1>1 DEF nthr_k, nthr_mn, Shares, nthr
<1>3. AllShares' = AllShares /\ Blocks' = Blocks /\ Parts' = Parts /\ AllParts' = AllParts
    BY <1>2 DEF AllShares, Blocks, Parts, AllParts
<1>4. \A p, t : First(p, t)' = First(p, t) /\ Last(p, t)' = Last(p, t)
    BY <1>2 DEF First, Last
<1>. QED BY <1>1, <1>2, <1>3, <1>4 DEF Lists, Cols, BlockOf, PartOf, Strip, Own, sum_later

\* A step within a section: the shares stay with their threads, and nothing
\* changes for those that are not at work.
LEMMA Frame ==
    ASSUME call' = call, team' = team, phase' = phase
    PROVE  /\ Team' = Team /\ (Summing' <=> Summing)
           /\ \A q : Mine(q)' = Mine(q)
           /\ \A q : First(q, team)' = First(q, team) /\ Last(q, team)' = Last(q, team)
           /\ \A q, s : pc'[q] = pc[q] /\ ithr'[q] = ithr[q] /\ todo'[q] = todo[q] =>
                 /\ Computed(q, s)' <=> Computed(q, s)
                 /\ Published(q, s)' <=> Published(q, s)
                 /\ Missing(q, s)' = Missing(q, s)
<1>1. Team' = Team /\ \A q : Mine(q)' = Mine(q)
    BY SameCall DEF Team, Mine
<1>2. Summing' <=> Summing
    BY SameCall DEF Summing
<1>3. \A q : First(q, team)' = First(q, team) /\ Last(q, team)' = Last(q, team)
    BY SameCall
<1>4. ASSUME NEW q, NEW s, pc'[q] = pc[q], ithr'[q] = ithr[q], todo'[q] = todo[q]
      PROVE  /\ Computed(q, s)' <=> Computed(q, s)
             /\ Published(q, s)' <=> Published(q, s)
             /\ Missing(q, s)' = Missing(q, s)
    <2>1. Computed(q, s)' <=> Computed(q, s)
        BY <1>4 DEF Computed
    <2>2. Published(q, s)' <=> Published(q, s)
        BY <1>4 DEF Published
    <2>3. Missing(q, s)' = Missing(q, s)
        BY <1>2, <1>4, SameCall DEF Missing
    <2>. QED BY <2>1, <2>2, <2>3
<1>. QED BY <1>1, <1>2, <1>3, <1>4

------------------------------------------------------------------------------
(* Steps of a section.                                                     *)

\* The invariants behind a step within a section.
LEMMA Primed ==
    ASSUME call' = call, team' = team, phase' = phase
    PROVE  /\ Products' <=>
                (phase # "returned" =>
                    \A q \in Team : \A s \in Mine(q) :
                        /\ PartOf(s) # 0 =>
                              (<<BlockOf(s), PartOf(s)>> \in ready' <=> Computed(q, s)')
                        /\ PartOf(s) = 0 => \A j \in Cols(BlockOf(s)) :
                              C'[BlockOf(s)][j][0] = IF Computed(q, s)' THEN 1 ELSE 0)
           /\ Flags' <=>
                (phase = "compute" =>
                    \A q \in Team : \A s \in Mine(q) :
                        flag'[<<BlockOf(s), PartOf(s)>>] = 1
                            <=> Summing /\ Published(q, s)')
           /\ Sums' <=>
                (phase # "returned" =>
                    \A q \in Team : \A s \in Mine(q) : \A j \in Strip(s) : \A k \in AllParts :
                        C'[BlockOf(s)][j][k] = IF k \in Missing(q, s)' THEN 0 ELSE 1)
           /\ Reads' <=>
                (\A q \in Team : pc'[q] = "adding" =>
                    \A j \in Strip(ithr'[q]) : seen'[q][j] = C'[BlockOf(ithr'[q])][j])
           /\ Waits' <=>
                (phase = "compute" /\ Summing =>
                    \A q \in Team :
                        /\ \A s \in Mine(q) : s < ithr'[q] => flag'[<<BlockOf(s), 0>>] = 1
                        /\ pc'[q] = "next" =>
                              \/ flag'[<<BlockOf(ithr'[q]), 0>>] = 1
                              \/ /\ todo'[q] # <<>> /\ Head(todo'[q]) = PartOf(ithr'[q])
                                 /\ Missing(q, ithr[q])' = AllParts
                        /\ pc'[q] = "adding" =>
                              /\ flag'[<<BlockOf(ithr'[q]), 0>>] = 1
                              /\ <<BlockOf(ithr'[q]), Head(todo'[q])>> \in ready')
           /\ Places' <=>
                (\A q \in Team :
                    /\ First(q, team) <= ithr'[q] /\ ithr'[q] <= Last(q, team)
                    /\ pc'[q] \in {"gemm", "publish", "next", "adding"} => ithr'[q] \in Mine(q)
                    /\ pc'[q] = "done" => \A s \in Mine(q) : s < ithr'[q]
                    /\ pc'[q] \in {"gemm", "publish"} => phase = "compute"
                    /\ pc'[q] \in {"publish", "next", "adding"} => Summing
                    /\ pc'[q] = "adding" => todo'[q] # <<>>)
<1>1. /\ Team' = Team /\ (Summing' <=> Summing) /\ \A q : Mine(q)' = Mine(q)
      /\ \A q : First(q, team)' = First(q, team) /\ Last(q, team)' = Last(q, team)
    BY Frame
<1>2. AllParts' = AllParts /\ \A b : Cols(b)' = Cols(b)
    BY SameCall
<1>3. \A s : BlockOf(s)' = BlockOf(s) /\ PartOf(s)' = PartOf(s) /\ Strip(s)' = Strip(s)
    BY SameCall
<1>4. \A q : Block(q)' = BlockOf(ithr'[q]) /\ Part(q)' = PartOf(ithr'[q])
                                           /\ Band(q)' = Strip(ithr'[q])
    BY SameCall DEF Block, Part, Band, BlockOf, PartOf, Strip, BandOf
<1>5. Products' <=>
                (phase # "returned" =>
                    \A q \in Team : \A s \in Mine(q) :
                        /\ PartOf(s) # 0 =>
                              (<<BlockOf(s), PartOf(s)>> \in ready' <=> Computed(q, s)')
                        /\ PartOf(s) = 0 => \A j \in Cols(BlockOf(s)) :
                              C'[BlockOf(s)][j][0] = IF Computed(q, s)' THEN 1 ELSE 0)
    BY <1>1, <1>2, <1>3 DEF Products
<1>6. Flags' <=>
                (phase = "compute" =>
                    \A q \in Team : \A s \in Mine(q) :
                        flag'[<<BlockOf(s), PartOf(s)>>] = 1
                            <=> Summing /\ Published(q, s)')
    BY <1>1, <1>3 DEF Flags
<1>7. Sums' <=>
                (phase # "returned" =>
                    \A q \in Team : \A s \in Mine(q) : \A j \in Strip(s) : \A k \in AllParts :
                        C'[BlockOf(s)][j][k] = IF k \in Missing(q, s)' THEN 0 ELSE 1)
    BY <1>1, <1>2, <1>3 DEF Sums
<1>8. Reads' <=>
                (\A q \in Team : pc'[q] = "adding" =>
                    \A j \in Strip(ithr'[q]) : seen'[q][j] = C'[BlockOf(ithr'[q])][j])
    BY <1>1, <1>4 DEF Reads
<1>9. Waits' <=>
                (phase = "compute" /\ Summing =>
                    \A q \in Team :
                        /\ \A s \in Mine(q) : s < ithr'[q] => flag'[<<BlockOf(s), 0>>] = 1
                        /\ pc'[q] = "next" =>
                              \/ flag'[<<BlockOf(ithr'[q]), 0>>] = 1
                              \/ /\ todo'[q] # <<>> /\ Head(todo'[q]) = PartOf(ithr'[q])
                                 /\ Missing(q, ithr[q])' = AllParts
                        /\ pc'[q] = "adding" =>
                              /\ flag'[<<BlockOf(ithr'[q]), 0>>] = 1
                              /\ <<BlockOf(ithr'[q]), Head(todo'[q])>> \in ready')
    BY <1>1, <1>2, <1>3, <1>4 DEF Waits
<1>10. Places' <=>
                (\A q \in Team :
                    /\ First(q, team) <= ithr'[q] /\ ithr'[q] <= Last(q, team)
                    /\ pc'[q] \in {"gemm", "publish", "next", "adding"} => ithr'[q] \in Mine(q)
                    /\ pc'[q] = "done" => \A s \in Mine(q) : s < ithr'[q]
                    /\ pc'[q] \in {"gemm", "publish"} => phase = "compute"
                    /\ pc'[q] \in {"publish", "next", "adding"} => Summing
                    /\ pc'[q] = "adding" => todo'[q] # <<>>)
    BY <1>1 DEF Places
<1>. QED BY <1>5, <1>6, <1>7, <1>8, <1>9, <1>10, Zenon

Labels == {"fetch", "gemm", "publish", "next", "adding", "done"}

LEMMA KeepsControl ==
    ASSUME Control, call' = call, team' = team, phase' = phase,
           pc' \in [Threads -> Labels], ithr' \in [Threads -> 0 .. nthr],
           todo' \in [Threads -> Lists], DOMAIN seen' = Threads,
           flag' \in [Blocks \X Parts -> 0 .. 1], ready' \subseteq Blocks \X Parts,
           DOMAIN C' = Blocks,
           \A b \in Blocks : C'[b] \in [Cols(b) -> [Parts -> 0 .. 1]]
    PROVE  Control'
<1>1. /\ nthr_k' = nthr_k /\ nthr' = nthr /\ Blocks' = Blocks /\ Parts' = Parts
      /\ Lists' = Lists /\ \A b : Cols(b)' = Cols(b)
    BY SameCall
<1>. QED BY <1>1 DEF Control, Labels

\* What p is doing does not matter for the shares of the others.
LEMMA OthersKeep ==
    ASSUME Control, call' = call, team' = team, phase' = phase, NEW p \in Team,
           \A q \in Team \ {p} :
               pc'[q] = pc[q] /\ ithr'[q] = ithr[q] /\ todo'[q] = todo[q]
    PROVE  \A q \in Team \ {p} : \A s :
               /\ Computed(q, s)' <=> Computed(q, s)
               /\ Published(q, s)' <=> Published(q, s)
               /\ Missing(q, s)' = Missing(q, s)
BY Frame

LEMMA FetchKeeps ==
    ASSUME IInv, phase # "returned", NEW p \in Team, Fetch(p)
    PROVE  IInv'
<1>. DEFINE i == ithr[p]
            bound == Least(Last(p, team), Shares)
<1>1. call' = call /\ team' = team /\ phase' = phase /\ ithr' = ithr /\ seen' = seen
      /\ flag' = flag /\ ready' = ready /\ C' = C /\ pc[p] = "fetch"
    BY DEF Fetch
<1>2. Control /\ p \in Threads
    BY OwnBounds DEF IInv, Control, Team
<1>3. /\ pc \in [Threads -> Labels] /\ ithr \in [Threads -> 0 .. nthr]
      /\ todo \in [Threads -> Lists] /\ phase \in {"compute", "sum"}
    BY <1>2 DEF Control, Labels
<1>4. i \in Nat /\ First(p, team) <= i /\ i <= Last(p, team) /\ Last(p, team) \in Nat
      /\ First(p, team) \in Nat /\ nthr \in Nat /\ Shares \in Nat
    BY <1>2, <1>3, OwnBounds, CallFacts DEF IInv, Places, Control, Team
<1>5. i < bound => i \in Mine(p)
    <2>. SUFFICES ASSUME i < bound PROVE i \in Mine(p)
        OBVIOUS
    <2>1. i < Last(p, team) /\ i < Shares
        BY <1>4 DEF Least
    <2>2. i \in AllShares
        BY <1>4, <2>1 DEF AllShares
    <2>. QED BY <1>4, <2>1, <2>2 DEF Mine, Own
<1>6. i >= bound => \A s \in Mine(p) : s < i
    <2>. SUFFICES ASSUME i >= bound, NEW s \in Mine(p) PROVE s < i
        OBVIOUS
    <2>1. s \in Nat /\ s < Last(p, team) /\ s < Shares
        BY <1>2, <1>4, MineFacts DEF AllShares
    <2>. QED BY <1>4, <2>1 DEF Least
<1>7. PICK l \in Labels :
         /\ pc' = [pc EXCEPT ![p] = l]
         /\ \/ l = "done" /\ i >= bound /\ todo' = todo
            \/ l = "gemm" /\ phase = "compute" /\ i < bound /\ todo' = todo
            \/ /\ l = "next" /\ phase = "sum" /\ i < bound
               /\ todo' = [todo EXCEPT ![p] = Additions(p)]
    <2>1. bound \in Nat
        BY <1>4 DEF Least
    <2>. HIDE DEF bound
    <2>. QED BY <1>3, <1>4, <2>1 DEF Fetch, Goto, Labels, bound
<1>. HIDE DEF bound
<1>8. i < bound => Part(p) \in Parts /\ Additions(p) \in Lists /\ Range(Additions(p)) = AllParts
    BY <1>2, <1>5, MineFacts, AtShare, AdditionsFacts DEF Control
<1>9. pc' \in [Threads -> Labels] /\ todo' \in [Threads -> Lists]
    BY <1>3, <1>7, <1>8
<1>10. /\ pc'[p] = l
       /\ \A q \in Threads \ {p} : pc'[q] = pc[q] /\ todo'[q] = todo[q]
    BY <1>2, <1>3, <1>7
<1>11. \A q \in Team : q \in Threads
    BY <1>2, OwnBounds DEF Control, Team
<1>12. \A q \in Team : \A s \in Mine(q) :
          /\ Computed(q, s)' <=> Computed(q, s)
          /\ phase = "compute" => (Published(q, s)' <=> Published(q, s))
          /\ Missing(q, s)' = Missing(q, s)
    <2>1. ASSUME NEW s \in Mine(p)
          PROVE  /\ Computed(p, s)' <=> Computed(p, s)
                 /\ phase = "compute" => (Published(p, s)' <=> Published(p, s))
                 /\ Missing(p, s)' = Missing(p, s)
        <3>1. Computed(p, s)' <=> Computed(p, s)
            BY <1>1, <1>7, <1>10 DEF Computed
        <3>2. phase = "compute" => (Published(p, s)' <=> Published(p, s))
            BY <1>1, <1>7, <1>10 DEF Published
        <3>3. (Summing' <=> Summing) /\ AllParts' = AllParts
            BY <1>1, Frame, SameCall
        <3>4. ASSUME l = "next" PROVE Missing(p, s)' = Missing(p, s)
            <4>1. Range(todo'[p]) = AllParts
                BY <1>2, <1>3, <1>7, <1>8, <3>4
            <4>. QED BY <1>1, <1>10, <3>3, <3>4, <4>1 DEF Missing
        <3>5. ASSUME l # "next" PROVE Missing(p, s)' = Missing(p, s)
            BY <1>1, <1>7, <1>10, <3>3, <3>5 DEF Missing
        <3>. QED BY <3>1, <3>2, <3>4, <3>5
    <2>2. ASSUME NEW q \in Team \ {p}, NEW s
          PROVE  /\ Computed(q, s)' <=> Computed(q, s)
                 /\ Published(q, s)' <=> Published(q, s)
                 /\ Missing(q, s)' = Missing(q, s)
        BY <1>1, <1>10, <1>11, Frame
    <2>. QED BY <2>1, <2>2
<1>13. Control'
    BY <1>1, <1>2, <1>3, <1>9, KeepsControl DEF Control
<1>14. Places'
    <2>1. ASSUME NEW q \in Team
          PROVE  /\ First(q, team) <= ithr'[q] /\ ithr'[q] <= Last(q, team)
                 /\ pc'[q] \in {"gemm", "publish", "next", "adding"} => ithr'[q] \in Mine(q)
                 /\ pc'[q] = "done" => \A s \in Mine(q) : s < ithr'[q]
                 /\ pc'[q] \in {"gemm", "publish"} => phase = "compute"
                 /\ pc'[q] \in {"publish", "next", "adding"} => Summing
                 /\ pc'[q] = "adding" => todo'[q] # <<>>
        <3>1. CASE q = p
            BY <1>1, <1>4, <1>5, <1>6, <1>7, <1>10, <3>1 DEF Summing
        <3>2. CASE q # p
            BY <1>1, <1>10, <1>11, <3>2 DEF IInv, Places
        <3>. QED BY <3>1, <3>2
    <2>. QED BY <1>1, <2>1, Primed
<1>15. Products'
    <2>. SUFFICES ASSUME NEW q \in Team, NEW s \in Mine(q)
                  PROVE  /\ PartOf(s) # 0 =>
                              (<<BlockOf(s), PartOf(s)>> \in ready' <=> Computed(q, s)')
                         /\ PartOf(s) = 0 => \A j \in Cols(BlockOf(s)) :
                              C'[BlockOf(s)][j][0] = IF Computed(q, s)' THEN 1 ELSE 0
        BY <1>1, Primed
    <2>1. Computed(q, s)' <=> Computed(q, s)
        BY <1>12
    <2>. QED BY <1>1, <2>1 DEF IInv, Products
<1>16. Flags'
    BY <1>1, <1>12, Primed DEF IInv, Flags
<1>17. Sums'
    BY <1>1, <1>12, Primed DEF IInv, Sums
<1>18. Reads'
    BY <1>1, <1>7, <1>10, <1>11, Primed, AtShare DEF IInv, Reads
<1>19. Waits'
    <2>. SUFFICES ASSUME phase = "compute", Summing, NEW q \in Team
                  PROVE  /\ \A s \in Mine(q) : s < ithr'[q] => flag'[<<BlockOf(s), 0>>] = 1
                         /\ pc'[q] = "next" =>
                              \/ flag'[<<BlockOf(ithr'[q]), 0>>] = 1
                              \/ /\ todo'[q] # <<>> /\ Head(todo'[q]) = PartOf(ithr'[q])
                                 /\ Missing(q, ithr[q])' = AllParts
                         /\ pc'[q] = "adding" =>
                              /\ flag'[<<BlockOf(ithr'[q]), 0>>] = 1
                              /\ <<BlockOf(ithr'[q]), Head(todo'[q])>> \in ready'
        BY <1>1, Primed
    <2>1. CASE q = p
        BY <1>1, <1>7, <1>10, <2>1 DEF IInv, Waits
    <2>2. CASE q # p
        <3>1. pc'[q] = pc[q] /\ todo'[q] = todo[q]
            BY <1>10, <1>11, <2>2
        <3>2. Missing(q, ithr[q])' = Missing(q, ithr[q])
            BY <1>1, <3>1, Frame DEF Missing
        <3>. QED BY <1>1, <3>1, <3>2, AtShare DEF IInv, Waits
    <2>. QED BY <2>1, <2>2
<1>20. SumIsComplete'
    BY <1>1 DEF SumIsComplete
<1>. QED BY <1>13, <1>14, <1>15, <1>16, <1>17, <1>18, <1>19, <1>20 DEF IInv

LEMMA Setting ==
    ASSUME Control
    PROVE  /\ call \in Problems /\ pc \in [Threads -> Labels]
           /\ ithr \in [Threads -> 0 .. nthr] /\ todo \in [Threads -> Lists]
           /\ nthr \in Nat /\ nthr_k \in Nat \ {0}
           /\ \A q \in Team : q \in Threads
           /\ \A q \in Team : /\ First(q, team) \in Nat /\ Last(q, team) \in Nat
                              /\ Last(q, team) <= nthr
<1>1. call \in Problems /\ team \in Teams
    BY DEF Control
<1>2. \A q \in Team : /\ q \in Threads /\ First(q, team) \in Nat /\ Last(q, team) \in Nat
                      /\ Last(q, team) <= nthr
    BY <1>1, OwnBounds DEF Team
<1>. QED BY <1>1, <1>2, CallFacts DEF Control, Labels

\* As long as a thread is at part 0 of a block, nobody adds to the block.
LEMMA NobodyAdds ==
    ASSUME IInv, NEW p \in Team, pc[p] = "gemm", Part(p) = 0,
           NEW q \in Team, NEW s \in Mine(q), BlockOf(s) = Block(p)
    PROVE  /\ Missing(q, s) = AllParts
           /\ ~(pc[q] = "adding" /\ ithr[q] = s)
<1>. DEFINE u == ithr[p]
<1>1. /\ Control /\ u \in Mine(p) /\ phase = "compute"
      /\ BlockOf(u) = BlockOf(s) /\ PartOf(u) = 0
    BY AtShare DEF IInv, Places
<1>2. CASE ~Summing
    BY <1>2 DEF Missing, IInv, Places
<1>3. CASE Summing
    <2>1. u \in Nat /\ s \in Nat
        BY <1>1, MineFacts
    <2>2. ~Published(p, u)
        BY <2>1 DEF Published
    <2>3. flag[<<BlockOf(s), 0>>] # 1
        BY <1>1, <2>2 DEF IInv, Flags
    <2>4. ~(s < ithr[q])
        BY <1>1, <1>3, <2>3 DEF IInv, Waits
    <2>5. ASSUME ithr[q] = s PROVE pc[q] # "adding"
        BY <1>1, <1>3, <2>3, <2>5, AtShare DEF IInv, Waits
    <2>6. ASSUME ithr[q] = s, pc[q] = "next" PROVE Missing(q, s) = AllParts
        BY <1>1, <1>3, <2>3, <2>6, AtShare DEF IInv, Waits
    <2>7. Missing(q, s) = AllParts
        <3>1. CASE ithr[q] = s /\ pc[q] = "next"
            BY <2>6, <3>1
        <3>2. CASE ~(ithr[q] = s /\ pc[q] = "next")
            BY <1>3, <2>4, <2>5, <3>2 DEF Missing
        <3>. QED BY <3>1, <3>2
    <2>. QED BY <2>5, <2>7
<1>. QED BY <1>2, <1>3

\* Part 0 overwrites a column.
LEMMA Overwritten ==
    /\ [Nothing EXCEPT ![0] = 1] \in [Parts -> 0 .. 1]
    /\ \A k \in Parts : [Nothing EXCEPT ![0] = 1][k] = IF k = 0 THEN 1 ELSE 0
<1>1. [Nothing EXCEPT ![0] = 1] = [k \in Parts |-> IF k = 0 THEN 1 ELSE 0]
    BY DEF Nothing
<1>2. [k \in Parts |-> IF k = 0 THEN 1 ELSE 0] \in [Parts -> 0 .. 1]
    OBVIOUS
<1>. QED BY <1>1, <1>2

LEMMA GemmMoves ==
    ASSUME IInv, phase # "returned", NEW p \in Team, Gemm(p)
    PROVE  /\ Control' /\ Places' /\ ~Computed(p, ithr[p])
           /\ \A q \in Team : \A s \in Mine(q) :
                 /\ Computed(q, s)' <=> Computed(q, s) \/ (q = p /\ s = ithr[p])
                 /\ Summing => (Published(q, s)' <=> Published(q, s))
                 /\ Missing(q, s)' = Missing(q, s)
<1>. DEFINE u == ithr[p]
<1>1. call' = call /\ team' = team /\ phase' = phase /\ seen' = seen
      /\ flag' = flag /\ pc[p] = "gemm"
    BY DEF Gemm
<1>2. /\ Control /\ p \in Threads /\ pc \in [Threads -> Labels]
      /\ ithr \in [Threads -> 0 .. nthr] /\ todo \in [Threads -> Lists]
      /\ nthr \in Nat /\ nthr_k \in Nat \ {0}
      /\ First(p, team) \in Nat /\ Last(p, team) \in Nat /\ Last(p, team) <= nthr
    BY Setting DEF IInv
<1>3. phase = "compute" /\ u \in Mine(p)
    BY <1>1 DEF IInv, Places
<1>4. u \in Nat /\ First(p, team) <= u /\ u < Last(p, team) /\ HasWork(p)
      /\ Block(p) \in Blocks /\ Part(p) \in Parts
    BY <1>2, <1>3, MineFacts, AtShare DEF HasWork
<1>5. PICK l \in {"fetch", "publish"} :
         /\ pc' = [pc EXCEPT ![p] = l] /\ todo' = todo
         /\ l = "fetch" => ~Summing /\ ithr' = [ithr EXCEPT ![p] = u + 1]
         /\ l = "publish" => Summing /\ ithr' = ithr
    <2>1. CASE nthr_k = 1 \/ sum_later(team)
        BY <1>2, <1>3, <2>1 DEF Gemm, Advance, Goto, Summing
    <2>2. CASE ~(nthr_k = 1 \/ sum_later(team))
        BY <1>2, <1>3, <1>4, <2>2 DEF Gemm, Goto, Summing
    <2>. QED BY <2>1, <2>2
<1>6. u + 1 \in 0 .. nthr
    BY <1>2, <1>4
<1>7. /\ pc' \in [Threads -> Labels] /\ ithr' \in [Threads -> 0 .. nthr]
      /\ pc'[p] = l /\ ithr'[p] = (IF Summing THEN u ELSE u + 1)
      /\ \A q \in Team \ {p} : pc'[q] = pc[q] /\ ithr'[q] = ithr[q]
    BY <1>2, <1>5, <1>6, Setting DEF Labels
<1>8. /\ ready' \subseteq Blocks \X Parts /\ DOMAIN C' = Blocks
      /\ \A b \in Blocks : C'[b] \in [Cols(b) -> [Parts -> 0 .. 1]]
    <2>1. /\ ready \subseteq Blocks \X Parts /\ DOMAIN C = Blocks
          /\ \A b \in Blocks : C[b] \in [Cols(b) -> [Parts -> 0 .. 1]]
        BY <1>2 DEF Control
    <2>2. CASE Part(p) = 0
        <3>1. /\ ready' = ready
              /\ C' = [C EXCEPT ![Block(p)] =
                          [j \in Cols(Block(p)) |-> [Nothing EXCEPT ![0] = 1]]]
            BY <1>4, <2>2 DEF Gemm
        <3>2. [Nothing EXCEPT ![0] = 1] \in [Parts -> 0 .. 1]
            BY Overwritten
        <3>3. [j \in Cols(Block(p)) |-> [Nothing EXCEPT ![0] = 1]]
                 \in [Cols(Block(p)) -> [Parts -> 0 .. 1]]
            BY <3>2
        <3>. QED BY <1>4, <2>1, <3>1, <3>3
    <2>3. CASE Part(p) # 0
        BY <1>4, <2>1, <2>3 DEF Gemm
    <2>. QED BY <2>2, <2>3
<1>9. Control'
    BY <1>1, <1>2, <1>5, <1>7, <1>8, KeepsControl DEF Control
<1>10. Places'
    <2>1. ASSUME NEW q \in Team
          PROVE  /\ First(q, team) <= ithr'[q] /\ ithr'[q] <= Last(q, team)
                 /\ pc'[q] \in {"gemm", "publish", "next", "adding"} => ithr'[q] \in Mine(q)
                 /\ pc'[q] = "done" => \A s \in Mine(q) : s < ithr'[q]
                 /\ pc'[q] \in {"gemm", "publish"} => phase = "compute"
                 /\ pc'[q] \in {"publish", "next", "adding"} => Summing
                 /\ pc'[q] = "adding" => todo'[q] # <<>>
        <3>1. CASE q = p
            BY <1>2, <1>3, <1>4, <1>5, <1>7, <3>1
        <3>2. CASE q # p
            BY <1>5, <1>7, <3>2 DEF IInv, Places
        <3>. QED BY <3>1, <3>2
    <2>. QED BY <1>1, <2>1, Primed
<1>11. ASSUME NEW s \in Mine(p)
       PROVE  /\ Computed(p, s)' <=> Computed(p, s) \/ s = u
              /\ Summing => (Published(p, s)' <=> Published(p, s))
              /\ Missing(p, s)' = Missing(p, s)
    <2>1. s \in Nat
        BY <1>2, MineFacts
    <2>2. Computed(p, s)' <=> Computed(p, s) \/ s = u
        <3>1. s < u + 1 <=> s < u \/ s = u
            BY <1>4, <2>1
        <3>. QED BY <1>1, <1>3, <1>5, <1>7, <3>1 DEF Computed
    <2>3. Summing => (Published(p, s)' <=> Published(p, s))
        BY <1>1, <1>5, <1>7 DEF Published
    <2>4. (Summing' <=> Summing) /\ AllParts' = AllParts
        BY <1>1, Frame, SameCall
    <2>5. Missing(p, s)' = Missing(p, s)
        BY <1>1, <1>5, <1>7, <2>4 DEF Missing
    <2>. QED BY <2>2, <2>3, <2>5
<1>12. ASSUME NEW q \in Team \ {p}, NEW s
       PROVE  /\ Computed(q, s)' <=> Computed(q, s)
              /\ Published(q, s)' <=> Published(q, s)
              /\ Missing(q, s)' = Missing(q, s)
    BY <1>1, <1>5, <1>7, Frame
<1>13. ~Computed(p, u)
    BY <1>1, <1>3, <1>4 DEF Computed
<1>. QED BY <1>9, <1>10, <1>11, <1>12, <1>13

LEMMA GemmKeeps ==
    ASSUME IInv, phase # "returned", NEW p \in Team, Gemm(p)
    PROVE  IInv'
<1>. DEFINE u == ithr[p]
            b == BlockOf(u)
<1>1. call' = call /\ team' = team /\ phase' = phase /\ seen' = seen
      /\ flag' = flag /\ pc[p] = "gemm"
    BY DEF Gemm
<1>2. Control /\ phase = "compute" /\ u \in Mine(p)
    BY <1>1 DEF IInv, Places
<1>3. /\ Control' /\ Places' /\ ~Computed(p, u)
      /\ \A q \in Team : \A s \in Mine(q) :
            /\ Computed(q, s)' <=> Computed(q, s) \/ (q = p /\ s = u)
            /\ Summing => (Published(q, s)' <=> Published(q, s))
            /\ Missing(q, s)' = Missing(q, s)
    BY GemmMoves
<1>4. /\ Block(p) = b /\ Part(p) = PartOf(u) /\ b \in Blocks /\ PartOf(u) \in Parts
      /\ HasWork(p)
    BY <1>2, MineFacts, AtShare DEF HasWork
<1>5. /\ DOMAIN C = Blocks /\ \A c \in Blocks : C[c] \in [Cols(c) -> [Parts -> 0 .. 1]]
      /\ nthr_k \in Nat \ {0} /\ AllParts \subseteq Parts
    BY <1>2, Setting DEF Control, AllParts, Parts
<1>6. ASSUME Part(p) = 0
      PROVE  Products' /\ Sums' /\ Reads' /\ ready \subseteq ready'
    <2>1. ready' = ready /\ \A c \in Blocks : c # b => C'[c] = C[c]
        BY <1>4, <1>5, <1>6 DEF Gemm
    <2>2. \A j \in Cols(b) : \A k \in Parts : C'[b][j][k] = IF k = 0 THEN 1 ELSE 0
        <3>1. C'[b] = [j \in Cols(b) |-> [Nothing EXCEPT ![0] = 1]]
            BY <1>4, <1>5, <1>6 DEF Gemm
        <3>. QED BY <3>1, Overwritten
    <2>3. Products'
        <3>. SUFFICES ASSUME NEW q \in Team, NEW s \in Mine(q)
                      PROVE  /\ PartOf(s) # 0 =>
                                  (<<BlockOf(s), PartOf(s)>> \in ready' <=> Computed(q, s)')
                             /\ PartOf(s) = 0 => \A j \in Cols(BlockOf(s)) :
                                  C'[BlockOf(s)][j][0] = IF Computed(q, s)' THEN 1 ELSE 0
            BY <1>1, Primed
        <3>1. BlockOf(s) \in Blocks
            BY <1>2, MineFacts
        <3>2. /\ PartOf(s) # 0 => (<<BlockOf(s), PartOf(s)>> \in ready <=> Computed(q, s))
              /\ PartOf(s) = 0 => \A j \in Cols(BlockOf(s)) :
                    C[BlockOf(s)][j][0] = IF Computed(q, s) THEN 1 ELSE 0
            BY <1>2 DEF IInv, Products
        <3>3. CASE q = p /\ s = u
            <4>1. PartOf(s) = 0 /\ Computed(q, s)' /\ BlockOf(s) = b /\ 0 \in Parts
                BY <1>3, <1>4, <1>6, <3>3
            <4>. QED BY <2>2, <4>1
        <3>4. CASE ~(q = p /\ s = u)
            <4>1. Computed(q, s)' <=> Computed(q, s)
                BY <1>3, <3>4
            <4>2. PartOf(s) = 0 => BlockOf(s) # b
                BY <1>2, <1>4, <1>6, <3>4, OneOwner
            <4>. QED BY <2>1, <3>1, <3>2, <4>1, <4>2
        <3>. QED BY <3>3, <3>4
    <2>4. Sums'
        <3>. SUFFICES ASSUME NEW q \in Team, NEW s \in Mine(q), NEW j \in Strip(s),
                             NEW k \in AllParts
                      PROVE  C'[BlockOf(s)][j][k] = IF k \in Missing(q, s)' THEN 0 ELSE 1
            BY <1>1, Primed
        <3>1. BlockOf(s) \in Blocks /\ j \in Cols(BlockOf(s)) /\ k \in Parts /\ k # 0
            BY <1>2, <1>5, MineFacts DEF AllParts
        <3>2. Missing(q, s)' = Missing(q, s)
            BY <1>3
        <3>3. CASE BlockOf(s) = b
            <4>1. Missing(q, s) = AllParts
                BY <1>1, <1>4, <1>6, <3>3, NobodyAdds
            <4>. QED BY <2>2, <3>1, <3>2, <3>3, <4>1
        <3>4. CASE BlockOf(s) # b
            BY <1>2, <2>1, <3>1, <3>2, <3>4 DEF IInv, Sums
        <3>. QED BY <3>3, <3>4
    <2>5. Reads'
        <3>. SUFFICES ASSUME NEW q \in Team, pc'[q] = "adding", NEW j \in Strip(ithr'[q])
                      PROVE  seen'[q][j] = C'[BlockOf(ithr'[q])][j]
            BY <1>1, Primed
        <3>1. q # p /\ pc[q] = "adding" /\ ithr'[q] = ithr[q]
            BY <1>1, <1>2, Setting DEF Gemm, Goto, Advance
        <3>2. ithr[q] \in Mine(q)
            BY <3>1 DEF IInv, Places
        <3>3. BlockOf(ithr[q]) \in Blocks /\ BlockOf(ithr[q]) # b
            BY <1>1, <1>2, <1>4, <1>6, <3>1, <3>2, MineFacts, NobodyAdds
        <3>. QED BY <1>1, <2>1, <3>1, <3>3, AtShare DEF IInv, Reads
    <2>. QED BY <2>1, <2>3, <2>4, <2>5
<1>7. ASSUME Part(p) # 0
      PROVE  Products' /\ Sums' /\ Reads' /\ ready \subseteq ready'
    <2>1. C' = C /\ ready' = ready \cup {<<b, PartOf(u)>>}
        BY <1>4, <1>7 DEF Gemm
    <2>2. Products'
        <3>. SUFFICES ASSUME NEW q \in Team, NEW s \in Mine(q)
                      PROVE  /\ PartOf(s) # 0 =>
                                  (<<BlockOf(s), PartOf(s)>> \in ready' <=> Computed(q, s)')
                             /\ PartOf(s) = 0 => \A j \in Cols(BlockOf(s)) :
                                  C'[BlockOf(s)][j][0] = IF Computed(q, s)' THEN 1 ELSE 0
            BY <1>1, Primed
        <3>1. /\ PartOf(s) # 0 => (<<BlockOf(s), PartOf(s)>> \in ready <=> Computed(q, s))
              /\ PartOf(s) = 0 => \A j \in Cols(BlockOf(s)) :
                    C[BlockOf(s)][j][0] = IF Computed(q, s) THEN 1 ELSE 0
            BY <1>2 DEF IInv, Products
        <3>2. CASE q = p /\ s = u
            <4>1. PartOf(s) # 0 /\ Computed(q, s)'
                BY <1>3, <1>4, <1>7, <3>2
            <4>. QED BY <2>1, <3>2, <4>1
        <3>3. CASE ~(q = p /\ s = u)
            <4>1. Computed(q, s)' <=> Computed(q, s)
                BY <1>3, <3>3
            <4>2. <<BlockOf(s), PartOf(s)>> # <<b, PartOf(u)>>
                BY <1>2, <3>3, OneOwner
            <4>. QED BY <2>1, <3>1, <4>1, <4>2
        <3>. QED BY <3>2, <3>3
    <2>3. Sums'
        <3>. SUFFICES ASSUME NEW q \in Team, NEW s \in Mine(q), NEW j \in Strip(s),
                             NEW k \in AllParts
                      PROVE  C'[BlockOf(s)][j][k] = IF k \in Missing(q, s)' THEN 0 ELSE 1
            BY <1>1, Primed
        <3>1. Missing(q, s)' = Missing(q, s)
            BY <1>3
        <3>. QED BY <1>2, <2>1, <3>1 DEF IInv, Sums
    <2>4. Reads'
        <3>. SUFFICES ASSUME NEW q \in Team, pc'[q] = "adding", NEW j \in Strip(ithr'[q])
                      PROVE  seen'[q][j] = C'[BlockOf(ithr'[q])][j]
            BY <1>1, Primed
        <3>1. q # p /\ pc[q] = "adding" /\ ithr'[q] = ithr[q]
            BY <1>1, <1>2, Setting DEF Gemm, Goto, Advance
        <3>. QED BY <1>1, <2>1, <3>1, AtShare DEF IInv, Reads
    <2>. QED BY <2>1, <2>2, <2>3, <2>4
<1>8. Flags'
    <2>. SUFFICES ASSUME NEW q \in Team, NEW s \in Mine(q)
                  PROVE  flag'[<<BlockOf(s), PartOf(s)>>] = 1 <=> Summing /\ Published(q, s)'
        BY <1>1, Primed
    <2>1. Summing => (Published(q, s)' <=> Published(q, s))
        BY <1>3
    <2>. QED BY <1>1, <1>2, <2>1 DEF IInv, Flags
<1>9. Waits'
    <2>. SUFFICES ASSUME phase = "compute", Summing, NEW q \in Team
                  PROVE  /\ \A s \in Mine(q) : s < ithr'[q] => flag'[<<BlockOf(s), 0>>] = 1
                         /\ pc'[q] = "next" =>
                              \/ flag'[<<BlockOf(ithr'[q]), 0>>] = 1
                              \/ /\ todo'[q] # <<>> /\ Head(todo'[q]) = PartOf(ithr'[q])
                                 /\ Missing(q, ithr[q])' = AllParts
                         /\ pc'[q] = "adding" =>
                              /\ flag'[<<BlockOf(ithr'[q]), 0>>] = 1
                              /\ <<BlockOf(ithr'[q]), Head(todo'[q])>> \in ready'
        BY <1>1, Primed
    <2>1. pc' = [pc EXCEPT ![p] = "publish"] /\ ithr' = ithr /\ todo' = todo
        BY <1>4, <1>5 DEF Gemm, Goto, Summing
    <2>2. pc'[q] \in {"next", "adding"} =>
              q # p /\ pc'[q] = pc[q] /\ Missing(q, ithr[q])' = Missing(q, ithr[q])
        BY <1>1, <1>2, <2>1, Setting, Frame
    <2>3. ready \subseteq ready'
        BY <1>6, <1>7
    <2>. QED BY <1>1, <2>1, <2>2, <2>3, AtShare DEF IInv, Waits
<1>10. SumIsComplete'
    BY <1>1 DEF SumIsComplete
<1>. QED BY <1>3, <1>6, <1>7, <1>8, <1>9, <1>10 DEF IInv

LEMMA PublishKeeps ==
    ASSUME IInv, phase # "returned", NEW p \in Team, Publish(p)
    PROVE  IInv'
<1>. DEFINE u == ithr[p]
            b == BlockOf(u)
<1>1. /\ call' = call /\ team' = team /\ phase' = phase /\ seen' = seen
      /\ ithr' = ithr /\ ready' = ready /\ C' = C /\ pc[p] = "publish"
      /\ pc' = [pc EXCEPT ![p] = "next"] /\ todo' = [todo EXCEPT ![p] = Additions(p)]
    BY DEF Publish, Goto
<1>2. /\ Control /\ p \in Threads /\ pc \in [Threads -> Labels]
      /\ todo \in [Threads -> Lists] /\ nthr_k \in Nat \ {0}
      /\ call \in Problems /\ \A q \in Team : q \in Threads
    BY Setting DEF IInv
<1>3. phase = "compute" /\ Summing /\ u \in Mine(p) /\ nthr_k > 1
    BY <1>1 DEF IInv, Places, Summing
<1>4. Block(p) = b /\ Part(p) = PartOf(u) /\ b \in Blocks /\ PartOf(u) \in Parts /\ u \in Nat
    BY <1>2, <1>3, MineFacts, AtShare
<1>5. /\ Additions(p) \in Lists /\ Range(Additions(p)) = AllParts /\ Additions(p) # <<>>
      /\ PartOf(u) # 0 => Head(Additions(p)) = PartOf(u)
    BY <1>2, <1>3, <1>4, AdditionsFacts
<1>6. /\ pc' \in [Threads -> Labels] /\ todo' \in [Threads -> Lists]
      /\ pc'[p] = "next" /\ todo'[p] = Additions(p)
      /\ \A q \in Team \ {p} : pc'[q] = pc[q] /\ todo'[q] = todo[q]
    BY <1>1, <1>2, <1>5 DEF Labels
<1>7. /\ flag' \in [Blocks \X Parts -> 0 .. 1] /\ flag'[<<b, PartOf(u)>>] = 1
      /\ \A c \in Blocks : \A k \in Parts :
            <<c, k>> # <<b, PartOf(u)>> => flag'[<<c, k>>] = flag[<<c, k>>]
    <2>1. flag \in [Blocks \X Parts -> 0 .. 1] /\ <<b, PartOf(u)>> \in Blocks \X Parts
        BY <1>2, <1>4 DEF Control
    <2>2. flag' = [flag EXCEPT ![<<b, PartOf(u)>>] = 1]
        BY <1>4 DEF Publish
    <2>. QED BY <2>1, <2>2
<1>8. \A q \in Team : \A s \in Mine(q) :
          /\ Computed(q, s)' <=> Computed(q, s)
          /\ Published(q, s)' <=> Published(q, s) \/ (q = p /\ s = u)
          /\ Missing(q, s)' = Missing(q, s)
    <2>1. ASSUME NEW s \in Mine(p)
          PROVE  /\ Computed(p, s)' <=> Computed(p, s)
                 /\ Published(p, s)' <=> Published(p, s) \/ s = u
                 /\ Missing(p, s)' = Missing(p, s)
        <3>1. Computed(p, s)' <=> Computed(p, s)
            BY <1>1, <1>6 DEF Computed
        <3>2. Published(p, s)' <=> Published(p, s) \/ s = u
            BY <1>1, <1>6 DEF Published
        <3>3. (Summing' <=> Summing) /\ AllParts' = AllParts
            BY <1>1, Frame, SameCall
        <3>4. Missing(p, s)' = Missing(p, s)
            BY <1>1, <1>5, <1>6, <3>3 DEF Missing
        <3>. QED BY <3>1, <3>2, <3>4
    <2>2. ASSUME NEW q \in Team \ {p}, NEW s
          PROVE  /\ Computed(q, s)' <=> Computed(q, s)
                 /\ Published(q, s)' <=> Published(q, s)
                 /\ Missing(q, s)' = Missing(q, s)
        BY <1>1, <1>6, Frame
    <2>. QED BY <2>1, <2>2
<1>9. Control'
    BY <1>1, <1>2, <1>6, <1>7, KeepsControl DEF Control
<1>10. Places'
    <2>. SUFFICES ASSUME NEW q \in Team
                  PROVE  /\ First(q, team) <= ithr'[q] /\ ithr'[q] <= Last(q, team)
                         /\ pc'[q] \in {"gemm", "publish", "next", "adding"} => ithr'[q] \in Mine(q)
                         /\ pc'[q] = "done" => \A s \in Mine(q) : s < ithr'[q]
                         /\ pc'[q] \in {"gemm", "publish"} => phase = "compute"
                         /\ pc'[q] \in {"publish", "next", "adding"} => Summing
                         /\ pc'[q] = "adding" => todo'[q] # <<>>
        BY <1>1, Primed
    <2>1. CASE q = p
        BY <1>1, <1>3, <1>6, <2>1 DEF IInv, Places
    <2>2. CASE q # p
        BY <1>1, <1>6, <2>2 DEF IInv, Places
    <2>. QED BY <2>1, <2>2
<1>11. Products'
    <2>. SUFFICES ASSUME NEW q \in Team, NEW s \in Mine(q)
                  PROVE  /\ PartOf(s) # 0 =>
                              (<<BlockOf(s), PartOf(s)>> \in ready' <=> Computed(q, s)')
                         /\ PartOf(s) = 0 => \A j \in Cols(BlockOf(s)) :
                              C'[BlockOf(s)][j][0] = IF Computed(q, s)' THEN 1 ELSE 0
        BY <1>1, Primed
    <2>1. Computed(q, s)' <=> Computed(q, s)
        BY <1>8
    <2>. QED BY <1>1, <1>3, <2>1 DEF IInv, Products
<1>12. Flags'
    <2>. SUFFICES ASSUME NEW q \in Team, NEW s \in Mine(q)
                  PROVE  flag'[<<BlockOf(s), PartOf(s)>>] = 1 <=> Summing /\ Published(q, s)'
        BY <1>1, Primed
    <2>1. CASE q = p /\ s = u
        BY <1>3, <1>7, <1>8, <2>1
    <2>2. CASE ~(q = p /\ s = u)
        <3>1. <<BlockOf(s), PartOf(s)>> # <<b, PartOf(u)>>
            BY <1>2, <1>3, <2>2, OneOwner
        <3>2. flag'[<<BlockOf(s), PartOf(s)>>] = flag[<<BlockOf(s), PartOf(s)>>]
            BY <1>2, <1>7, <3>1, MineFacts
        <3>3. Published(q, s)' <=> Published(q, s)
            BY <1>8, <2>2
        <3>. QED BY <1>3, <3>2, <3>3 DEF IInv, Flags
    <2>. QED BY <2>1, <2>2
<1>13. Sums'
    <2>. SUFFICES ASSUME NEW q \in Team, NEW s \in Mine(q), NEW j \in Strip(s), NEW k \in AllParts
                  PROVE  C'[BlockOf(s)][j][k] = IF k \in Missing(q, s)' THEN 0 ELSE 1
        BY <1>1, Primed
    <2>1. Missing(q, s)' = Missing(q, s)
        BY <1>8
    <2>. QED BY <1>1, <1>3, <2>1 DEF IInv, Sums
<1>14. Reads'
    <2>. SUFFICES ASSUME NEW q \in Team, pc'[q] = "adding", NEW j \in Strip(ithr'[q])
                  PROVE  seen'[q][j] = C'[BlockOf(ithr'[q])][j]
        BY <1>1, Primed
    <2>1. pc[q] = "adding"
        BY <1>6
    <2>. QED BY <1>1, <2>1, AtShare DEF IInv, Reads
<1>15. Waits'
    <2>. SUFFICES ASSUME NEW q \in Team
                  PROVE  /\ \A s \in Mine(q) : s < ithr'[q] => flag'[<<BlockOf(s), 0>>] = 1
                         /\ pc'[q] = "next" =>
                              \/ flag'[<<BlockOf(ithr'[q]), 0>>] = 1
                              \/ /\ todo'[q] # <<>> /\ Head(todo'[q]) = PartOf(ithr'[q])
                                 /\ Missing(q, ithr[q])' = AllParts
                         /\ pc'[q] = "adding" =>
                              /\ flag'[<<BlockOf(ithr'[q]), 0>>] = 1
                              /\ <<BlockOf(ithr'[q]), Head(todo'[q])>> \in ready'
        BY <1>1, Primed
    <2>1. \A c \in Blocks : flag[<<c, 0>>] = 1 => flag'[<<c, 0>>] = 1
        BY <1>2, <1>7 DEF Parts
    <2>2. \A s \in Mine(q) : s < ithr'[q] => flag'[<<BlockOf(s), 0>>] = 1
        <3>1. \A s \in Mine(q) : BlockOf(s) \in Blocks
            BY <1>2, MineFacts
        <3>. QED BY <1>1, <1>3, <2>1, <3>1 DEF IInv, Waits
    <2>3. CASE q = p
        <3>1. CASE PartOf(u) = 0
            BY <1>1, <1>6, <1>7, <2>2, <2>3, <3>1
        <3>2. CASE PartOf(u) # 0
            <4>1. Summing' /\ AllParts' = AllParts
                BY <1>1, <1>3, Frame, SameCall
            <4>2. Missing(p, ithr[p])' = AllParts
                BY <1>1, <1>4, <1>5, <1>6, <4>1 DEF Missing
            <4>. QED BY <1>1, <1>5, <1>6, <2>2, <2>3, <3>2, <4>2
        <3>. QED BY <3>1, <3>2
    <2>4. CASE q # p
        <3>1. pc'[q] = pc[q] /\ todo'[q] = todo[q]
            BY <1>6, <2>4
        <3>2. Missing(q, ithr[q])' = Missing(q, ithr[q])
            BY <1>1, <3>1, Frame
        <3>3. pc[q] \in {"next", "adding"} => BlockOf(ithr[q]) \in Blocks
            BY <1>2, MineFacts DEF IInv, Places
        <3>. QED BY <1>1, <1>3, <2>1, <2>2, <3>1, <3>2, <3>3, AtShare DEF IInv, Waits
    <2>. QED BY <2>3, <2>4
<1>16. SumIsComplete'
    BY <1>1 DEF SumIsComplete
<1>. QED BY <1>9, <1>10, <1>11, <1>12, <1>13, <1>14, <1>15, <1>16 DEF IInv

\* The second section finds all buffers computed.
LEMMA AllReady ==
    ASSUME IInv, phase = "sum", NEW b \in Blocks, NEW k \in AllParts
    PROVE  <<b, k>> \in ready
<1>1. Control /\ k \in Parts /\ k # 0
    BY Setting DEF IInv, AllParts, Parts
<1>2. PICK q \in Team : \E s \in Mine(q) : BlockOf(s) = b /\ PartOf(s) = k
    BY <1>1, SomeOwner
<1>3. PICK s \in Mine(q) : BlockOf(s) = b /\ PartOf(s) = k
    BY <1>2
<1>4. Computed(q, s)
    BY DEF Computed
<1>. QED BY <1>1, <1>3, <1>4 DEF IInv, Products

\* In the first section, the flags that a thread waits for tell it that part 0
\* is in the block and that the buffer is computed.
LEMMA WaitsEnd ==
    ASSUME IInv, phase # "returned", NEW p \in Team, pc[p] = "next", todo[p] # <<>>, MayAdd(p)
    PROVE  /\ phase = "compute" => flag[<<Block(p), 0>>] = 1
           /\ <<Block(p), Head(todo[p])>> \in ready
<1>. DEFINE u == ithr[p]
            b == BlockOf(u)
            k == Head(todo[p])
<1>1. Control /\ u \in Mine(p) /\ Summing /\ todo \in [Threads -> Lists] /\ p \in Threads
    BY Setting DEF IInv, Places
<1>2. Block(p) = b /\ Part(p) = PartOf(u) /\ b \in Blocks /\ u \in Nat
    BY <1>1, MineFacts, AtShare
<1>3. k \in AllParts /\ k \in Parts /\ k # 0
    <2>1. k \in AllParts
        BY <1>1, ListFacts
    <2>. QED BY <1>1, <2>1, Setting DEF AllParts, Parts
<1>4. CASE phase = "sum"
    BY <1>2, <1>3, <1>4, AllReady
<1>5. CASE phase = "compute" /\ k = Part(p)
    <2>1. flag[<<b, 0>>] = 1
        BY <1>2, <1>5 DEF MayAdd
    <2>2. Computed(p, u)
        BY DEF Computed
    <2>3. <<b, k>> \in ready
        BY <1>1, <1>2, <1>3, <1>5, <2>2 DEF IInv, Products
    <2>. QED BY <1>2, <2>1, <2>3
<1>6. CASE phase = "compute" /\ k # Part(p)
    <2>1. flag[<<b, k>>] = 1
        BY <1>2, <1>6 DEF MayAdd
    <2>2. flag[<<b, 0>>] = 1
        BY <1>1, <1>2, <1>6 DEF IInv, Waits
    <2>3. PICK q \in Team : \E s \in Mine(q) : BlockOf(s) = b /\ PartOf(s) = k
        BY <1>1, <1>2, <1>3, SomeOwner
    <2>4. PICK s \in Mine(q) : BlockOf(s) = b /\ PartOf(s) = k
        BY <2>3
    <2>5. Published(q, s)
        BY <1>6, <2>1, <2>4 DEF IInv, Flags
    <2>6. Computed(q, s)
        BY <2>5 DEF Published, Computed
    <2>7. <<b, k>> \in ready
        BY <1>3, <1>6, <2>4, <2>6 DEF IInv, Products
    <2>. QED BY <1>2, <2>2, <2>7
<1>. QED BY <1>1, <1>4, <1>5, <1>6 DEF Control

LEMMA AddKeeps ==
    ASSUME IInv, phase # "returned", NEW p \in Team, Add(p)
    PROVE  IInv'
<1>. DEFINE u == ithr[p]
<1>1. /\ call' = call /\ team' = team /\ phase' = phase /\ todo' = todo /\ flag' = flag
      /\ ithr' = ithr /\ ready' = ready /\ C' = C /\ pc[p] = "next" /\ todo[p] # <<>>
      /\ pc' = [pc EXCEPT ![p] = "adding"] /\ MayAdd(p)
      /\ seen' = [seen EXCEPT ![p] = [j \in Band(p) |-> C[Block(p)][j]]]
    BY DEF Add, Goto
<1>2. /\ Control /\ p \in Threads /\ pc \in [Threads -> Labels]
      /\ \A q \in Team : q \in Threads
    BY Setting DEF IInv
<1>3. Summing /\ u \in Mine(p)
    BY <1>1 DEF IInv, Places
<1>4. /\ pc' \in [Threads -> Labels] /\ pc'[p] = "adding"
      /\ \A q \in Team \ {p} : pc'[q] = pc[q]
    BY <1>1, <1>2 DEF Labels
<1>5. /\ DOMAIN seen' = Threads /\ seen'[p] = [j \in Band(p) |-> C[Block(p)][j]]
      /\ \A q \in Team \ {p} : seen'[q] = seen[q]
    BY <1>1, <1>2 DEF Control
<1>6. \A q \in Team : \A s :
          /\ Computed(q, s)' <=> Computed(q, s)
          /\ Published(q, s)' <=> Published(q, s)
          /\ Missing(q, s)' = Missing(q, s)
    <2>1. ASSUME NEW s
          PROVE  /\ Computed(p, s)' <=> Computed(p, s)
                 /\ Published(p, s)' <=> Published(p, s)
                 /\ Missing(p, s)' = Missing(p, s)
        <3>1. (Computed(p, s)' <=> Computed(p, s)) /\ (Published(p, s)' <=> Published(p, s))
            BY <1>1, <1>4 DEF Computed, Published
        <3>2. (Summing' <=> Summing) /\ AllParts' = AllParts
            BY <1>1, Frame, SameCall
        <3>3. Missing(p, s)' = Missing(p, s)
            BY <1>1, <1>4, <3>2 DEF Missing
        <3>. QED BY <3>1, <3>3
    <2>2. ASSUME NEW q \in Team \ {p}, NEW s
          PROVE  /\ Computed(q, s)' <=> Computed(q, s)
                 /\ Published(q, s)' <=> Published(q, s)
                 /\ Missing(q, s)' = Missing(q, s)
        BY <1>1, <1>4, Frame
    <2>. QED BY <2>1, <2>2
<1>7. Control'
    BY <1>1, <1>2, <1>4, <1>5, KeepsControl, Setting DEF Control
<1>8. Places'
    <2>. SUFFICES ASSUME NEW q \in Team
                  PROVE  /\ First(q, team) <= ithr'[q] /\ ithr'[q] <= Last(q, team)
                         /\ pc'[q] \in {"gemm", "publish", "next", "adding"} => ithr'[q] \in Mine(q)
                         /\ pc'[q] = "done" => \A s \in Mine(q) : s < ithr'[q]
                         /\ pc'[q] \in {"gemm", "publish"} => phase = "compute"
                         /\ pc'[q] \in {"publish", "next", "adding"} => Summing
                         /\ pc'[q] = "adding" => todo'[q] # <<>>
        BY <1>1, Primed
    <2>1. CASE q = p
        BY <1>1, <1>3, <1>4, <2>1 DEF IInv, Places
    <2>2. CASE q # p
        BY <1>1, <1>4, <2>2 DEF IInv, Places
    <2>. QED BY <2>1, <2>2
<1>9. Products'
    <2>. SUFFICES ASSUME NEW q \in Team, NEW s \in Mine(q)
                  PROVE  /\ PartOf(s) # 0 =>
                              (<<BlockOf(s), PartOf(s)>> \in ready' <=> Computed(q, s)')
                         /\ PartOf(s) = 0 => \A j \in Cols(BlockOf(s)) :
                              C'[BlockOf(s)][j][0] = IF Computed(q, s)' THEN 1 ELSE 0
        BY <1>1, Primed
    <2>1. Computed(q, s)' <=> Computed(q, s)
        BY <1>6
    <2>. QED BY <1>1, <2>1 DEF IInv, Products
<1>10. Flags'
    <2>. SUFFICES ASSUME phase = "compute", NEW q \in Team, NEW s \in Mine(q)
                  PROVE  flag'[<<BlockOf(s), PartOf(s)>>] = 1 <=> Summing /\ Published(q, s)'
        BY <1>1, Primed
    <2>1. Published(q, s)' <=> Published(q, s)
        BY <1>6
    <2>. QED BY <1>1, <2>1 DEF IInv, Flags
<1>11. Sums'
    <2>. SUFFICES ASSUME NEW q \in Team, NEW s \in Mine(q), NEW j \in Strip(s), NEW k \in AllParts
                  PROVE  C'[BlockOf(s)][j][k] = IF k \in Missing(q, s)' THEN 0 ELSE 1
        BY <1>1, Primed
    <2>1. Missing(q, s)' = Missing(q, s)
        BY <1>6
    <2>. QED BY <1>1, <2>1 DEF IInv, Sums
<1>12. Reads'
    <2>. SUFFICES ASSUME NEW q \in Team, pc'[q] = "adding", NEW j \in Strip(ithr'[q])
                  PROVE  seen'[q][j] = C'[BlockOf(ithr'[q])][j]
        BY <1>1, Primed
    <2>1. CASE q = p
        BY <1>1, <1>5, <2>1, AtShare
    <2>2. CASE q # p
        BY <1>1, <1>4, <1>5, <2>2, AtShare DEF IInv, Reads
    <2>. QED BY <2>1, <2>2
<1>13. Waits'
    <2>. SUFFICES ASSUME phase = "compute", Summing, NEW q \in Team
                  PROVE  /\ \A s \in Mine(q) : s < ithr'[q] => flag'[<<BlockOf(s), 0>>] = 1
                         /\ pc'[q] = "next" =>
                              \/ flag'[<<BlockOf(ithr'[q]), 0>>] = 1
                              \/ /\ todo'[q] # <<>> /\ Head(todo'[q]) = PartOf(ithr'[q])
                                 /\ Missing(q, ithr[q])' = AllParts
                         /\ pc'[q] = "adding" =>
                              /\ flag'[<<BlockOf(ithr'[q]), 0>>] = 1
                              /\ <<BlockOf(ithr'[q]), Head(todo'[q])>> \in ready'
        BY <1>1, Primed
    <2>1. CASE q = p
        <3>1. flag[<<Block(p), 0>>] = 1 /\ <<Block(p), Head(todo[p])>> \in ready
            BY <1>1, WaitsEnd
        <3>. QED BY <1>1, <1>4, <2>1, <3>1, AtShare DEF IInv, Waits
    <2>2. CASE q # p
        <3>1. Missing(q, ithr[q])' = Missing(q, ithr[q])
            BY <1>1, <1>4, <2>2, Frame
        <3>. QED BY <1>1, <1>4, <2>2, <3>1, AtShare DEF IInv, Waits
    <2>. QED BY <2>1, <2>2
<1>14. SumIsComplete'
    BY <1>1 DEF SumIsComplete
<1>. QED BY <1>7, <1>8, <1>9, <1>10, <1>11, <1>12, <1>13, <1>14 DEF IInv

\* The end of an addition puts one part more in each column of a strip.
LEMMA AddEndWrites ==
    ASSUME IInv, phase # "returned", NEW p \in Team, AddEnd(p),
           NEW b, b = BlockOf(ithr[p]), NEW k, k = Head(todo[p])
    PROVE  /\ b \in Blocks /\ k \in AllParts /\ DOMAIN C' = Blocks
           /\ \A c \in Blocks : C'[c] \in [Cols(c) -> [Parts -> 0 .. 1]]
           /\ \A c \in Blocks \ {b} : C'[c] = C[c]
           /\ \A j \in Cols(b) \ Strip(ithr[p]) : C'[b][j] = C[b][j]
           /\ \A j \in Strip(ithr[p]) : \A x \in Parts :
                 C'[b][j][x] = IF x = k THEN 1 ELSE C[b][j][x]
<1>. DEFINE u == ithr[p]
<1>1. /\ Control /\ pc[p] = "adding" /\ u \in Mine(p) /\ Summing /\ todo[p] # <<>>
      /\ todo \in [Threads -> Lists] /\ p \in Threads
    BY Setting DEF AddEnd, IInv, Places
<1>2. /\ Block(p) = b /\ Band(p) = Strip(u) /\ b \in Blocks /\ u \in Nat
      /\ Strip(u) \subseteq Cols(b)
    BY <1>1, MineFacts, AtShare
<1>3. k \in AllParts /\ k \in Range(todo[p])
    BY <1>1, ListFacts
<1>4. k \in Parts /\ AllParts \subseteq Parts
    BY <1>1, <1>3, Setting DEF AllParts, Parts
<1>5. <<b, k>> \in ready
    BY <1>1, <1>2, <1>3, AllReady DEF IInv, Waits, Control
<1>6. \A j \in Strip(u) : seen[p][j] = C[b][j]
    BY <1>1, <1>2 DEF IInv, Reads
<1>7. \A j \in Strip(u) : C[b][j][k] = 0
    <2>1. k \in Missing(p, u)
        BY <1>1, <1>2, <1>3 DEF Missing
    <2>. QED BY <1>1, <1>3, <2>1 DEF IInv, Sums
<1>8. DOMAIN C = Blocks /\ \A c \in Blocks : C[c] \in [Cols(c) -> [Parts -> 0 .. 1]]
    BY <1>1 DEF Control
<1>. DEFINE new == [j \in Cols(b) |-> IF j \in Strip(u) THEN [seen[p][j] EXCEPT ![k] = @ + 1]
                                      ELSE C[b][j]]
<1>9. C' = [C EXCEPT ![b] = new]
    <2>1. DOMAIN C[b] = Cols(b)
        BY <1>2, <1>8
    <2>. QED BY <1>2, <1>5, <2>1 DEF AddEnd
<1>10. ASSUME NEW j \in Strip(u)
       PROVE  /\ new[j] \in [Parts -> 0 .. 1]
              /\ \A x \in Parts : new[j][x] = IF x = k THEN 1 ELSE C[b][j][x]
    <2>1. C[b][j] \in [Parts -> 0 .. 1] /\ C[b][j][k] = 0 /\ j \in Cols(b)
        BY <1>2, <1>7, <1>8
    <2>2. new[j] = [C[b][j] EXCEPT ![k] = @ + 1]
        BY <1>6, <2>1
    <2>. HIDE DEF new
    <2>3. new[j] = [C[b][j] EXCEPT ![k] = 1]
        BY <2>1, <2>2
    <2>. QED BY <1>4, <2>1, <2>3
<1>11. \A j \in Cols(b) \ Strip(u) : new[j] = C[b][j]
    OBVIOUS
<1>12. DOMAIN new = Cols(b) /\ new = [j \in Cols(b) |-> new[j]]
    OBVIOUS
<1>. HIDE DEF new
<1>13. new \in [Cols(b) -> [Parts -> 0 .. 1]]
    <2>1. \A j \in Cols(b) : new[j] \in [Parts -> 0 .. 1]
        BY <1>2, <1>8, <1>10, <1>11
    <2>. QED BY <1>12, <2>1
<1>14. C'[b] = new /\ DOMAIN C' = Blocks /\ \A c \in Blocks \ {b} : C'[c] = C[c]
    BY <1>2, <1>8, <1>9
<1>. QED BY <1>2, <1>3, <1>8, <1>10, <1>11, <1>13, <1>14

LEMMA AddEndKeeps ==
    ASSUME IInv, phase # "returned", NEW p \in Team, AddEnd(p)
    PROVE  IInv'
<1>. DEFINE u == ithr[p]
            b == BlockOf(u)
            k == Head(todo[p])
<1>1. /\ call' = call /\ team' = team /\ phase' = phase /\ flag' = flag
      /\ ithr' = ithr /\ ready' = ready /\ pc[p] = "adding"
      /\ pc' = [pc EXCEPT ![p] = "next"] /\ seen' = [seen EXCEPT ![p] = <<>>]
      /\ todo' = [todo EXCEPT ![p] = Tail(todo[p])]
    BY DEF AddEnd, Goto
<1>2. /\ Control /\ p \in Threads /\ pc \in [Threads -> Labels]
      /\ todo \in [Threads -> Lists] /\ \A q \in Team : q \in Threads
    BY Setting DEF IInv
<1>3. Summing /\ u \in Mine(p) /\ todo[p] # <<>>
    BY <1>1 DEF IInv, Places
<1>4. Block(p) = b /\ u \in Nat
    BY <1>2, <1>3, MineFacts, AtShare
<1>5. /\ b \in Blocks /\ k \in AllParts /\ DOMAIN C' = Blocks
      /\ \A c \in Blocks : C'[c] \in [Cols(c) -> [Parts -> 0 .. 1]]
      /\ \A c \in Blocks \ {b} : C'[c] = C[c]
      /\ \A j \in Cols(b) \ Strip(u) : C'[b][j] = C[b][j]
      /\ \A j \in Strip(u) : \A x \in Parts :
            C'[b][j][x] = IF x = k THEN 1 ELSE C[b][j][x]
    BY AddEndWrites
<1>6. Tail(todo[p]) \in Lists /\ Range(Tail(todo[p])) = Range(todo[p]) \ {k}
    BY <1>2, <1>3, ListFacts
<1>7. /\ pc' \in [Threads -> Labels] /\ todo' \in [Threads -> Lists]
      /\ pc'[p] = "next" /\ todo'[p] = Tail(todo[p])
      /\ \A q \in Team \ {p} : pc'[q] = pc[q] /\ todo'[q] = todo[q] /\ seen'[q] = seen[q]
      /\ DOMAIN seen' = Threads
    BY <1>1, <1>2, <1>6 DEF Labels, Control
<1>8. \A q \in Team : \A s :
          /\ Computed(q, s)' <=> Computed(q, s)
          /\ Published(q, s)' <=> Published(q, s)
          /\ ~(q = p /\ s = u) => Missing(q, s)' = Missing(q, s)
    <2>1. ASSUME NEW s
          PROVE  /\ Computed(p, s)' <=> Computed(p, s)
                 /\ Published(p, s)' <=> Published(p, s)
                 /\ s # u => Missing(p, s)' = Missing(p, s)
        <3>1. (Computed(p, s)' <=> Computed(p, s)) /\ (Published(p, s)' <=> Published(p, s))
            BY <1>1, <1>7 DEF Computed, Published
        <3>2. (Summing' <=> Summing) /\ AllParts' = AllParts
            BY <1>1, Frame, SameCall
        <3>3. s # u => Missing(p, s)' = Missing(p, s)
            BY <1>1, <1>7, <3>2 DEF Missing
        <3>. QED BY <3>1, <3>3
    <2>2. ASSUME NEW q \in Team \ {p}, NEW s
          PROVE  /\ Computed(q, s)' <=> Computed(q, s)
                 /\ Published(q, s)' <=> Published(q, s)
                 /\ Missing(q, s)' = Missing(q, s)
        BY <1>1, <1>7, Frame
    <2>. QED BY <2>1, <2>2
<1>9. Missing(p, u)' = Missing(p, u) \ {k}
    <2>1. Summing' <=> Summing
        BY <1>1, Frame
    <2>2. Missing(p, u) = Range(todo[p])
        BY <1>1, <1>3, <1>4 DEF Missing
    <2>3. Missing(p, u)' = Range(todo'[p])
        BY <1>1, <1>3, <1>4, <1>7, <2>1 DEF Missing
    <2>. QED BY <1>6, <1>7, <2>2, <2>3
<1>10. Control'
    BY <1>1, <1>2, <1>5, <1>7, KeepsControl, Setting DEF Control
<1>11. Places'
    <2>. SUFFICES ASSUME NEW q \in Team
                  PROVE  /\ First(q, team) <= ithr'[q] /\ ithr'[q] <= Last(q, team)
                         /\ pc'[q] \in {"gemm", "publish", "next", "adding"} => ithr'[q] \in Mine(q)
                         /\ pc'[q] = "done" => \A s \in Mine(q) : s < ithr'[q]
                         /\ pc'[q] \in {"gemm", "publish"} => phase = "compute"
                         /\ pc'[q] \in {"publish", "next", "adding"} => Summing
                         /\ pc'[q] = "adding" => todo'[q] # <<>>
        BY <1>1, Primed
    <2>1. CASE q = p
        BY <1>1, <1>3, <1>7, <2>1 DEF IInv, Places
    <2>2. CASE q # p
        BY <1>1, <1>7, <2>2 DEF IInv, Places
    <2>. QED BY <2>1, <2>2
<1>12. Products'
    <2>. SUFFICES ASSUME NEW q \in Team, NEW s \in Mine(q)
                  PROVE  /\ PartOf(s) # 0 =>
                              (<<BlockOf(s), PartOf(s)>> \in ready' <=> Computed(q, s)')
                         /\ PartOf(s) = 0 => \A j \in Cols(BlockOf(s)) :
                              C'[BlockOf(s)][j][0] = IF Computed(q, s)' THEN 1 ELSE 0
        BY <1>1, Primed
    <2>1. Computed(q, s)' <=> Computed(q, s)
        BY <1>8
    <2>2. BlockOf(s) \in Blocks /\ 0 \in Parts /\ k # 0
        BY <1>2, <1>5, MineFacts, Setting DEF Parts, AllParts
    <2>3. \A j \in Cols(BlockOf(s)) : C'[BlockOf(s)][j][0] = C[BlockOf(s)][j][0]
        BY <1>5, <2>2
    <2>. QED BY <1>1, <2>1, <2>3 DEF IInv, Products
<1>13. Flags'
    <2>. SUFFICES ASSUME phase = "compute", NEW q \in Team, NEW s \in Mine(q)
                  PROVE  flag'[<<BlockOf(s), PartOf(s)>>] = 1 <=> Summing /\ Published(q, s)'
        BY <1>1, Primed
    <2>1. Published(q, s)' <=> Published(q, s)
        BY <1>8
    <2>. QED BY <1>1, <2>1 DEF IInv, Flags
<1>14. Sums'
    <2>. SUFFICES ASSUME NEW q \in Team, NEW s \in Mine(q), NEW j \in Strip(s), NEW x \in AllParts
                  PROVE  C'[BlockOf(s)][j][x] = IF x \in Missing(q, s)' THEN 0 ELSE 1
        BY <1>1, Primed
    <2>1. BlockOf(s) \in Blocks /\ j \in Cols(BlockOf(s)) /\ x \in Parts
        BY <1>2, MineFacts, Setting DEF Parts, AllParts
    <2>2. C[BlockOf(s)][j][x] = IF x \in Missing(q, s) THEN 0 ELSE 1
        BY DEF IInv, Sums
    <2>3. CASE q = p /\ s = u
        <3>1. C'[b][j][x] = IF x = k THEN 1 ELSE C[b][j][x]
            BY <1>5, <2>1, <2>3
        <3>2. Missing(q, s)' = Missing(q, s) \ {k}
            BY <1>1, <1>9, <2>3
        <3>. QED BY <2>2, <2>3, <3>1, <3>2
    <2>4. CASE ~(q = p /\ s = u)
        <3>1. Missing(q, s)' = Missing(q, s)
            BY <1>8, <2>4
        <3>2. BlockOf(s) = b => j \notin Strip(u)
            BY <1>2, <1>3, <2>4, OneOwner
        <3>3. C'[BlockOf(s)][j] = C[BlockOf(s)][j]
            BY <1>5, <2>1, <3>2
        <3>. QED BY <2>2, <3>1, <3>3
    <2>. QED BY <2>3, <2>4
<1>15. Reads'
    <2>. SUFFICES ASSUME NEW q \in Team, pc'[q] = "adding", NEW j \in Strip(ithr'[q])
                  PROVE  seen'[q][j] = C'[BlockOf(ithr'[q])][j]
        BY <1>1, Primed
    <2>. DEFINE s == ithr[q]
    <2>1. q # p /\ pc[q] = "adding" /\ s \in Mine(q) /\ ithr'[q] = s /\ j \in Strip(s)
        BY <1>1, <1>7 DEF IInv, Places
    <2>2. BlockOf(s) \in Blocks /\ j \in Cols(BlockOf(s))
        BY <1>2, <2>1, MineFacts
    <2>3. seen'[q][j] = C[BlockOf(s)][j]
        BY <1>7, <2>1, AtShare DEF IInv, Reads
    <2>4. BlockOf(s) = b => j \notin Strip(u)
        BY <1>2, <1>3, <2>1, OneOwner
    <2>5. C'[BlockOf(s)][j] = C[BlockOf(s)][j]
        BY <1>5, <2>2, <2>4
    <2>. QED BY <2>1, <2>3, <2>5
<1>16. Waits'
    <2>. SUFFICES ASSUME phase = "compute", Summing, NEW q \in Team
                  PROVE  /\ \A s \in Mine(q) : s < ithr'[q] => flag'[<<BlockOf(s), 0>>] = 1
                         /\ pc'[q] = "next" =>
                              \/ flag'[<<BlockOf(ithr'[q]), 0>>] = 1
                              \/ /\ todo'[q] # <<>> /\ Head(todo'[q]) = PartOf(ithr'[q])
                                 /\ Missing(q, ithr[q])' = AllParts
                         /\ pc'[q] = "adding" =>
                              /\ flag'[<<BlockOf(ithr'[q]), 0>>] = 1
                              /\ <<BlockOf(ithr'[q]), Head(todo'[q])>> \in ready'
        BY <1>1, Primed
    <2>1. CASE q = p
        BY <1>1, <1>4, <1>7, <2>1 DEF IInv, Waits
    <2>2. CASE q # p
        <3>1. Missing(q, ithr[q])' = Missing(q, ithr[q])
            BY <1>1, <1>7, <2>2, Frame
        <3>. QED BY <1>1, <1>7, <2>2, <3>1, AtShare DEF IInv, Waits
    <2>. QED BY <2>1, <2>2
<1>17. SumIsComplete'
    BY <1>1 DEF SumIsComplete
<1>. QED BY <1>10, <1>11, <1>12, <1>13, <1>14, <1>15, <1>16, <1>17 DEF IInv

LEMMA AddedAllKeeps ==
    ASSUME IInv, phase # "returned", NEW p \in Team, AddedAll(p)
    PROVE  IInv'
<1>. DEFINE u == ithr[p]
<1>1. /\ call' = call /\ team' = team /\ phase' = phase /\ flag' = flag /\ todo' = todo
      /\ ready' = ready /\ seen' = seen /\ C' = C /\ pc[p] = "next" /\ todo[p] = <<>>
      /\ pc' = [pc EXCEPT ![p] = "fetch"] /\ ithr' = [ithr EXCEPT ![p] = u + 1]
    BY DEF AddedAll, Advance, Goto
<1>2. /\ Control /\ p \in Threads /\ pc \in [Threads -> Labels]
      /\ ithr \in [Threads -> 0 .. nthr] /\ nthr \in Nat
      /\ First(p, team) \in Nat /\ Last(p, team) \in Nat /\ Last(p, team) <= nthr
      /\ \A q \in Team : q \in Threads
    BY Setting DEF IInv
<1>3. Summing /\ u \in Mine(p)
    BY <1>1 DEF IInv, Places
<1>4. u \in Nat /\ First(p, team) <= u /\ u < Last(p, team)
    BY <1>2, <1>3, MineFacts
<1>5. u + 1 \in 0 .. nthr
    BY <1>2, <1>4
<1>6. /\ pc' \in [Threads -> Labels] /\ ithr' \in [Threads -> 0 .. nthr]
      /\ pc'[p] = "fetch" /\ ithr'[p] = u + 1
      /\ \A q \in Team \ {p} : pc'[q] = pc[q] /\ ithr'[q] = ithr[q]
    BY <1>1, <1>2, <1>5 DEF Labels
<1>7. \A s \in Mine(p) : s \in Nat /\ (s < u + 1 <=> s < u \/ s = u)
    <2>. SUFFICES ASSUME NEW s \in Mine(p) PROVE s \in Nat /\ (s < u + 1 <=> s < u \/ s = u)
        OBVIOUS
    <2>1. s \in Nat
        BY <1>2, MineFacts
    <2>. QED BY <1>4, <2>1
<1>8. \A q \in Team : \A s \in Mine(q) :
          /\ Computed(q, s)' <=> Computed(q, s)
          /\ Published(q, s)' <=> Published(q, s)
          /\ Missing(q, s)' = Missing(q, s)
    <2>1. ASSUME NEW s \in Mine(p)
          PROVE  /\ Computed(p, s)' <=> Computed(p, s)
                 /\ Published(p, s)' <=> Published(p, s)
                 /\ Missing(p, s)' = Missing(p, s)
        <3>1. Computed(p, s)' <=> Computed(p, s)
            BY <1>1, <1>6, <1>7 DEF Computed
        <3>2. Published(p, s)' <=> Published(p, s)
            BY <1>1, <1>6, <1>7 DEF Published
        <3>3. (Summing' <=> Summing) /\ AllParts' = AllParts
            BY <1>1, Frame, SameCall
        <3>4. Missing(p, s)' = Missing(p, s)
            <4>1. ASSUME s = u PROVE Missing(p, s)' = {} /\ Missing(p, s) = {}
                BY <1>1, <1>3, <1>4, <1>6, <1>7, <3>3, <4>1, EmptyList DEF Missing
            <4>2. ASSUME s # u PROVE Missing(p, s)' = Missing(p, s)
                BY <1>1, <1>6, <1>7, <3>3, <4>2 DEF Missing
            <4>. QED BY <4>1, <4>2
        <3>. QED BY <3>1, <3>2, <3>4
    <2>2. ASSUME NEW q \in Team \ {p}, NEW s
          PROVE  /\ Computed(q, s)' <=> Computed(q, s)
                 /\ Published(q, s)' <=> Published(q, s)
                 /\ Missing(q, s)' = Missing(q, s)
        BY <1>1, <1>6, Frame
    <2>. QED BY <2>1, <2>2
<1>9. Control'
    BY <1>1, <1>2, <1>6, KeepsControl, Setting DEF Control
<1>10. Places'
    <2>. SUFFICES ASSUME NEW q \in Team
                  PROVE  /\ First(q, team) <= ithr'[q] /\ ithr'[q] <= Last(q, team)
                         /\ pc'[q] \in {"gemm", "publish", "next", "adding"} => ithr'[q] \in Mine(q)
                         /\ pc'[q] = "done" => \A s \in Mine(q) : s < ithr'[q]
                         /\ pc'[q] \in {"gemm", "publish"} => phase = "compute"
                         /\ pc'[q] \in {"publish", "next", "adding"} => Summing
                         /\ pc'[q] = "adding" => todo'[q] # <<>>
        BY <1>1, Primed
    <2>1. CASE q = p
        BY <1>2, <1>4, <1>6, <2>1
    <2>2. CASE q # p
        BY <1>1, <1>6, <2>2 DEF IInv, Places
    <2>. QED BY <2>1, <2>2
<1>11. Products'
    <2>. SUFFICES ASSUME NEW q \in Team, NEW s \in Mine(q)
                  PROVE  /\ PartOf(s) # 0 =>
                              (<<BlockOf(s), PartOf(s)>> \in ready' <=> Computed(q, s)')
                         /\ PartOf(s) = 0 => \A j \in Cols(BlockOf(s)) :
                              C'[BlockOf(s)][j][0] = IF Computed(q, s)' THEN 1 ELSE 0
        BY <1>1, Primed
    <2>1. Computed(q, s)' <=> Computed(q, s)
        BY <1>8
    <2>. QED BY <1>1, <2>1 DEF IInv, Products
<1>12. Flags'
    <2>. SUFFICES ASSUME phase = "compute", NEW q \in Team, NEW s \in Mine(q)
                  PROVE  flag'[<<BlockOf(s), PartOf(s)>>] = 1 <=> Summing /\ Published(q, s)'
        BY <1>1, Primed
    <2>1. Published(q, s)' <=> Published(q, s)
        BY <1>8
    <2>. QED BY <1>1, <2>1 DEF IInv, Flags
<1>13. Sums'
    <2>. SUFFICES ASSUME NEW q \in Team, NEW s \in Mine(q), NEW j \in Strip(s), NEW k \in AllParts
                  PROVE  C'[BlockOf(s)][j][k] = IF k \in Missing(q, s)' THEN 0 ELSE 1
        BY <1>1, Primed
    <2>1. Missing(q, s)' = Missing(q, s)
        BY <1>8
    <2>. QED BY <1>1, <2>1 DEF IInv, Sums
<1>14. Reads'
    <2>. SUFFICES ASSUME NEW q \in Team, pc'[q] = "adding", NEW j \in Strip(ithr'[q])
                  PROVE  seen'[q][j] = C'[BlockOf(ithr'[q])][j]
        BY <1>1, Primed
    <2>1. q # p /\ pc[q] = "adding" /\ ithr'[q] = ithr[q]
        BY <1>6
    <2>. QED BY <1>1, <2>1, AtShare DEF IInv, Reads
<1>15. Waits'
    <2>. SUFFICES ASSUME phase = "compute", Summing, NEW q \in Team
                  PROVE  /\ \A s \in Mine(q) : s < ithr'[q] => flag'[<<BlockOf(s), 0>>] = 1
                         /\ pc'[q] = "next" =>
                              \/ flag'[<<BlockOf(ithr'[q]), 0>>] = 1
                              \/ /\ todo'[q] # <<>> /\ Head(todo'[q]) = PartOf(ithr'[q])
                                 /\ Missing(q, ithr[q])' = AllParts
                         /\ pc'[q] = "adding" =>
                              /\ flag'[<<BlockOf(ithr'[q]), 0>>] = 1
                              /\ <<BlockOf(ithr'[q]), Head(todo'[q])>> \in ready'
        BY <1>1, Primed
    <2>1. CASE q = p
        <3>1. flag[<<BlockOf(u), 0>>] = 1
            BY <1>1, AtShare DEF IInv, Waits
        <3>2. \A s \in Mine(p) : s < u + 1 => flag[<<BlockOf(s), 0>>] = 1
            BY <1>7, <3>1 DEF IInv, Waits
        <3>. QED BY <1>1, <1>6, <2>1, <3>2
    <2>2. CASE q # p
        <3>1. Missing(q, ithr[q])' = Missing(q, ithr[q])
            BY <1>1, <1>6, <2>2, Frame
        <3>. QED BY <1>1, <1>6, <2>2, <3>1, AtShare DEF IInv, Waits
    <2>. QED BY <2>1, <2>2
<1>16. SumIsComplete'
    BY <1>1 DEF SumIsComplete
<1>. QED BY <1>9, <1>10, <1>11, <1>12, <1>13, <1>14, <1>15, <1>16 DEF IInv

------------------------------------------------------------------------------
(* The ends of the sections.                                               *)

\* All shares of the team are computed, told so and added up.
LEMMA AllDone ==
    ASSUME IInv, Joined, NEW q \in Team, NEW s \in Mine(q)
    PROVE  /\ Computed(q, s) /\ Published(q, s) /\ (Summing => Missing(q, s) = {})
<1>1. s < ithr[q]
    BY DEF Joined, IInv, Places
<1>. QED BY <1>1 DEF Computed, Published, Missing

\* What C holds when all have ended.
LEMMA Accumulated ==
    ASSUME IInv, Joined, phase # "returned"
    PROVE  /\ \A b \in Blocks : \A k \in AllParts : <<b, k>> \in ready
           /\ \A b \in Blocks : \A j \in Cols(b) : C[b][j][0] = 1
           /\ \A b \in Blocks : \A j \in Cols(b) : \A k \in AllParts :
                 C[b][j][k] = IF Summing THEN 1 ELSE 0
           /\ phase = "compute" => (flag[<<0, 0>>] = 1 <=> Summing)
<1>1. Control /\ 0 \in Parts /\ AllParts \subseteq Parts /\ \A k \in AllParts : k # 0
    BY Setting DEF IInv, Parts, AllParts
<1>2. \A b \in Blocks : \A k \in AllParts : <<b, k>> \in ready
    <2>. SUFFICES ASSUME NEW b \in Blocks, NEW k \in AllParts PROVE <<b, k>> \in ready
        OBVIOUS
    <2>1. PICK q \in Team : \E s \in Mine(q) : BlockOf(s) = b /\ PartOf(s) = k
        BY <1>1, SomeOwner
    <2>2. PICK s \in Mine(q) : BlockOf(s) = b /\ PartOf(s) = k
        BY <2>1
    <2>. QED BY <1>1, <2>2, AllDone DEF IInv, Products
<1>3. \A b \in Blocks : \A j \in Cols(b) : C[b][j][0] = 1
    <2>. SUFFICES ASSUME NEW b \in Blocks, NEW j \in Cols(b) PROVE C[b][j][0] = 1
        OBVIOUS
    <2>1. PICK q \in Team : \E s \in Mine(q) : BlockOf(s) = b /\ PartOf(s) = 0
        BY <1>1, SomeOwner
    <2>2. PICK s \in Mine(q) : BlockOf(s) = b /\ PartOf(s) = 0
        BY <2>1
    <2>3. Computed(q, s)
        BY AllDone
    <2>. QED BY <2>2, <2>3 DEF IInv, Products
<1>4. \A b \in Blocks : \A j \in Cols(b) : \A k \in AllParts :
         C[b][j][k] = IF Summing THEN 1 ELSE 0
    <2>. SUFFICES ASSUME NEW b \in Blocks, NEW j \in Cols(b), NEW k \in AllParts
                  PROVE  C[b][j][k] = IF Summing THEN 1 ELSE 0
        OBVIOUS
    <2>1. PICK q \in Team : \E s \in Mine(q) : BlockOf(s) = b /\ j \in Strip(s)
        BY <1>1, SomeOwner
    <2>2. PICK s \in Mine(q) : BlockOf(s) = b /\ j \in Strip(s)
        BY <2>1
    <2>3. Missing(q, s) = IF Summing THEN {} ELSE AllParts
        BY AllDone DEF Missing
    <2>. QED BY <2>2, <2>3 DEF IInv, Sums
<1>5. phase = "compute" => (flag[<<0, 0>>] = 1 <=> Summing)
    <2>1. 0 \in Blocks
        <3>1. nthr_mn \in Nat \ {0}
            BY <1>1, CallFacts DEF Control
        <3>. QED BY <3>1 DEF Blocks
    <2>2. PICK q \in Team : \E s \in Mine(q) : BlockOf(s) = 0 /\ PartOf(s) = 0
        BY <1>1, <2>1, SomeOwner
    <2>3. PICK s \in Mine(q) : BlockOf(s) = 0 /\ PartOf(s) = 0
        BY <2>2
    <2>4. Published(q, s)
        BY AllDone
    <2>. QED BY <2>3, <2>4 DEF IInv, Flags
<1>. QED BY <1>2, <1>3, <1>4, <1>5

\* A section begins with nothing done by its threads.
LEMMA Forked ==
    ASSUME call \in Problems, NEW t \in Teams,
           NEW f, f = [p \in Threads |-> IF p < t THEN First(p, t) ELSE 0],
           NEW g, g = [p \in Threads |-> IF p < t THEN "fetch" ELSE "done"]
    PROVE  /\ f \in [Threads -> 0 .. nthr] /\ g \in [Threads -> Labels]
           /\ \A q \in 0 .. t - 1 :
                 /\ g[q] = "fetch" /\ First(q, t) <= f[q] /\ f[q] <= Last(q, t)
                 /\ \A s \in Own(q, t) : ~(s < f[q])
<1>1. nthr \in Nat
    BY CallFacts
<1>2. t \in Nat
    BY CallFacts, TeamsAssumption
<1>3. ASSUME NEW p \in Threads, p < t PROVE First(p, t) \in 0 .. nthr
    <2>1. p \in 0 .. t - 1
        BY <1>2, <1>3, CallFacts DEF Threads
    <2>. QED BY <1>1, <2>1, OwnBounds
<1>4. f \in [Threads -> 0 .. nthr] /\ g \in [Threads -> Labels]
    BY <1>1, <1>3 DEF Labels
<1>5. ASSUME NEW q \in 0 .. t - 1
      PROVE  /\ g[q] = "fetch" /\ First(q, t) <= f[q] /\ f[q] <= Last(q, t)
             /\ \A s \in Own(q, t) : ~(s < f[q])
    <2>1. q \in Threads /\ q < t /\ First(q, t) \in Nat /\ First(q, t) <= Last(q, t)
        BY <1>2, OwnBounds
    <2>2. f[q] = First(q, t) /\ g[q] = "fetch"
        BY <2>1
    <2>3. ASSUME NEW s \in Own(q, t) PROVE ~(s < First(q, t))
        <3>1. s \in Nat /\ First(q, t) <= s
            BY CallFacts DEF Own, AllShares
        <3>. QED BY <2>1, <3>1
    <2>. QED BY <2>1, <2>2, <2>3
<1>. QED BY <1>4, <1>5

LEMMA InitHolds ==
    ASSUME Init
    PROVE  IInv
<1>1. /\ call \in Problems /\ team \in Teams /\ phase = "compute"
      /\ pc = [p \in Threads |-> IF p < team THEN "fetch" ELSE "done"]
      /\ ithr = [p \in Threads |-> IF p < team THEN First(p, team) ELSE 0]
      /\ todo = [p \in Threads |-> <<>>] /\ seen = [p \in Threads |-> <<>>]
      /\ flag = [bk \in Blocks \X Parts |-> 0] /\ ready = {}
      /\ C = [b \in Blocks |-> [j \in Cols(b) |-> Nothing]]
    BY DEF Init
<1>2. /\ ithr \in [Threads -> 0 .. nthr] /\ pc \in [Threads -> Labels]
      /\ \A q \in Team :
            /\ pc[q] = "fetch" /\ First(q, team) <= ithr[q] /\ ithr[q] <= Last(q, team)
            /\ \A s \in Mine(q) : ~(s < ithr[q])
    BY <1>1, Forked DEF Team, Mine
<1>3. Nothing \in [Parts -> 0 .. 1] /\ \A k \in Parts : Nothing[k] = 0
    BY DEF Nothing
<1>4. Control
    <2>1. todo \in [Threads -> Lists] /\ flag \in [Blocks \X Parts -> 0 .. 1]
        BY <1>1, EmptyList
    <2>2. \A b \in Blocks : C[b] \in [Cols(b) -> [Parts -> 0 .. 1]]
        BY <1>1, <1>3
    <2>. QED BY <1>1, <1>2, <2>1, <2>2 DEF Control, Labels
<1>5. Places
    BY <1>2 DEF Places
<1>6. \A q \in Team : \A s \in Mine(q) :
          ~Computed(q, s) /\ ~Published(q, s) /\ Missing(q, s) = AllParts
    BY <1>1, <1>2 DEF Computed, Published, Missing
<1>7. \A q \in Team : \A s \in Mine(q) :
          /\ BlockOf(s) \in Blocks /\ PartOf(s) \in Parts /\ Strip(s) \subseteq Cols(BlockOf(s))
    BY <1>4, MineFacts
<1>8. AllParts \subseteq Parts /\ 0 \in Parts
    BY <1>4, Setting DEF AllParts, Parts
<1>9. \A b \in Blocks : \A j \in Cols(b) : \A k \in Parts : C[b][j][k] = 0
    BY <1>1, <1>3
<1>10. Products
    BY <1>1, <1>6, <1>7, <1>8, <1>9 DEF Products
<1>11. Flags
    BY <1>1, <1>6, <1>7 DEF Flags
<1>12. Sums
    BY <1>6, <1>7, <1>8, <1>9 DEF Sums
<1>13. Reads /\ Waits
    BY <1>2 DEF Reads, Waits
<1>14. SumIsComplete
    BY <1>1 DEF SumIsComplete
<1>. QED BY <1>4, <1>5, <1>10, <1>11, <1>12, <1>13, <1>14 DEF IInv

LEMMA JoinKeeps ==
    ASSUME IInv, Join
    PROVE  IInv'
<1>1. /\ phase = "compute" /\ Joined /\ call' = call /\ flag' = flag
      /\ ready' = ready /\ C' = C
    BY DEF Join
<1>2. Control /\ 0 \in Parts /\ AllParts \subseteq Parts /\ call \in Problems
      /\ nthr_k \in Nat \ {0} /\ \A k \in Parts : k = 0 \/ k \in AllParts
    BY Setting DEF IInv, Parts, AllParts
<1>3. /\ nthr_k' = nthr_k /\ nthr' = nthr /\ Blocks' = Blocks /\ Parts' = Parts
      /\ AllParts' = AllParts /\ Lists' = Lists /\ \A b : Cols(b)' = Cols(b)
      /\ \A s : BlockOf(s)' = BlockOf(s) /\ PartOf(s)' = PartOf(s) /\ Strip(s)' = Strip(s)
    BY <1>1, SameCall
<1>4. /\ \A b \in Blocks : \A k \in AllParts : <<b, k>> \in ready
      /\ \A b \in Blocks : \A j \in Cols(b) : C[b][j][0] = 1
      /\ \A b \in Blocks : \A j \in Cols(b) : \A k \in AllParts :
            C[b][j][k] = IF Summing THEN 1 ELSE 0
      /\ flag[<<0, 0>>] = 1 <=> Summing
    BY <1>1, Accumulated
<1>5. CASE nthr_k > 1 /\ flag[<<0, 0>>] = 0
    <2>1. phase' = "sum" /\ team' \in Teams /\ Fork(team')
        BY <1>5 DEF Join
    <2>2. PICK t \in Teams : t = team'
        BY <2>1
    <2>3. /\ pc' = [p \in Threads |-> IF p < t THEN "fetch" ELSE "done"]
          /\ ithr' = [p \in Threads |-> IF p < t THEN First(p, t) ELSE 0]
          /\ todo' = [p \in Threads |-> <<>>] /\ seen' = [p \in Threads |-> <<>>]
        BY <2>1, <2>2 DEF Fork
    <2>4. /\ ithr' \in [Threads -> 0 .. nthr] /\ pc' \in [Threads -> Labels]
          /\ \A q \in 0 .. t - 1 :
                /\ pc'[q] = "fetch" /\ First(q, t) <= ithr'[q] /\ ithr'[q] <= Last(q, t)
                /\ \A s \in Own(q, t) : ~(s < ithr'[q])
        BY <1>2, <2>3, Forked
    <2>5. Team' = 0 .. t - 1
        BY <2>2 DEF Team
    <2>6. /\ \A q : Mine(q)' = Own(q, t)
          /\ \A q : First(q, team)' = First(q, t) /\ Last(q, team)' = Last(q, t)
        BY <1>1, <2>2, SameCall DEF Mine
    <2>7. \A q \in 0 .. t - 1 : \A s \in Own(q, t) :
              /\ BlockOf(s) \in Blocks /\ PartOf(s) \in Parts
              /\ Strip(s) \subseteq Cols(BlockOf(s))
        BY <1>2, ShareFacts DEF Own
    <2>8. \A q \in 0 .. t - 1 : \A s \in Own(q, t) :
              Computed(q, s)' /\ Missing(q, s)' = AllParts
        BY <1>3, <2>1, <2>4 DEF Computed, Missing, Summing
    <2>9. ~Summing
        BY <1>4, <1>5
    <2>10. Control'
        <3>1. todo' \in [Threads -> Lists]
            BY <2>3, EmptyList
        <3>2. DOMAIN seen' = Threads
            BY <2>3
        <3>. QED BY <1>1, <1>2, <1>3, <1>5, <2>1, <2>4, <3>1, <3>2 DEF Control, Labels
    <2>11. Places'
        BY <2>4, <2>5, <2>6 DEF Places
    <2>12. Products'
        BY <1>1, <1>2, <1>3, <1>4, <2>5, <2>6, <2>7, <2>8 DEF Products
    <2>13. Flags' /\ Waits' /\ SumIsComplete'
        BY <2>1 DEF Flags, Waits, SumIsComplete
    <2>14. Sums'
        BY <1>1, <1>3, <1>4, <2>5, <2>6, <2>7, <2>8, <2>9 DEF Sums
    <2>15. Reads'
        BY <2>4, <2>5 DEF Reads
    <2>. QED BY <2>10, <2>11, <2>12, <2>13, <2>14, <2>15 DEF IInv
<1>6. CASE ~(nthr_k > 1 /\ flag[<<0, 0>>] = 0)
    <2>1. /\ phase' = "returned" /\ team' = team /\ pc' = pc /\ ithr' = ithr
          /\ todo' = todo /\ seen' = seen
        BY <1>6 DEF Join
    <2>2. Control'
        BY <1>1, <1>2, <1>3, <2>1 DEF Control
    <2>3. \A q \in Team : pc[q] = "done"
        BY <1>1 DEF Joined
    <2>4. Team' = Team /\ (\A q : Mine(q)' = Mine(q))
          /\ \A q : First(q, team)' = First(q, team) /\ Last(q, team)' = Last(q, team)
        BY <1>1, <2>1, SameCall DEF Team, Mine
    <2>5. Places'
        BY <2>1, <2>3, <2>4 DEF Places, IInv
    <2>6. Products' /\ Flags' /\ Sums' /\ Waits'
        BY <2>1 DEF Products, Flags, Sums, Waits
    <2>7. Reads'
        BY <2>1, <2>3, <2>4 DEF Reads
    <2>8. AllParts = {} \/ Summing
        <3>1. flag[<<0, 0>>] \in 0 .. 1
            <4>1. 0 \in Blocks
                BY <1>2, CallFacts DEF Blocks
            <4>. QED BY <1>2, <4>1 DEF Control
        <3>. QED BY <1>2, <1>4, <1>6, <3>1 DEF AllParts
    <2>9. SumIsComplete'
        BY <1>1, <1>2, <1>3, <1>4, <2>8 DEF SumIsComplete
    <2>. QED BY <2>2, <2>5, <2>6, <2>7, <2>9 DEF IInv
<1>. QED BY <1>5, <1>6

LEMMA JoinSumKeeps ==
    ASSUME IInv, JoinSum
    PROVE  IInv'
<1>1. /\ phase = "sum" /\ Joined /\ phase' = "returned"
      /\ UNCHANGED <<call, team, pc, ithr, todo, seen, flag, ready, C>>
    BY DEF JoinSum
<1>2. Control /\ 0 \in Parts /\ \A k \in Parts : k = 0 \/ k \in AllParts
    BY Setting DEF IInv, Parts, AllParts
<1>3. /\ nthr_k' = nthr_k /\ nthr' = nthr /\ Blocks' = Blocks /\ Parts' = Parts
      /\ Lists' = Lists /\ \A b : Cols(b)' = Cols(b)
    BY <1>1, SameCall
<1>4. Team' = Team /\ (\A q : Mine(q)' = Mine(q))
      /\ \A q : First(q, team)' = First(q, team) /\ Last(q, team)' = Last(q, team)
    BY <1>1, SameCall DEF Team, Mine
<1>5. \A q \in Team : pc[q] = "done"
    BY <1>1 DEF Joined
<1>6. Control'
    BY <1>1, <1>2, <1>3 DEF Control
<1>7. Places'
    BY <1>1, <1>4, <1>5 DEF Places, IInv
<1>8. Products' /\ Flags' /\ Sums' /\ Waits'
    BY <1>1 DEF Products, Flags, Sums, Waits
<1>9. Reads'
    BY <1>1, <1>4, <1>5 DEF Reads
<1>10. Summing
    BY <1>1 DEF Summing
<1>11. /\ \A b \in Blocks : \A j \in Cols(b) : C[b][j][0] = 1
       /\ \A b \in Blocks : \A j \in Cols(b) : \A k \in AllParts : C[b][j][k] = 1
    BY <1>1, <1>10, Accumulated
<1>12. SumIsComplete'
    BY <1>1, <1>2, <1>3, <1>11 DEF SumIsComplete
<1>. QED BY <1>6, <1>7, <1>8, <1>9, <1>12 DEF IInv

LEMMA StutterKeeps ==
    ASSUME IInv, UNCHANGED vars
    PROVE  IInv'
<1>1. UNCHANGED <<call, team, phase, pc, ithr, todo, seen, flag, ready, C>>
    BY DEF vars
<1>2. Control'
    BY <1>1, SameCall DEF IInv, Control
<1>3. /\ Team' = Team /\ (Summing' <=> Summing) /\ (\A q : Mine(q)' = Mine(q))
      /\ \A q : First(q, team)' = First(q, team) /\ Last(q, team)' = Last(q, team)
      /\ \A q, s : /\ Computed(q, s)' <=> Computed(q, s)
                   /\ Published(q, s)' <=> Published(q, s)
                   /\ Missing(q, s)' = Missing(q, s)
    BY <1>1, Frame
<1>4. Places'
    BY <1>1, <1>3 DEF IInv, Places
<1>5. Products'
    BY <1>1, <1>3, SameCall DEF IInv, Products
<1>6. Flags'
    BY <1>1, <1>3, SameCall DEF IInv, Flags
<1>7. Sums'
    BY <1>1, <1>3, SameCall DEF IInv, Sums
<1>8. Reads'
    BY <1>1, Primed, AtShare DEF IInv, Reads
<1>9. Waits'
    <2>. SUFFICES ASSUME phase = "compute", Summing, NEW q \in Team
                  PROVE  /\ \A s \in Mine(q) : s < ithr'[q] => flag'[<<BlockOf(s), 0>>] = 1
                         /\ pc'[q] = "next" =>
                              \/ flag'[<<BlockOf(ithr'[q]), 0>>] = 1
                              \/ /\ todo'[q] # <<>> /\ Head(todo'[q]) = PartOf(ithr'[q])
                                 /\ Missing(q, ithr[q])' = AllParts
                         /\ pc'[q] = "adding" =>
                              /\ flag'[<<BlockOf(ithr'[q]), 0>>] = 1
                              /\ <<BlockOf(ithr'[q]), Head(todo'[q])>> \in ready'
        BY <1>1, Primed
    <2>1. Missing(q, ithr[q])' = Missing(q, ithr[q])
        BY <1>1, Frame
    <2>. QED BY <1>1, <2>1, AtShare DEF IInv, Waits
<1>10. SumIsComplete'
    BY <1>1, SameCall DEF IInv, SumIsComplete
<1>. QED BY <1>2, <1>4, <1>5, <1>6, <1>7, <1>8, <1>9, <1>10 DEF IInv

LEMMA StepKeeps ==
    ASSUME IInv, [Next]_vars
    PROVE  IInv'
<1>1. CASE UNCHANGED vars
    BY <1>1, StutterKeeps
<1>2. ASSUME NEW p \in Team, phase # "returned", Step(p) PROVE IInv'
    <2>1. CASE Fetch(p)
        BY <1>2, <2>1, FetchKeeps
    <2>2. CASE Gemm(p)
        BY <1>2, <2>2, GemmKeeps
    <2>3. CASE Publish(p)
        BY <1>2, <2>3, PublishKeeps
    <2>4. CASE Add(p)
        BY <1>2, <2>4, AddKeeps
    <2>5. CASE AddEnd(p)
        BY <1>2, <2>5, AddEndKeeps
    <2>6. CASE AddedAll(p)
        BY <1>2, <2>6, AddedAllKeeps
    <2>7. CASE Spin(p)
        BY <2>7, StutterKeeps DEF Spin
    <2>. QED BY <1>2, <2>1, <2>2, <2>3, <2>4, <2>5, <2>6, <2>7 DEF Step
<1>3. CASE Join
    BY <1>3, JoinKeeps
<1>4. CASE JoinSum
    BY <1>4, JoinSumKeeps
<1>. QED BY <1>1, <1>2, <1>3, <1>4 DEF Next

(***************************************************************************)
(* Who has computed, published and added what, for every call and every    *)
(* team: each part of a block of C goes to one thread, each column of it   *)
(* to one thread that adds all parts up.                                   *)
(***************************************************************************)
THEOREM Invariance == Spec => []IInv
<1>1. Init => IInv
    BY InitHolds
<1>2. IInv /\ [Next]_vars => IInv'
    BY StepKeeps
<1>. QED BY <1>1, <1>2, PTL DEF Spec

(***************************************************************************)
(* Each part has been added once to every column when jit_avx_gemm_f32     *)
(* returns: by the threads that have computed the parts, or, when there    *)
(* were fewer of them than parts, by those of the second section.          *)
(***************************************************************************)
THEOREM EveryPartAdded == Spec => []SumIsComplete
<1>1. IInv => SumIsComplete
    BY DEF IInv
<1>. QED BY <1>1, Invariance, PTL

(***************************************************************************)
(* Every variable keeps to its set: no flag, buffer or column outside the  *)
(* blocks and parts of the call is touched, and no part is added twice.    *)
(***************************************************************************)
THEOREM TypeCorrect == Spec => []TypeOK
<1>1. IInv => TypeOK
    <2>. SUFFICES ASSUME Control PROVE TypeOK
        BY DEF IInv
    <2>1. Lists \subseteq Seq(Parts)
        <3>1. AllParts \subseteq Parts
            BY Setting DEF AllParts, Parts
        <3>. QED BY <3>1 DEF Lists
    <2>2. todo \in [Threads -> Seq(Parts)]
        BY <2>1 DEF Control
    <2>. QED BY <2>2 DEF Control, TypeOK
<1>. QED BY <1>1, Invariance, PTL

(***************************************************************************)
(* Two threads never write one column of C at the same time, and no buffer *)
(* is read before it is complete: the flags that a thread waits for tell   *)
(* it that part 0 is in its block and that the buffer it adds is full, and *)
(* the strips of the threads of a block are disjoint.                      *)
(***************************************************************************)
THEOREM RaceFree == Spec => []NoRace
<1>1. IInv => NoRace
    <2>. SUFFICES ASSUME IInv, NEW p \in Team, NEW q \in Team
                  PROVE  /\ p # q => Writing(p) \cap Writing(q) = {}
                         /\ pc[p] = "adding" => <<Block(p), Head(todo[p])>> \in ready
        BY DEF NoRace
    <2>1. Control /\ todo \in [Threads -> Lists] /\ \A r \in Team : r \in Threads
        BY Setting DEF IInv
    <2>2. \A r \in Team : pc[r] \in {"gemm", "adding"} =>
              ithr[r] \in Mine(r) /\ Block(r) \in Blocks
        BY <2>1, MineFacts, AtShare DEF IInv, Places
    <2>3. ASSUME NEW r \in Team, pc[r] = "adding"
          PROVE  <<Block(r), Head(todo[r])>> \in ready
        <3>1. Summing /\ todo[r] # <<>>
            BY <2>3 DEF IInv, Places
        <3>2. Head(todo[r]) \in AllParts
            BY <2>1, <3>1, ListFacts
        <3>. QED BY <2>2, <2>3, <3>1, <3>2, AllReady DEF IInv, Waits, Summing
    <2>4. ASSUME NEW r \in Team, NEW w \in Team, r # w, pc[r] = "adding", pc[w] = "adding"
          PROVE  Writing(r) \cap Writing(w) = {}
        <3>1. Block(r) = Block(w) => Band(r) \cap Band(w) = {}
            BY <2>1, <2>2, <2>4, AtShare, OneOwner
        <3>. QED BY <2>4, <3>1 DEF Writing
    <2>5. ASSUME NEW r \in Team, NEW w \in Team, r # w,
                 pc[r] = "gemm", Part(r) = 0, pc[w] = "gemm", Part(w) = 0
          PROVE  Writing(r) \cap Writing(w) = {}
        <3>1. Block(r) # Block(w)
            BY <2>1, <2>2, <2>5, AtShare, OneOwner
        <3>. QED BY <2>5, <3>1 DEF Writing
    <2>6. ASSUME NEW r \in Team, NEW w \in Team, pc[r] = "gemm", Part(r) = 0, pc[w] = "adding"
          PROVE  Writing(r) \cap Writing(w) = {}
        <3>1. Block(r) # Block(w)
            BY <2>2, <2>6, AtShare, NobodyAdds
        <3>. QED BY <2>6, <3>1 DEF Writing
    <2>7. ASSUME p # q PROVE Writing(p) \cap Writing(q) = {}
        <3>1. \A r \in Team : \/ Writing(r) = {} \/ pc[r] = "adding"
                              \/ pc[r] = "gemm" /\ Part(r) = 0
            BY DEF Writing
        <3>. QED BY <2>4, <2>5, <2>6, <2>7, <3>1
    <2>. QED BY <2>3, <2>7
<1>. QED BY <1>1, Invariance, PTL
==============================================================================

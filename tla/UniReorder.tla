------------------------------ MODULE UniReorder ------------------------------
(***************************************************************************)
(* How the jit reorder turns a conversion between two blocked layouts into *)
(* loops (cpu/jit_uni_reorder_utils.cpp, cpu/jit_uni_reorder.cpp).  A node *)
(* is a loop of n turns with its strides s in the input, in the output and *)
(* in the scales; the innermost comes first.  Nodes are merged, sorted,    *)
(* folded and split until the outer ones suit the threads and the inner    *)
(* ones the emitted kernel.                                                *)
(*                                                                         *)
(* A memory descriptor has dims, all multiples of its blocks, the strides  *)
(* between blocks, and the inner blocks [d, n], outermost first; a         *)
(* conversion has one scale for each index of the dimensions in mask.      *)
(***************************************************************************)
EXTENDS Balance211, FiniteSetsExt, SequencesExt

Volume(nodes) == FoldLeft(LAMBDA x, e : x * e.n, 1, nodes)
Scaled(s, f) == <<s[1] * f, s[2] * f, s[3] * f>>
Shifted(s, u) == <<s[1] + u[1], s[2] + u[2], s[3] + u[3]>>

From(q, i) == SubSeq(q, i, Len(q))

Blocks(md, d) ==
    SelectSeq([i \in DOMAIN md.blocks |->
                  [id |-> md.blocks[i].d, n |-> md.blocks[i].n,
                   stride |-> Volume(From(md.blocks, i + 1))]],
              LAMBDA e : e.id = d)

cvt_mem_desc_to_layout_desc(md) ==
    FlattenSeq([d \in DOMAIN md.dims |->
        <<[id |-> d, n |-> md.dims[d] \div Volume(Blocks(md, d)),
           stride |-> md.strides[d]]>> \o Blocks(md, d)])

scale_strides(old, mask) ==
    LET Scales(q) == Volume(SelectSeq(q, LAMBDA e : e.id \in mask))
    IN  [o \in DOMAIN old |->
            IF old[o].id \in mask THEN Scales(From(old, o + 1)) ELSE 0]

\* Where one side has a longer loop, it is cut to the shorter one.
prb_init(imd, omd, mask) ==
    LET ild == cvt_mem_desc_to_layout_desc(imd)
        old == cvt_mem_desc_to_layout_desc(omd)
        ss == scale_strides(old, mask)
        Turns(l, i) == IF i \in DOMAIN l THEN l[i].n ELSE 1
        Nodes[i \in Nat, o \in Nat, a \in Nat, b \in Nat] ==
            IF i > Len(ild) \/ o > Len(old) THEN <<>>
            ELSE LET n == Min({a, b})
                     left == a \div n
                     right == b \div n
                 IN  <<[n |-> n, s |-> <<ild[i].stride * left,
                                         old[o].stride * right, ss[o] * right>>]>>
                     \o Nodes[IF a = n THEN i + 1 ELSE i, IF b = n THEN o + 1 ELSE o,
                              IF a = n THEN Turns(ild, i + 1) ELSE left,
                              IF b = n THEN Turns(old, o + 1) ELSE right]
    IN  Nodes[1, 1, Turns(ild, 1), Turns(old, 1)]

\* Ascending strides in the output, shorter loops first among equals.
prb_normalize(p) ==
    LET Before(x, y) == \/ x.s[2] < y.s[2]
                        \/ x.s[2] = y.s[2] /\ x.n < y.n
        MinPos(q, d) == Min({ j \in d .. Len(q) :
                                \A i \in d .. Len(q) : ~Before(q[i], q[j]) })
        Swapped(q, d, e) == [q EXCEPT ![d] = q[e], ![e] = q[d]]
    IN  FoldLeft(LAMBDA q, d : Swapped(q, d, MinPos(q, d)), p, [d \in DOMAIN p |-> d])

\* Mutant: loops are folded whatever the scales are.
FoldsBlindly(x, y) ==
    y.n = 1 \/ \A i \in 1 .. 2 : y.s[i] = x.n * x.s[i]

Folds(x, y) == y.n = 1 \/ y.s = Scaled(x.s, x.n)

prb_simplify(p) ==
    FoldLeft(LAMBDA q, y : IF q # <<>> /\ Folds(Last(q), y)
                           THEN [q EXCEPT ![Len(q)].n = @ * y.n]
                           ELSE Append(q, y), <<>>, p)

prb_node_split(p, dim, n1) ==
    SubSeq(p, 1, dim - 1)
        \o <<[p[dim] EXCEPT !.n = n1],
             [n |-> p[dim].n \div n1, s |-> Scaled(p[dim].s, n1)]>>
        \o From(p, dim + 1)

prb_node_move(p, d0, d1) == InsertAt(RemoveAt(p, d0), d1, p[d0])

prb_block_for_cache(p) ==
    LET Unfriendly(d) == d <= Len(p) /\ p[d].s[1] % 64 = 0 /\ p[d].n > 16
        units == { d \in DOMAIN p : p[d].s[1] = 1 }
        unit == Max(units)
        first == IF p[unit].s[2] % 4 # 0 THEN 1 ELSE 2
        q == IF units = {} THEN p
             ELSE prb_node_move(IF p[unit].n > 16 /\ p[unit].n % 16 = 0
                                THEN prb_node_split(p, unit, 16) ELSE p, unit, first)
        pull == /\ Len(q) >= 2 /\ q[1].s[2] = 1 /\ q[2].s[1] = 1
                /\ q[1].n > 16 /\ q[1].n % 16 = 0
                /\ q[1].s[1] >= 256 /\ q[1].s[1] % 64 = 0
    IN  IF ~Unfriendly(1) /\ ~Unfriendly(2) THEN p
        ELSE IF pull THEN prb_node_move(prb_node_split(q, 1, 16), 2, 3) ELSE q

ker_prb_size_min == 64

\* The loops that look for a divisor do not end if there is none: Never.
Never == 0
FirstDivisor(n, from) ==
    LET S == { s \in from .. n : n % s = 0 } IN IF S = {} THEN Never ELSE Min(S)

prb_thread_kernel_balance(p, max_threads) ==
    LET drv_min == Min({16 * max_threads, DivUp(Volume(p), 1024)})
        Drv(k) == Volume(From(p, k + 1))
        kdims == Max({ k \in DOMAIN p : k = 1 \/ Drv(k) >= drv_min })
        drv == Drv(kdims)
        ker == Volume(SubSeq(p, 1, kdims))
        b == FirstDivisor(p[kdims + 1].n, DivUp(ker_prb_size_min, ker))
        d == FirstDivisor(p[kdims].n, DivUp(drv_min, drv))
    IN  IF kdims < Len(p) /\ ker < ker_prb_size_min /\ drv > drv_min
        THEN [nodes |-> IF b \in {Never, p[kdims + 1].n} THEN p
                        ELSE prb_node_split(p, kdims + 1, b),
              kdims |-> kdims + 1, ends |-> b # Never]
        ELSE IF ker > ker_prb_size_min /\ drv < drv_min
        THEN [nodes |-> IF d \in {Never, p[kdims].n} THEN p
                        ELSE prb_node_split(p, kdims, p[kdims].n \div d),
              kdims |-> kdims, ends |-> d # Never]
        ELSE [nodes |-> p, kdims |-> kdims, ends |-> TRUE]

------------------------------------------------------------------------------
(* The emitted kernel.                                                     *)

len_unroll_max == 256
ndims_jit_loop_max == 3
ndims_driver_max == 4

ndims_full_unroll(p) ==
    Max({ d \in 0 .. Len(p) : Volume(SubSeq(p, 1, d)) <= len_unroll_max })

\* What is left of the last loop that is not unrolled as a whole.
len_last_dim_unroll(p) ==
    LET nfu == ndims_full_unroll(p)
        most == len_unroll_max \div Volume(SubSeq(p, 1, nfu))
    IN  IF nfu = Len(p) THEN 1
        ELSE Max({ l \in 1 .. most : p[nfu + 1].n % l = 0 })

len_unroll(p) ==
    Volume(SubSeq(p, 1, ndims_full_unroll(p))) * len_last_dim_unroll(p)

Applicable(p) == Len(p) - ndims_full_unroll(p) <= ndims_jit_loop_max

\* By how much the offsets move on to element off of the loops of p.
step(p, off) ==
    LET Moved[d \in Nat, left \in Nat] ==
            IF d > Len(p) THEN <<0, 0, 0>>
            ELSE IF left % p[d].n # 0 THEN p[d].s
            ELSE LET back == Shifted(p[d].s, Scaled(p[d].s, -p[d].n)) IN
                 IF left \div p[d].n = 0 THEN back
                 ELSE Shifted(back, Moved[d + 1, left \div p[d].n])
    IN  Moved[1, off]

\* The offsets of the first elements, in steps of step_size that stand for
\* whole inner loops.
Offsets(p, turns, step_size) ==
    LET inner == Min({ d \in 0 .. Len(p) : Volume(SubSeq(p, 1, d)) = step_size })
        outer == From(p, inner + 1)
        steps == [off \in 1 .. turns - 1 |-> step(outer, off)]
        Sum[a \in Nat, b \in Nat] ==
            IF a > b THEN <<0, 0, 0>>
            ELSE IF a = b THEN steps[a]
            ELSE LET mid == (a + b) \div 2 IN Shifted(Sum[a, mid], Sum[mid + 1, b])
    IN  { Sum[1, off] : off \in 0 .. turns - 1 }

process_unroll_generic(p) == Offsets(p, len_unroll(p), 1)

\* Squares of 8 x 8 values that are transposed in registers.
Squares(p, mask) == /\ Len(p) >= 2 /\ mask = {}
                    /\ p[1].n = 8 /\ p[1].s[1] = 8 /\ p[1].s[2] = 1
                    /\ p[2].n = 8 /\ p[2].s[1] = 1 /\ p[2].s[2] = 8

process_unroll_tr8x8(p) ==
    { Shifted(o, <<8 * i + j, 8 * j + i, 0>>) :
        o \in Offsets(p, len_unroll(p) \div 64, 64),
        i \in 0 .. 7, j \in 0 .. 7 }

\* The loops around what is unrolled.
jit_loops(p) ==
    LET nfu == ndims_full_unroll(p)
        ldu == len_last_dim_unroll(p)
    IN  IF nfu = Len(p) THEN <<>>
        ELSE <<[n |-> p[nfu + 1].n \div ldu, s |-> Scaled(p[nfu + 1].s, ldu)]>>
                 \o From(p, nfu + 2)

------------------------------------------------------------------------------
(* The primitive.                                                          *)

create(imd, omd, mask, max_threads) ==
    LET p == prb_block_for_cache(prb_simplify(prb_normalize(prb_init(imd, omd, mask))))
        b == prb_thread_kernel_balance(p, max_threads)
        ndims_ker == Max({ k \in 1 .. b.kdims : Applicable(SubSeq(b.nodes, 1, k)) })
    IN  [status |-> IF Len(b.nodes) - ndims_ker > ndims_driver_max
                    THEN "unimplemented" ELSE "success",
         nodes |-> b.nodes, ndims_ker |-> ndims_ker, ends |-> b.ends]

\* All that loops add to the offsets of S.
Looped(S, loops) ==
    FoldLeft(LAMBDA T, e : { Shifted(t, Scaled(e.s, x)) : t \in T, x \in 0 .. e.n - 1 },
             S, loops)

\* The values that an execution moves: where from, where to and with which scale;
\* for_nd runs each item of the outer loops.
omp_driver(prb, mask) ==
    LET ker == SubSeq(prb.nodes, 1, prb.ndims_ker)
        drv == From(prb.nodes, prb.ndims_ker + 1)
        unrolled == IF Squares(ker, mask) THEN process_unroll_tr8x8(ker)
                    ELSE process_unroll_generic(ker)
    IN  [moved |-> Looped(Looped(unrolled, jit_loops(ker)), drv),
         moves |-> len_unroll(ker) * Volume(jit_loops(ker)) * Volume(drv)]

------------------------------------------------------------------------------
(* What the layouts mean.                                                  *)

\* memory_desc_wrapper::off_v
off_v(md, pos) ==
    LET Inner(i) == Volume(SelectSeq(From(md.blocks, i + 1),
                                     LAMBDA e : e.d = md.blocks[i].d))
        InBlock(i) == ((pos[md.blocks[i].d] \div Inner(i)) % md.blocks[i].n)
                          * Volume(From(md.blocks, i + 1))
        Outer(d) == (pos[d] \div Volume(Blocks(md, d))) * md.strides[d]
    IN  FoldFunction(LAMBDA x, y : x + y, 0, [i \in DOMAIN md.blocks |-> InBlock(i)])
            + FoldFunction(LAMBDA x, y : x + y, 0, [d \in DOMAIN pos |-> Outer(d)])

Positions(dims) ==
    FoldLeft(LAMBDA S, n : { Append(c, x) : c \in S, x \in 0 .. n - 1 }, {<<>>}, dims)

\* The scale of a position: they are in the order of the dimensions in mask.
ScaleOf(dims, mask, pos) ==
    FoldLeftDomain(LAMBDA x, d : IF d \in mask THEN x * dims[d] + pos[d] ELSE x, 0, pos)

Wanted(imd, omd, mask) ==
    { <<off_v(imd, c), off_v(omd, c), ScaleOf(imd.dims, mask, c)>> :
        c \in Positions(imd.dims) }
==============================================================================

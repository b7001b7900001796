------------------------------ MODULE BwdWeights ------------------------------
(***************************************************************************)
(* The backward weights convolution of AVX-512                             *)
(* (cpu/jit_avx512_common_convolution.cpp).  A grid of threads computes    *)
(* the gradient of the weights: threads that differ in ithr_mb sum over    *)
(* different images and keep what they have in a buffer each, of which     *)
(* diff_weights is the first; after a barrier of all threads each adds up  *)
(* its share of the weights.                                               *)
(*                                                                         *)
(* With ver_4fma the source is transposed image by image: the threads that *)
(* differ in ithr_oc_b only transpose an image together and all read the   *)
(* result, with a barrier of theirs before and after.                      *)
(*                                                                         *)
(* The reduction dimension counts units: images or, in the harnesses "2d"  *)
(* and "3d", rows or planes of the output, of which a thread takes those   *)
(* of one image at a time.                                                 *)
(***************************************************************************)
EXTENDS ConvBalance, Bags

CONSTANTS Convolutions,  \* jit_conv_conf_t of the convolutions
          MaxThreads,    \* dnnl_get_max_threads()
          Mic,           \* mayiuse(avx512_mic)
          MaxRounds      \* bound: times a thread goes through one barrier

ASSUME ThreadsAssumption == MaxThreads \in Nat \ {0} /\ Mic \in BOOLEAN

\* What init_conf() accepts; ver_4fma is for avx512_mic_4ops.
ASSUME ConvolutionAssumption ==
    \A j \in Convolutions :
        /\ j.harness \in {"mb", "2d", "3d"}
        /\ {j.fma4, j.is_1stconv, j.with_bias} \subseteq BOOLEAN
        /\ {j.mb, j.ngroups, j.nb_oc, j.nb_ic, j.ih, j.oh, j.od, j.kh, j.kd}
               \subseteq Nat \ {0}
        /\ j.fma4 => j.harness = "mb" /\ Mic
        /\ j.harness # "3d" => j.od = 1
        /\ j.harness = "2d" => j.oh > min_oh_reduce
        /\ j.is_1stconv => j.ngroups = 1
        /\ 2 * j.mb <= MaxRounds

VARIABLES sync,     \* dnnl_thr_syncable()
          jcp,      \* the convolution
          grid,     \* its threads
          pc,       \* pc[t]: where thread t is
          unit,     \* unit[t]: first unit of its share that is still to do
          entered,  \* entered[<<c, t>>]: how many times thread t has entered
          left,     \*    the barrier c, and left it
          tr_src,   \* tr_src[mb][r]: what row r holds of which image
          wei,      \* wei[mb]: diff_weights (0) and the partial weights
          bia       \* bia[mb]: the same for the bias

vars == <<sync, jcp, grid, pc, unit, entered, left, tr_src, wei, bia>>

nthr == grid.mb * grid.g * grid.oc * grid.ic
Threads == 0 .. nthr - 1

\* thread_info_t
ithr_ic_b(t) == t % grid.ic
ithr_oc_b(t) == (t \div grid.ic) % grid.oc
ithr_g(t) == ((t \div grid.ic) \div grid.oc) % grid.g
ithr_mb(t) == ((t \div grid.ic) \div grid.oc) \div grid.g
ithr_but_oc(t) == (ithr_mb(t) * grid.g + ithr_g(t)) * grid.ic + ithr_ic_b(t)

Of(n, threads, t) == Start(n, threads, t) .. End(n, threads, t) - 1
Gs(t) == Of(jcp.ngroups, grid.g, ithr_g(t))
OcBs(t) == Of(jcp.nb_oc, grid.oc, ithr_oc_b(t))
IcBs(t) == Of(jcp.nb_ic, grid.ic, ithr_ic_b(t))

PerImage == CASE jcp.harness = "mb" -> 1
              [] jcp.harness = "2d" -> jcp.oh
              [] jcp.harness = "3d" -> jcp.od
Units == jcp.mb * PerImage
UnitStart(t) == Start(Units, grid.mb, ithr_mb(t))
UnitEnd(t) == End(Units, grid.mb, ithr_mb(t))

\* The units of the image at hand.
Strip(t) ==
    unit[t] .. Small(UnitEnd(t), (unit[t] \div PerImage + 1) * PerImage) - 1

Transposes == jcp.fma4 /\ ~jcp.is_1stconv

\* Slices of a pair of blocks of channels, the units of the last addition.
Slices == IF jcp.harness = "3d" THEN jcp.kd ELSE jcp.kh

\* A cell of the weights: a group, a block of output channels and a slice of a
\* block of input channels.
WeiCells == (0 .. jcp.ngroups - 1) \X (0 .. jcp.nb_oc - 1)
                \X (0 .. jcp.nb_ic * Slices - 1)
BiaCells == (0 .. jcp.ngroups - 1) \X (0 .. jcp.nb_oc - 1)

\* Rows of the transposed source of one ithr_mb, one for each _ic and ih.
TrRows == 0 .. jcp.ngroups * jcp.nb_ic * jcp.ih - 1

None == -1
Garbage == SetToBag({None})

\* compute_diff_bias() belongs to a reducer of its own; in the other cases the
\* kernel sums up the bias.
BiasInKernel == jcp.with_bias /\ (jcp.harness # "mb" \/ (jcp.fma4 /\ jcp.is_1stconv))

\* The barrier contexts: tr_src_bctx[c] for c >= 0.
WeiReduction == -1
Team == -2
Contexts == Team .. (nthr \div grid.oc) - 1

\* prepare_scratchpad_data() and the start of the section of nthr_ threads.
Init == /\ jcp \in Convolutions
        /\ sync \in BOOLEAN
        /\ grid = ConvThreads(jcp, MaxThreads, Mic, sync)
        /\ pc = [t \in Threads |-> "images"]
        /\ unit = [t \in Threads |-> UnitStart(t)]
        /\ entered = [x \in Contexts \X Threads |-> 0]
        /\ left = [x \in Contexts \X Threads |-> 0]
        /\ tr_src = [m \in 0 .. grid.mb - 1 |-> [r \in TrRows |-> <<None, r>>]]
        /\ wei = [m \in 0 .. grid.mb - 1 |-> [c \in WeiCells |-> Garbage]]
        /\ bia = [m \in 0 .. grid.mb - 1 |-> [c \in BiaCells |-> Garbage]]

static == <<sync, jcp, grid>>
memory == <<tr_src, wei, bia>>
barriers == <<entered, left>>

\* The function f with g's value for the arguments in S.
Overwritten(f, S, g(_)) == [x \in DOMAIN f |-> IF x \in S THEN g(x) ELSE f[x]]

Goto(t, place) == pc' = [pc EXCEPT ![t] = place]
Move(t, from, to) == pc[t] = from /\ Goto(t, to)

------------------------------------------------------------------------------
(* Barriers: those of tr_src_bctx are of the threads with one ithr_but_oc, *)
(* that of wei_bia_reduction_bctx and dnnl_thr_barrier() are of all.       *)

Bar(m) == INSTANCE Barrier WITH Threads <- m, Rounds <- MaxRounds

TrMates(t) == { u \in Threads : ithr_but_oc(u) = ithr_but_oc(t) }

\* The barrier that a thread at this place waits in, and where it goes then.
Waiting(t) ==
    CASE pc[t] = "before" -> [c |-> ithr_but_oc(t), m |-> TrMates(t), to |-> "transpose"]
      [] pc[t] = "after" -> [c |-> ithr_but_oc(t), m |-> TrMates(t), to |-> "kernel"]
      [] pc[t] = "partial" -> [c |-> WeiReduction, m |-> Threads, to |-> "add"]
      [] pc[t] = "bias barrier" -> [c |-> Team, m |-> Threads, to |-> "bias"]

InBarrier(t) == pc[t] \in {"before", "after", "partial", "bias barrier"}

Arrive(t) ==
    /\ InBarrier(t)
    /\ \E m \in {{Waiting(t).c} \X Waiting(t).m} :
          Bar(m)!Enter(<<Waiting(t).c, t>>)
    /\ UNCHANGED <<static, pc, unit, memory>>

Pass(t) ==
    /\ InBarrier(t)
    /\ \E m \in {{Waiting(t).c} \X Waiting(t).m} :
          Bar(m)!Leave(<<Waiting(t).c, t>>)
    /\ Goto(t, Waiting(t).to)
    /\ UNCHANGED <<static, unit, memory>>

\* A turn of a spin loop.
Spin(t) ==
    /\ InBarrier(t)
    /\ LET Count(u) == entered[<<Waiting(t).c, u>>] IN
       \E u \in Waiting(t).m : Count(u) < Count(t)
    /\ left[<<Waiting(t).c, t>>] < entered[<<Waiting(t).c, t>>]
    /\ UNCHANGED vars

------------------------------------------------------------------------------
(* compute_diff_weights(), _2d and _3d                                     *)

\* Mutant: no barrier before the buffer is written again.
TransposeFirst(t) ==
    /\ pc[t] = "images" /\ unit[t] < UnitEnd(t)
    /\ Goto(t, IF Transposes THEN "transpose" ELSE "kernel")
    /\ UNCHANGED <<static, unit, barriers, memory>>

NextImage(t) ==
    /\ pc[t] = "images" /\ unit[t] < UnitEnd(t)
    /\ Goto(t, IF ~Transposes THEN "kernel"
               ELSE IF grid.oc > 1 THEN "before" ELSE "transpose")
    /\ UNCHANGED <<static, unit, barriers, memory>>

\* Rows are counted from that of the first block on, whatever the group is.
MyTrRows(t) ==
    LET ic_b_work == Cardinality(IcBs(t))
        work == Cardinality(Gs(t)) * ic_b_work * jcp.ih
        start == Start(work, grid.oc, ithr_oc_b(t))
        g == Start(jcp.ngroups, grid.g, ithr_g(t))
                 + start \div (ic_b_work * jcp.ih)
        ic_b == Start(jcp.nb_ic, grid.ic, ithr_ic_b(t))
                    + ((start \div jcp.ih) % ic_b_work)
        first == (g * jcp.nb_ic + ic_b) * jcp.ih + (start % jcp.ih)
    IN  first .. first + Size(work, grid.oc, ithr_oc_b(t)) - 1

\* uker_trans()
Transpose(t) ==
    /\ Move(t, "transpose", IF grid.oc > 1 THEN "after" ELSE "kernel")
    /\ tr_src' = [tr_src EXCEPT ![ithr_mb(t)] =
                     Overwritten(@, MyTrRows(t), LAMBDA r : <<unit[t], r>>)]
    /\ UNCHANGED <<static, unit, barriers, wei, bia>>

\* The transposed rows of a block of input channels.
BlockRows(g, ic_b) == LET first == (g * jcp.nb_ic + ic_b) * jcp.ih
                      IN  first .. first + jcp.ih - 1

MyCells(t) == Gs(t) \X OcBs(t) \X { ic_b * Slices + k : ic_b \in IcBs(t),
                                                       k \in 0 .. Slices - 1 }

\* What the kernel adds to a cell: the units of the strip, if it is given the
\* image they belong to.
Contribution(t, cell) ==
    IF /\ Transposes
       /\ \E r \in BlockRows(cell[1], cell[3] \div Slices) :
             tr_src[ithr_mb(t)][r] # <<unit[t], r>>
    THEN Garbage ELSE SetToBag(Strip(t))

\* Mutant: only the first image of the batch overwrites.
FirstOfBatch(t) == unit[t] \div PerImage = 0

\* img == img_first: the kernel overwrites what is in its cells.
FirstImage(t) == unit[t] \div PerImage = UnitStart(t) \div PerImage

MyBias(t) == IF BiasInKernel /\ 0 \in IcBs(t) THEN Gs(t) \X OcBs(t) ELSE {}

Kernel(t) ==
    LET Sum(old, new) == IF FirstImage(t) THEN new ELSE old (+) new
        mb == ithr_mb(t)
    IN  /\ Move(t, "kernel", "images")
        /\ wei' = [wei EXCEPT ![mb] =
                      Overwritten(@, MyCells(t),
                                  LAMBDA c : Sum(wei[mb][c], Contribution(t, c)))]
        /\ bia' = [bia EXCEPT ![mb] =
                      Overwritten(@, MyBias(t),
                                  LAMBDA c : Sum(bia[mb][c], SetToBag(Strip(t))))]
        /\ unit' = [unit EXCEPT ![t] = @ + Cardinality(Strip(t))]
        /\ UNCHANGED <<static, barriers, tr_src>>

------------------------------------------------------------------------------
(* reduce_diff_weights(), _3d and reduce_diff_bias()                       *)

\* reduce_diff_bias() is called for the harnesses "2d" and "3d".
ToBias == IF ~(jcp.with_bias /\ jcp.harness # "mb") THEN "done"
          ELSE IF sync /\ grid.mb > 1 THEN "bias barrier" ELSE "bias"

ToReduction == IF grid.mb = 1 THEN ToBias ELSE IF sync THEN "partial" ELSE "add"

\* The cells thread t adds up.
MyShare(t) ==
    LET Gw == Cardinality(Gs(t))
        Ow == Cardinality(OcBs(t))
        Iw == Cardinality(IcBs(t)) * Slices
        Cell(w) == << Start(jcp.ngroups, grid.g, ithr_g(t)) + w \div (Ow * Iw),
                      Start(jcp.nb_oc, grid.oc, ithr_oc_b(t)) + ((w \div Iw) % Ow),
                      Start(jcp.nb_ic, grid.ic, ithr_ic_b(t)) * Slices + (w % Iw) >>
    IN  { Cell(w) : w \in Of(Gw * Ow * Iw, grid.mb, ithr_mb(t)) }

\* Mutant: threads without a share of the sum skip its barrier.
ImagesDoneEarly(t) ==
    /\ pc[t] = "images" /\ unit[t] = UnitEnd(t)
    /\ Goto(t, IF ~sync THEN "end of section"
               ELSE IF MyShare(t) = {} THEN ToBias ELSE ToReduction)
    /\ UNCHANGED <<static, unit, barriers, memory>>

ImagesDone(t) ==
    /\ pc[t] = "images" /\ unit[t] = UnitEnd(t)
    /\ Goto(t, IF sync THEN ToReduction ELSE "end of section")
    /\ UNCHANGED <<static, unit, barriers, memory>>

\* Without barriers a second section starts when the first one has ended.
SecondSection ==
    /\ \A t \in Threads : pc[t] = "end of section"
    /\ pc' = [t \in Threads |-> ToReduction]
    /\ UNCHANGED <<static, unit, barriers, memory>>

\* f[0] with what the others have added to it.
Total(f, cell) ==
    LET sum[m \in 0 .. grid.mb - 1] ==
            IF m = 0 THEN f[0][cell] ELSE sum[m - 1] (+) f[m][cell]
    IN  sum[grid.mb - 1]

AllBias == [c \in BiaCells |-> Total(bia, c)]

\* The first convolution of ver_4fma adds up its bias with the weights.
AddsBias(t) == BiasInKernel /\ jcp.harness = "mb" /\ t = 0 /\ MyShare(t) # {}

AddUp(t) ==
    /\ Move(t, "add", ToBias)
    /\ wei' = [wei EXCEPT ![0] = Overwritten(@, MyShare(t), LAMBDA c : Total(wei, c))]
    /\ bia' = IF AddsBias(t)
              THEN [bia EXCEPT ![0] = AllBias] ELSE bia
    /\ UNCHANGED <<static, unit, barriers, tr_src>>

ReduceBias(t) ==
    /\ Move(t, "bias", "done")
    /\ bia' = IF t = 0 THEN [bia EXCEPT ![0] = AllBias] ELSE bia
    /\ UNCHANGED <<static, unit, barriers, tr_src, wei>>

Step(t) == \/ Arrive(t) \/ Pass(t) \/ Spin(t)
           \/ NextImage(t) \/ Transpose(t) \/ Kernel(t) \/ ImagesDone(t)
           \/ AddUp(t) \/ ReduceBias(t)

AllDone == \A t \in Threads : pc[t] = "done"

Next == (\E t \in Threads : Step(t)) \/ SecondSection \/ (AllDone /\ UNCHANGED vars)

\* All threads of the section run: the barriers rely on it.
Spec == /\ Init /\ [][Next]_vars
        /\ \A t \in 0 .. MaxThreads - 1 : WF_vars(t \in Threads /\ Step(t))
        /\ WF_vars(SecondSection)

------------------------------------------------------------------------------
(***************************************************************************)
(* When all threads are done, diff_weights holds in every cell, and        *)
(* diff_bias where the kernel sums it up, the contribution of every image  *)
(* or row of the batch exactly once: no buffer is added that nobody has    *)
(* written, and no kernel has seen the transposed rows of another image.   *)
(***************************************************************************)
SumIsComplete ==
    AllDone => /\ \A c \in WeiCells : wei[0][c] = SetToBag(0 .. Units - 1)
               /\ BiasInKernel =>
                     \A c \in BiaCells : bia[0][c] = SetToBag(0 .. Units - 1)

Writes(t) ==
    CASE pc[t] = "transpose" -> {"tr"} \X {ithr_mb(t)} \X MyTrRows(t)
      [] pc[t] = "kernel" -> ({"wei"} \X {ithr_mb(t)} \X MyCells(t))
                                 \cup ({"bia"} \X {ithr_mb(t)} \X MyBias(t))
      [] pc[t] = "add" -> ({"wei"} \X {0} \X MyShare(t))
                              \cup (IF AddsBias(t) THEN {"bia"} \X {0} \X BiaCells ELSE {})
      [] pc[t] = "bias" /\ t = 0 /\ grid.mb > 1 -> {"bia"} \X {0} \X BiaCells
      [] OTHER -> {}

Reads(t) ==
    CASE pc[t] = "kernel" /\ Transposes ->
             {"tr"} \X {ithr_mb(t)}
                 \X UNION { BlockRows(g, ic_b) : g \in Gs(t), ic_b \in IcBs(t) }
      [] pc[t] = "add" -> ({"wei"} \X (1 .. grid.mb - 1) \X MyShare(t))
                              \cup (IF AddsBias(t)
                                    THEN {"bia"} \X (1 .. grid.mb - 1) \X BiaCells ELSE {})
      [] pc[t] = "bias" /\ t = 0 -> {"bia"} \X (1 .. grid.mb - 1) \X BiaCells
      [] OTHER -> {}

(***************************************************************************)
(* No thread writes what another one is reading or writing: neither the    *)
(* transposed image that its mates still read, nor partial weights that    *)
(* are being added up.                                                     *)
(***************************************************************************)
NoRace ==
    \A t, u \in Threads :
        t # u => Writes(t) \cap (Writes(u) \cup Reads(u)) = {}

(***************************************************************************)
(* All threads leave the section: those that share a barrier call it       *)
(* equally often, whatever their shares of images and of the sum are.      *)
(***************************************************************************)
Finishes == <>AllDone
==============================================================================

# DNNL (mkl-dnn): a specification of its coordination logic

This directory holds TLA+ models of the parts of DNNL in which several
threads, or several objects, must agree: the spin barrier, work sharing, the
threaded gemm, parallel reductions and the backward weights convolutions, the
primitive cache and the scratchpads, and the partitions and loops computed
before any thread starts. Every definition is translated from the code under
`src/`, and `PROJECT.json` maps it to the lines it stands for. What the modules
leave out is arithmetic on tensors: a kernel is one step that leaves a mark.

Contents: [inventory](#inventory), [modules](#modules),
[runs](#runs-and-bounds), [fairness](#fairness), [proofs](#proofs),
[findings](#findings), [limits](#what-is-not-modelled), [plan](#plan).

## Inventory

A user creates an *engine*, makes *primitive descriptors* (an implementation is
chosen from a list, and books its scratchpad), creates *primitives* from them
(through the cache of the engine) and executes them on a *stream*. On a CPU the
stream runs the primitive in the call: parallelism is inside the primitive,
in sections started by `parallel` / `parallel_nd`, whose threads share work with
`balance211` and meet, if at all, in barriers.

| Component | State it keeps | Operations | Interacts with | What is hard | What makes it correct | Modelled in |
|---|---|---|---|---|---|---|
| Spin barrier (`cpu_barrier`) | `ctr`, `sense` | `ctx_init`, `barrier` (emitted code) | reducers, convolutions, bnorm; store buffers | reuse of a context while slow threads still spin; two plain stores release the team | nobody leaves before all have entered; nobody is left behind | Barrier, SimpleBarrier |
| Work sharing (`dnnl_thread*`, `utils`) | iterator of each thread | `balance211`, `for_nd`, `parallel_nd`, `nd_iterator_*` | every primitive | the runtime decides the team; shares start and end inside a row | every item is run exactly once | Balance211, ParallelNd |
| No-copy sgemm (`jit_avx_gemm_f32`, `gemm_utils_f32`) | flag per share, buffers | partition, compute, add now or later | work sharing, OpenMP | threads spin on flags of other shares; small teams | every part added once, no race, the call returns | NocopyPartition, GemmNocopy |
| Gemm driver (`gemm_driver`, `gemm_threading`, `gemm_partition`) | flags, the shared copy of A | partition, parallel copy, kernels, k-sum | runtime barriers, no-copy sgemm | barriers of the team inside a loop over shares; failures | slices tile C; sums complete; the copy stays while it is read; the call returns | GemmThreading, GemmDriver |
| Reducer (`cpu_reducer`) and AVX2 backward weights | balance, contexts, scratchpad | `balance`, `get_local_ptr`, `reduce` | spin barrier | two reductions with different groups in one section; idle threads | each result is the sum of one contribution per member | ReduceBalancer, Reducer |
| Backward weights (AVX-512) | partial weights, barrier contexts, transposed source | balance, transpose, compute, reduce weights and bias | spin barrier, work sharing | nested groups, each with a barrier that all members must call equally often | as for the reducer, and no hang | ConvBalance, BwdWeights |
| Scratchpad registry (`memory_tracking`) | offset map, size | `book`, `get`, prefixes | descriptors, primitives | offsets are fixed before the base is known; nested blocks share one name space | buffers are disjoint, aligned, inside | MemoryTracking |
| Primitive cache (`engine.hpp`, `primitive_cache.hpp`) | LRU list, mapper, recursive mutex | `get_primitive` | primitives, nested primitives | unlock before the wrapper exists; nested creation under the lock; failure | list and mapper agree; lock let go; nothing cached twice | PrimitiveCache |
| Primitives and scratchpads (`primitive.cpp`, `scratchpad.cpp`) | wrapper: buffer or reference; per thread: size, count | create, execute, destroy | cache | thread-local state reached from whichever thread runs the code | a running primitive has a scratchpad that fits | PrimitiveCache |
| Jit reorder (`jit_uni_reorder*`) | none | creation of loops, execution | work sharing | loops with three strides each are merged, sorted, folded, cut and moved | every value moves once, to its place and with its scale | UniReorder |
| Batch normalization | partial means and variances | three passes per channel block | spin barrier | barriers that depend on the team's shape | passes do not overlap | no |
| Gemm-based convolution | partial weights | im2col, gemm, reduction | work sharing, runtime barriers | like the reducer, simpler | like the reducer | no |
| Descriptors, attributes, memory, engines, streams | plain data | constructors, checks, lists | | layout arithmetic | | `off_v` in UniReorder |
| Recurrent networks | workspace | grid of cells | gemm | address arithmetic | | no |
| Kernels, Winograd, other primitives | | emitted code, loops | work sharing | numerics | | no |
| GPU runtime, verbose, profiling, tests | | | | | | no |

`PROJECT.json` lists all of these with their files and status, and the hazards,
each at its line, with the properties that would catch it. Two more were
considered: the buffers for parts of k are allocated without a check
(`gemm_driver.cpp:1604`), so a failed allocation there is undefined behaviour and
not a state of the program; and nothing ties a B that was packed for a team to
the team that uses it later (`gemm_driver.cpp:1617`), which `GemmDriver` assumes
(`OwnTeam`; the library itself packs A only).

## Modules

`Balance211` is used by nearly all others. `Barrier` is instantiated by
`SimpleBarrier` (which implements it), `Reducer` and `BwdWeights` (which use it).
`GemmDriver` extends `GemmThreading`, which extends `NocopyPartition`;
`MCPartition` brings all the pure partitions together.

### Barrier, SimpleBarrier

`Barrier` is what a caller may rely on: `entered[t]` and `left[t]` count
barriers, and `Leave(t)` needs every thread to have entered as often as `t`.

`SimpleBarrier` is the x86 code that `simple_barrier::generate` emits, one
action per memory access: `Call` (with the early exit for one thread),
`ReadSense`, `Xadd`, `Reset` and `Notify` for the last thread, `SpinOn`/`Spin`
for the others, `Exit`. Plain stores pass through a FIFO store buffer and
become visible by `Drain` (x86-TSO); `xadd` is locked and runs with an empty
buffer. `entered` and `left` are history variables. The refinement mapping of
`ImplementsBarrier` is the identity on them.

### Balance211, ParallelNd

`Balance211` gives `balance211` as operators (`Start`, `Size`, `End`).
`ParallelNd` is a parallel section over a grid: the runtime grants any team up
to `MaxTeam`, each thread enters `for_nd`, initialises its iterator
(`nd_iterator_init`) and runs its share, one item at a time
(`nd_iterator_step`) or a strip at a time (`nd_iterator_jump`, as in the
AVX-512 convolution). `dims` and `iter` are the `D0`, `D1`, ... and `d0`, `d1`, ...
of the code, `cur` and `last` are `iwork` and `end`.

### NocopyPartition, GemmNocopy

`NocopyPartition` is `calc_nthr_nocopy_avx`, `calc_nthr_nocopy_avx512_common` and
`partition_unit_diff`: pure operators, the loops as recursive functions. The
AVX-512 partition computes a ratio in `float`; `RoundsUp` is that rounding for
the numbers that occur. `GemmNocopy` is `jit_avx_gemm_f32` on that partition
(the AVX-512 variant has the same section). `ithr[p]` is the share that thread
`p` runs (a thread of a small team runs several in a row), `flag` is
`ompstatus`, `ready` the buffers that are filled, and `C[b][j][k]` counts how
often part `k` of the sum is in column `j` of block `b`. An addition reads and
writes `C` in two steps (`Add`, `AddEnd`), so that unprotected additions get
lost. A store to a flag and a load of it are single steps; x86 keeps stores in
order, and that is all the code asks of it. `Join` decides on the second section
as the code does, by `ompstatus[0]`. The partition is that of runtimes with
barriers (OpenMP).

### GemmThreading, GemmDriver

`GemmThreading` is the choice the gemm driver makes before its section:
`nocopy_checker_avx2` and `_avx512`, `set_thread_opts_nopack`,
`set_thread_opts_pack` with the blocking of each dimension and the rebalancing
of m and n, `partition_1d`, `partition_2d`, `partition_2d_minblk_with_primes`,
`get_thread_slice`, and `gemm_route`: which of the no-copy sgemm, one thread or
a section does the work, for the team asked for and for the smaller one there
is.

`GemmDriver` is the section. A thread takes shares `ithr`, `ithr + nthr`, ...
(`TakeShare`, `NextShare`); a share is computed alone (`Compute`, then
`sum_k_blocks`, which spins on `compute_done` unless parts are added up
in a second section) or together with all others (`Alloc`, `Copy`, `Kernel`
and the barriers of the team between them). `Compute`, `Alloc` and `Kernel` may
run out of memory. `c[b][j]` is the set of what was added to a column;
`bufferA[i]` the iteration whose band of A is in the shared copy at place `i`.

### ReduceBalancer, Reducer

`ReduceBalancer` is `reduce_balancer_t::balance`, the numbering of groups and
jobs, and the rectangles of `cpu_reducer_2d_t::reduce_nolock`. `Reducer` is the
AVX2 backward weights convolution on it: the section computes and reduces the
weights and then the bias, each with its own reducer and so with groups of its
own. `Compute` accumulates where `get_local_ptr` points, `Enter`/`Leave` are the
barrier of the group (an instance of `Barrier`), `AddUp` is `reduce_nolock`.
Where threads may not synchronise (`dnnl_thr_syncable()` is false) `NextSection`
separates the same steps. Memory cells are bags of contributions
`<<thread, element>>`, so that a contribution that is lost, doubled, misplaced
or stale shows. The memory first holds garbage. All addresses of a thread are
computed once, in `plan`.

### ConvBalance, BwdWeights

`ConvBalance` is `balance()` of the AVX-512 convolution: the cheapest grid of
threads over images, groups, output and input channels, by cost in memory, then
in computation, then widened. `BwdWeights` is
`jit_avx512_common_convolution_bwd_weights_t` on that grid, in its three
harnesses: threads that differ only in output channels transpose an image
together, with their barrier before and after (`Transpose`); every thread adds
up the images of its share in a buffer of its own (`Kernel`); after a barrier
of all, each adds up its part of the weights (`AddUp`), and the bias follows
(`ReduceBias`). Cells are bags of units (images, rows or planes). The emitted
kernel is called one image late, its arguments pipelined, and flushed at the end
of an image; in the model it runs at once, since nothing happens between.

### MemoryTracking

`registry_t`: `Chain` makes a scope with a longer prefix, `Book` reserves bytes,
`Grant` fixes the base address, and `get` computes pointers from it. `requests`
is a history variable: what each block asked for. Addresses are numbers.

### PrimitiveCache

One call of `get_primitive` is a frame on `stack[t]`: `Lock`, `Lookup` (a hit
moves the entry to the front and unlocks), `Construct` (pushes a frame for
every nested primitive, then makes the implementation), `Wrap` (the wrapper and
its scratchpad), `InitAndAdd` or `InitFails`, `Return`. `Execute`, `Executed`
and `Destroy` are what a user does with a wrapper. Objects are destroyed when
nothing refers to them (`Sweep`): `shared_ptr` for implementations, `delete` for
the wrappers they own. A destroyed `global_scratchpad_t` takes its reference
from the count *of the thread that destroys it*, as `thread_local` has it.

Abstractions: a descriptor is a key; attributes, memory arguments and GPU
engines are left out; scratchpads are in library mode. On CPUs no `init()`
fails today; the path exists in the code, so `Failing` names keys for which it
does. Constructors ignore the status of nested creations, hence the assumption
that those succeed. `depth` of nesting is one, which is what the code has.
A `program` names the threads, keys, capacity and number of wrappers of a run.

### UniReorder

The jit reorder, from two memory descriptors to the moves it makes. `create`
follows the code function by function: the loops of both layouts
(`cvt_mem_desc_to_layout_desc`) cut to common lengths with the strides of the
scales (`prb_init`), sorted (`prb_normalize`), folded (`prb_simplify`), cut and
moved for the cache (`prb_block_for_cache`) and for threads
(`prb_thread_kernel_balance`). `omp_driver` is the set of moves of an execution:
what the emitted kernel unrolls (the offsets of `step`, or squares of 8 x 8
transposed in registers), its loops, and the loops of the driver. The reference
is `off_v`, which gives the place of an element in a layout. A search for a
divisor that would not end yields `Never`.

## Runs and bounds

| Run | Module | Question | Bounds, and why they are enough |
|---|---|---|---|
| `barrier` | SimpleBarrier | does the emitted code implement `Barrier`, with no lost wakeup, under TSO? | 4 threads, 3 rounds: `sense` has both values, its reuse by a third round overlaps with late spinners of the second. The safety part is proved for all values. |
| `parallel_nd` | MCParallelNd | is every item run exactly once? | teams 1..4; grids of rank 1 to 3, fewer items than threads, dimensions of 0 and 1, shares that start and end inside a row. |
| `partitions` | MCPartition | do the pure partitions deal out everything once, to threads there are? | 40 116 inputs around the thresholds of each, see below. |
| `gemm_pack` | MCPartition, `MCPartitionPack.cfg` | does a packed partition have its sizes? | expected violation: f32 matrices with few columns. |
| `gemm` | MCGemmNocopy | are the sums complete and free of races, and does the call return, for every granted team? | 1 block in 4 parts (the swap of first and last part leaves two in the middle) and 2 blocks in 2 parts; teams 1..4 of 4. |
| `gemm_team` | MCGemmNocopy, `MCGemmNocopyTeam.cfg` | the same when fewer shares than threads exist | expected violation: 6 shares, 12 threads, a team of 6. |
| `gemm_driver` | MCGemmDriver | is C complete, the copy of A stable, and does the call return, whatever fails? | 6 calls: three parts of one block and two of two, for more and fewer threads than shares; two rounds of a copy by three threads, the second reusing the first's buffer; packed A. 126 501 states. |
| `reducer` | MCReducer | is each result complete, without races, and do all leave? | 6 threads: 2 groups of 3 with uneven jobs and incomplete cache lines; rectangles with a member without one, followed by a bias of which one thread adds up all and one is idle; with and without barriers. |
| `bwd_weights` | MCBwdWeights | the same for the AVX-512 convolution | 7 convolutions on 2 to 4 threads: pairs that transpose unequal numbers of images, two groups, rows, planes, a thread without a share of the sum, a batch that nobody shares; with and without barriers. 12 391 states. Its safety part is proved for all. |
| `memory` | MCMemoryTracking | are buffers aligned, inside, disjoint? | 2 buffers in chains of up to 3 prefixes, sizes around a line, both sides of the minimal alignment, 3 bases. Proved for all. |
| `cache` | MCPrimitiveCache | do cache, lock, wrappers and scratchpads agree? | one thread with nesting, a failure and a cache of 1 entry (creating evicts what was nested a moment ago); two threads with 4 keys and 2 entries (evictions between unlock and wrap, simultaneous misses). 220 352 states. |
| `cache_foreign` | MCPrimitiveCache, `MCPrimitiveCacheForeign.cfg` | cached implementations with nested primitives on another thread | expected violation. |

`Rounds`, `MaxRounds`, `MaxTeam`, `MaxThreads`, `MaxBooked`, `MaxScopes` and
`MaxIds` are bounds of the models; the rest are inputs of the program. `MaxIds`
only numbers objects: TLC would stop with an error if it were reached.

The inputs of `partitions`: no-copy problems around the block sizes 16, 32, 48,
64, 192 and 384, on AVX and AVX-512, for nine team sizes, prime and composite;
gemm calls around the thresholds of the driver for f32 and s8, for teams as
large as asked for and smaller, with and without packing; reductions on a grid
of teams, sizes and limits on buffers, some without room for a job of each thread,
the weights of cubic kernels, and rectangles up to 3 x 3 blocks so that shares start and end inside rows; convolutions of few and many images, channels
and groups in each harness; conversions between plain, permuted and blocked
layouts that need cutting for the cache, borrowing between kernel and driver in
both directions, loops of prime length, squares of 8 x 8, two loops in the
kernel and up to three in the driver, with one scale or many.

Properties, by run:

- *Barrier*: `ImplementsBarrier` (refinement), `EverybodyLeaves` (every thread
  leaves every barrier), `ReleaseIsExclusive` (one plain writer, and nobody near
  the xadd while the counter is reset), `RoundInv` (the inductive invariant).
- *ParallelNd*: `IteratorInStep`, `AllItemsRun` (exactly once).
- *Partitions*: `FitsThreads`, `EveryShareHasWork` (an empty share never sets
  its flag), `BandsArePartition`; `SlicesTile`; `GroupsFitTeam`,
  `JobsArePartition`, `BuffersBounded`, `BlocksArePartition`; `GridHasWork`;
  `EveryValueMoved` (tensors without padding).
- *No-copy sgemm*: `SumIsComplete`, `NoRace`, `Returns`.
- *Gemm driver*: `CompleteOnSuccess`, `CopyStaysWhileRead`, `Returns`.
- *Reducer*: `ReductionComplete`, `NoRace`, `Finishes`.
- *BwdWeights*: `SumIsComplete`, `NoRace`, `Finishes`.
- *MemoryTracking*: `LedgerInv` (the inductive invariant, with its types),
  `EveryRequestServed`, `BuffersDisjoint`.
- *Primitive cache*: `CacheConsistent`, `ScratchpadFits`, `ScratchpadFreed`,
  `LockReleased`; its `TypeOK` includes that no reference dangles.

Each property of a passing run is also run against a mutant of a definition
(a dropped wait, an off-by-one, a missing reset) that violates it; the mutated
operators stand right before the definitions they replace and are used by
nothing else.

Deadlock is checked in all runs. Spin loops and waiting for a mutex are steps
that change nothing, so a team that hangs shows as a violation of liveness.

## Fairness

Weak fairness is assumed for the steps of each thread of a team: the operating
system runs all of them, which spin loops rely on throughout (the emitted
code of the barrier spins with `pause`, sgemm and the gemm driver with a loop
on a volatile flag, the OpenMP barrier likewise). Store buffers drain
(`WF(Drain)`): the x86 manuals promise it. The end of a section (`Join`,
`NextSection`, `SecondSection`) happens when all its threads are done. For
`PrimitiveCache` only steps inside `get_primitive` are fair, one thread at a time;
nothing is assumed about who gets the mutex next, nor do users have to execute or
destroy anything. Accordingly `LockReleased` says that the mutex is let go, not
that every thread gets it. `MemoryTracking` and `MCPartition` promise no progress.

## Proofs

TLAPS checks the proofs for every value of the constants. `WorkSharingProofs` has
what is proved of the pure algorithms that deal out work (`balance211`, the
reduction balancer, `calc_nthr_nocopy`, `partition_unit_diff`); `ReducerProofs`,
`GemmNocopyProofs` and `GemmDriverProofs` prove about concurrent components with its
theorems. `PartitionProofs` states them as the invariants of the run `partitions`, adds
the grid of a convolution and proves, from it, the convolution of `BwdWeights`; and it
proves what `ParallelNd` states of the loops under which all this work is shared.
`SimpleBarrierProofs`, `MemoryTrackingProofs` and `PrimitiveCacheProofs` stand alone.

*Assumptions.* Barrier: `Threads` is a finite, non-empty set, `Rounds` a natural
number. Shares: naturals with a positive team. Sections: grids of one dimension or
more, of any sizes, and a positive limit on the team (`GridsAssumption`,
`MaxTeamAssumption`). Registry: keys and prefixes fit
their fields and alignments divide, or are divided by, 64 (`FieldsAssumption`,
`AlignmentsAssumption`: the code relies on both without a check). Gemm driver:
calls have positive numbers of shares, parts and blocks of A, the parts divide the
shares evenly, and there are several parts only in a partition made when packing
for copies that nobody shares (`set_thread_opts_pack` sets `nonshared`,
`set_thread_opts_nopack` sets `nthrs_k = 1`; `CallAssumption`, `BoundAssumption`).
Primitive cache: threads are positive numbers,
programs use known threads and keys, nested primitives own none and do not
fail (`NestedAssumption`), and there are finitely many identifiers: constructors
wait for a free one, a bound of the model. Balances of reductions: what `balance()` asserts of its
inputs (`BalancerInput`). Reducers: the balance is the one `balance()` returns for
their team (`BalanceAssumption`), and the blockings of the 1x1 convolution divide
what they block (`ShapeAssumption`; the asserts of
`jit_avx2_1x1_conv_kernel_f32.cpp:621` and `:636` and of `cpu_reducer.cpp:430`).
No-copy sgemm: positive sizes, the partition `calc_nthr_nocopy` returns, and any
team from one thread to the maximum. Backward weights: a positive number of threads
(`ThreadsAssumption`), and convolutions as `init_conf` accepts them
(`ConvolutionAssumption`: positive sizes, one plane except in the harness "3d", rows
enough for the harness "2d", the 4fma instructions only on their processors and
with the harness "mb"; `MaxRounds`, the bound on barriers, admits the two that a
thread takes for each image). The run `partitions`: arguments that the
callers can pass (`InputAssumption`), with limits on buffers of any size.

*The barrier.* `RoundInv` describes every reachable state by the number `g` of
rounds released so far. Either the round is gathering: each thread is coming
(possibly still on its way out of the previous barrier, or spinning on a sense
that has flipped since) or waits on the present sense, and `ctr` counts the
waiting ones, of which there are not all. Or a thread `r` is releasing the round:
it is at or past its two stores, at least one of which is not visible yet, and
*all* others wait. The invariant is needed in this form because the property,
that nobody leaves early, depends on what a spinning thread saved, which depends
on the store that is still in a buffer. `GatheringStep`, `ReleasesStep` and
`AloneStep` show that each action keeps it. From it follow `Invariance`,
`TypeCorrect` (the counter stays within 0..nthr), `Exclusive`
(`ReleaseIsExclusive`), `Refinement` (`Spec => ImplementsBarrier`: an `Xadd` or a
lone `Call` is an `Enter`, an `Exit` a `Leave`, all else stutters) and
`NobodyReleasedEarly` (a thread that left r barriers proves that all entered r).

*Work sharing.* `SharesAreConsecutive` (the first share starts at 0, each starts
where the last one ended, the last ends at n), `SharesAreBalanced` (sizes
differ by at most one) and `SharesArePartition` (each item is in exactly one
share), for every n and every team.

*The scratchpad registry.* `LedgerInv` is inductive: slots, counted with all the
bytes that alignment may skip, are disjoint and inside `size_`; every request has
a slot under the number that encodes its path of prefixes, and every slot a
request. Two facts carry it. The prefix of a scope is a number to the base of the
field (`Encode`, `Field`), and such numbers can be decoded, so different paths
never share a key (`GlobalKeysUnique`); and rounding up moves an address by less
than the alignment, so `get` stays in the slot. Hence `LedgerHolds`,
`RequestsServed` and `NoOverlap`, for every base address.

*The choice of threads.* `NocopyMonotone`: a problem left to the no-copy kernels
for some number of threads is left to them for every larger number. Since the
section asks again only for a smaller team after copying was chosen for a larger
one, its own no-copy route is never taken. `Partition1dTiles`: `partition_1d`
gives each row to exactly one thread. `BlocksCover`: the blocks of
`choose_blocking` cover the dimension, the last has work, threads are only dropped.

*The copy of A.* `CopyInv` says where a thread is, from the number of barriers it
has reached: the first belongs to the allocation, the even ones follow the
copy, the odd ones the multiplication, and no thread has passed a barrier that
another has not reached, so that two threads are never more than one
barrier apart. From the distance follows what each has copied. A thread that
computes has passed an even barrier, so all have copied its iteration and nobody
has reached the next but one; nobody overwrites, nobody frees. `FirstStep` and the
lemmas for each action show that it is inductive (`CopyHolds`), `CopyStays` gives
`CopyStaysWhileRead`.

*The sum of the gemm driver.* `SumInv` follows, for each thread, the shares it has
had (those with its remainder, up to `ithr`), whatever the size of the team. A
column of a block belongs to one share (`ColumnsFacts`, from `Partition1dTiles`), and
holds the parts that the thread of this share no longer lists (`AddedBy`,
`Missing`); part 0 is in `C` when its thread has computed it. As in the no-copy
sgemm, computing part 0 overwrites the block, so nothing may be added before:
`FlagsOf` ties a flag to the computation of its share, and `WaitsOf` says that a list
whose first part has been taken off proves that the flag of part 0 was set
(`NotYetAdded`). Without waiting, nothing is added in the first section at
all, and the second starts with all lists whole although its team may be another
one (`SumSecond`). With a common copy of A each share has columns of its own
and `MultipliedBy` counts the blocks of A (`Passes`). A thread that runs out of
memory leaves its mark in `result`, which nobody resets, so `AddedBy` and
`MultipliedBy` need only hold while all results are a success. `SumHolds` is the
invariant, `SumComplete` gives `CompleteOnSuccess` when the threads have joined
(`AllAdded`).

*The balance of a reduction.* `BalanceFits` proves the two assertions at the end of
`balance()` for all threads, jobs and sizes. The loop keeps the smallest of the
guesses that pass its test (`SmallestExists`); the initial guess does not go
through the test and needs an argument of its own (`BestGuess`): it has one thread
per group if there are at least as many jobs as threads, else one job per group.
`JobsAreConsecutive` says that the groups' jobs follow one another from the first to
the last, between one and the number that buffers are booked for. `RowsCover`: the
rest of a row, the whole rows and the start of a row that `reduce_nolock` adds up
are exactly its range, whichever of them are empty (`Rows`, with `RowOrder` for the
arithmetic of row-major numbers).
`BlockingDivides`: the number of columns `choose_x_blocking` returns divides a row,
so that threads which share a job cut it into whole blocks; its loop halves
or divides by three, and the argument is that of the smallest
counterexample. `RectanglesArePartition` puts these together: over all threads
of a group, what `reduce_nolock` adds up is each element of each job once. Two cases
need their own argument: fewer jobs than threads (a job is cut into shares of its
blocks) and at least as many (each thread takes whole jobs).

*The partition of the no-copy sgemm.* `calc_nthr_nocopy` adjusts the numbers of
threads in loops, which `NocopyPartition` has as recursive functions. That each
is defined comes from a measure that falls with every turn (`LoopIsDefined`), and
that it leaves its loop condition false, and keeps what each turn keeps, from the
same measure (`LoopEnds`). `BlocksHaveWork` says what comes out in the end, for both
instruction sets: each of the three dimensions is cut so that the last block is
not empty and the blocks cover it (`CutIn`), and the product of the three numbers
is at most the number of threads. The loop that grows may pass that number; it is
the factorisation after it, and the removal of idle threads at the end, that
restore both. `BandsPartition`: `partition_unit_diff` gives each column to one
thread, also when there are more threads than columns.

*The invariants of the partitions.* A call does not change its arguments and is
made once, so its outcome is an invariant (`OutcomeStays`), and the theorems above
become those of the run: `GroupsFit`, `JobsDealtOnce`, `BuffersHoldJobs`,
`RectanglesDealtOnce`, `ThreadsFit`, `EveryThreadHasWork`, `ColumnsDealtOnce`.

*The grid of a convolution.* `GridFits`: `balance()` returns, for every shape, team,
harness and instruction set, a grid whose product is at most the number of threads and
whose sides are at most the images, rows or planes, the groups and the blocks of
channels they divide. The cheapest candidate is found by folds over all
candidates (`FoldIsDefined`, `FoldType`: a fold of candidates yields a
candidate), which fit since quotients of the threads left do (`CandidatesFit`,
`CheapestFits`, `FastestFits`); widening adds threads for images only up to what the
rows allow (`WidenFits`). `GridsHaveWork` (`GridHasWork`) follows: nobody hands in
partial weights that were never written.

*The reducers.* `LocalsApart`: the cells where threads accumulate lie in the
destination and the scratchpad, and those of two threads are disjoint. The masters of
`cpu_reducer_t` write to the destination, in which groups have different jobs (and,
for rectangles, jobs have different elements); all others have a row of the
scratchpad, and `Row` numbers the threads without gaps although masters of
`cpu_reducer_t` have none. `RaceFree` (`NoRace`) needs the control state besides: a
thread that adds up reads what its mates have accumulated, and its own part of the
destination may be what the master has accumulated. `IInv` says for teams with
barriers that who has entered the barrier of a reduction is past its own
accumulation, and who adds up found that all mates had entered (`Synchronised`);
for teams without, that all threads are in the same half of the same reduction
(`Sectioned`); and that only members of groups of several threads that have jobs
get to `reduce` (`HasMates`). The mates are those with a barrier in common,
so two threads that write the same reduction are apart by `IInv` or by
`LocalsApart`, and two that add up have different elements
(`SharesArePartition` of cache lines, or `RectanglesArePartition`).

*The sums of the reducers.* `SumsComplete` (`ReductionComplete`) is about values, and
values depend on order. `Accumulated(s, t)` and `Added(s, t)` say that thread `t` is
past its own part of reduction `s`, and past the sum of it; `Goes` says what each step
changes of that, the only thing about control that the rest needs. `Awaited`: who is
past a sum, with mates, had all of its group past their own parts. `Kept`: what a
thread has accumulated stays in its cells (`HasOwn`), unless it is the master, whose
cells are the destination, and a mate has already made them the sum (`Taken`).
`Results`: a destination once summed up holds one contribution of each member
(`Whole`), and stays so. A step can break this only by writing another's cell, which
`LocalsApart`, `DstApart` and `MinesApart` exclude where `Awaited` does not. That a
sum is whole (`TotalIsWhole`) rests on `SourcesAre`, that the sources of an element
are exactly the cells of the members that are not the master, and on `FoldCollects`,
what the fold of such cells gives: it goes through the smallest set of cells for which it
would not. Every element is somebody's (`MinesCover`), and every thread of
a group has a part of the reduction (`SharesOfAll`, from the balancer), so that no
scratchpad is added up that was never written.

*The no-copy sgemm.* The number of a share decodes into its block and its part of the
sum (`ShareFacts`, `SharesDiffer`), so each part of a block belongs to one thread;
and the strips of a block's shares are its columns (`StripsCover`, `StripsApart`), so
each column has one thread that adds all parts to it. `IInv` counts from there.
`Products`: part 0 is in `C`, and the other parts are in their buffers, when and only
when the thread that has the share has computed it. `Flags`: a flag is set when
the share's thread has published it, and none is without summation in the
first section. `Sums`: a column has the parts that its one adder has no longer on
its list (`Missing`). `Reads`: what an adder has read is still what is there.
`Waits` is the one that is easily forgotten: computing part 0 *overwrites* the
block, so nobody may add to it before, and the code has no other protection than
the order of the list, which makes a thread begin with its own part and makes
it wait for the flag of part 0 before; the one time that a thread may be about to
add with that flag unset, its list is still whole. The invariant is kept by each
action (`FetchKeeps`, `GemmKeeps`, `PublishKeeps`, `AddKeeps`, `AddEndKeeps`,
`AddedAllKeeps`, `JoinKeeps`, `JoinSumKeeps`) and gives `EveryPartAdded` (`SumIsComplete`),
`RaceFree` (`NoRace`) and `TypeCorrect`, for every problem and every granted team,
those included for which `gemm_team` finds that the call never returns.

*The races of the AVX-512 backward weights.* A thread is its four coordinates
(`ThreadIndex`, `SameIndex`), numbers to mixed bases, and so are a cell of the weights
and a transposed row (`ThreeDigits`, `DigitsAreUnique`). From there: the cells of threads
with one `ithr_mb` are disjoint (`CellsDiffer`), so are the shares that threads add up
(`SharesOfCells`) and the rows that mates transpose (`TrRowsDiffer`), although the code
counts rows and cells from the first of a thread on and ignores where the
groups end. `Control` ties places to barriers. A thread has left the barrier of
its mates an odd number of times when it transposes and an even number when it runs the
kernel, and never more often than they have entered it; so one that
transposes has no mate in the kernel (`MatesApart`). One that adds up has left the
barrier of all, or the second section has begun, so nobody is among the images any
more (`EarlyBeforeLate`). Each action keeps `Control` (`ControlStep`); with it,
`WritesApart` and `ReadsApart` give `BwdNoRace` (`NoRace`), for every convolution and
number of threads, with barriers and without. The proof showed that the first version of
`Writes` was too generous: with one part of the batch, `reduce_diff_bias` has
nothing to add and must not count as a writer. The run had no such
convolution; it has one now (`Alone`).

*The sums of the AVX-512 backward weights.* Three invariants on top of `Control`.
`Progress`: the unit a thread is at begins its share or an image after the
first (`At`), and the times it has left the barrier of its mates are twice the images
it has done, one more behind the first barrier of the image at hand and two more in
the kernel (`TurnsAre`). Mates count alike because their shares of images are the same, so
with the order of barriers from `Control` a thread in the kernel has all its mates at
the image it is at (`MatesInStep`). `RowsKept`: the rows of a thread hold the last
image it transposed; all rows that the kernel reads belong to mates (`RowsOfAll`), so
it sees the image it should (`KernelSees`). `Sums`: buffer `ithr_mb` holds, in the cells
of a thread, just the units that it has done, and garbage only before the first: a
thread's first image overwrites, also when its share begins inside of it (`FirstIs`).
Cells that have been added up hold the whole batch. What an addition finds
is complete because everybody is done with images (`AllEnded`) and each cell has an
owner for each `ithr_mb` (`CellOwner`, `BiasOwner`), whose shares follow one another
(`TotalIsWhole`: bags of consecutive ranges add up to that of their union,
`SpansAddUp`; that `Total`, a recursive function, is this sum for every number of buffers
is shown by the smallest counterexample). In the end each cell has been added up
(`ShareOwner`), by one thread (`SharesOfCells`), or the batch had one part and the first
buffer is the result: `SumsInTheEnd`, and `BwdSumComplete` (`SumIsComplete`).

*The primitive cache.* `IInv` follows the calls each thread is in: none, one, or
one inside the constructor of another. A call that has looked up and not yet
added, or that is about to look up, holds the mutex (`Holds`); the owner is the
thread with such a call, `depth` the number of its calls that hold, and the keys
of the calls that have missed are not in the mapper (`Adding`). The last part is
needed because `insert` into the mapper does nothing for a key that is there
while `emplace_front` adds a second node to the list, and it survives a nested
creation because that has another key (`InnerKey`). `ToFrontAgrees`,
`EvictAgrees` and `AddAgrees` say of plain values that the three updates keep list
and mapper in agreement; `GoStep` treats all steps that move a call on, within the
lock or through `lock()` and `unlock()`. Hence `CacheAgrees` (`CacheConsistent`) and
`OneCreator`: two threads are never creating at the same time.

*Objects and scratchpads of the cache.* `OInv` adds to `IInv` that all references
lead to objects there are: those of users (`UsersOK`), of calls (`FramesOK`), of the
list (`ListOK`) and of implementations to the wrappers inside of them (`ImplOK`). It
also says which key an object has, and that is what makes it inductive: a wrapper
inside of an implementation has a key that the constructor nests (`Made`), an
implementation with such a key has none inside (`InnerUsed`), so one level of
nesting is all that a destructor has to look at, and what stays refers to
nothing that goes (`Reachable`, `SweepObjects`). Hence `TypeCorrect`, for any number
of threads, programs, capacities and identifiers. `SInv` is about the global
scratchpads. `CountOK`: the count of a thread is the number of the wrappers that
*it* created with a reference, and its scratchpad is as large as the largest of
them needs. Creating keeps this; destroying keeps it only if the thread
that destroys a wrapper is the one that created it, since the destructor counts
on the thread it runs on. `HeldOK` says so: such a wrapper is with the
thread that created it, unless the program has one thread. It fails as soon as one
thread gets an implementation that another created with such wrappers inside,
so `ScratchpadsFit` (`ScratchpadFits`) and `ScratchpadsFreed` (`ScratchpadFreed`) have a
premise, `Confined`: programs have one thread, or their keys nest none that use the
global scratchpad. It is met by the programs of the run `cache`; those of
`cache_foreign` do not meet it, and the run shows what happens then. (Without a
cache, `capacity` 0, nothing is shared either; the premise does not use that.)

*Sections over grids.* The position of an item is a fold over the dimensions, and
`PositionRuns` and `ProductRuns` give the folds as what they are after each of the
first dimensions, which is what there is to reason about for any rank: the item at
the end of a row carries into the coordinates up to the last that is not maximal
(`StepPosition`), and division by the sizes of the inner dimensions gives the
coordinates back (`InitPosition`); positions tell items apart (`ItemsDiffer`). The
iterator alone is not inductive, since nothing would keep it away from the share of
others: `InShare` has it together with where `iwork` is between the start and the
end of the share, and `RunOnce` says that an item has been run once if a thread has
passed its position and not at all otherwise. A step runs the items of a range of
positions (`StripPositions`), which nobody has passed because the shares of
`balance211` are disjoint (`SectionAdvances`). Hence `SectionTyped`, `IteratorsInStep`,
and `EveryItemRunOnce`, the safety half of `AllItemsRun`.

*Only model-checked.* Liveness (`EverybodyLeaves`, `AllItemsRun`, `Returns`,
`Finishes`, `LockReleased`): fairness and `ENABLED` are out of the prover's reach.
What recursive definitions compute for all inputs (the loops of the reorder in
`EveryValueMoved`): this needs induction over data. Where something only has to be
kept from one argument to the next, the smallest counterexample does instead
(`LoopEnds`, `TotalIsWhole`, `UpTo`). `SlicesTile` of `MCPartition` may yield to it
too, and is still only checked.

## Findings

- **A hang of the no-copy sgemm** (`gemm_team`, `jit_avx_gemm_f32.cpp:2527`).
  `sum_later` compares the granted team with the number of shares, but the
  section runs over the maximal number of threads. With shares <= team < maximum
  a thread has two consecutive shares and, in the first, spins for the flag of
  a share that another spinning thread would run next. AVX and AVX-512 alike.
- **A scratchpad of another thread** (`cache_foreign`, `scratchpad.cpp:74`). A
  cached deconvolution carries a nested convolution whose scratchpad was taken in
  the thread that created it. A second thread that creates an equal primitive
  executes it with its own thread's scratchpad, which may not exist.
- **Packing with a partition of another driver** (`gemm_pack`,
  `gemm_driver.cpp:1525`). For an f32 matrix with few columns the partition is
  chosen for the no-copy kernels, with fewer threads than there are; for that
  number the driver then decides to copy, with sizes per thread never set.

Smaller things met on the way, which no run expects as a violation:

- The assertion "no reduction buffer overflow" at the end of `balance()`
  (`cpu_reducer.cpp:82`) does not hold of all calls. `max_njobs_per_group` (`:42`)
  is at least one even if the limit has no room for one job of each thread, and the
  first guess is not compared with the limit at all. The AVX2 convolution passes a
  constant limit ("just a heuristic", `jit_avx2_convolution.hpp:233`), which kernels
  of 7 x 7 x 7 on 96 threads exceed: a build with assertions stops when the
  primitive descriptor is created. The scratchpad is booked by what `balance()`
  returns, so without assertions nothing is overwritten and only the limit is missed.
  `BuffersBounded` therefore does not state the assertion but where it holds: with
  room for a job of each thread always, and without it the groups have one job. It
  is checked with limits on both sides of that line, those kernels among them,
  and proved for all (`BuffersHoldJobs`).
- `partition_2d` would give two threads the same band if the grid had more rows
  than the rounded bands need. `set_thread_opts_nopack` never makes such a grid,
  because of its bounds of 256; the mutant `Wide2d` drops one of them.
- `prb_init` computes the strides of the scales from padded sizes, where the
  simple reorder uses the sizes proper. The inputs here are not padded.
- The searches for a divisor in `prb_thread_kernel_balance` end only because a
  loop that is too short for the kernel cannot meet a driver that is too large:
  below 1024 elements nothing is asked of the driver.

## What is not modelled

Numerics, code generation, and most of what works on one thread without shared
state: kernels, descriptors, attributes, queries, and of the reorders all but the
loops of the jit reorder (its direct copy and vectorised conversions,
`simple_reorder`, strides beyond 2^31, padding; the refusal of more than four
loops in the driver and the fourth loop of a kernel are modelled but no input
reaches them). GPU engines. The TBB runtime (no barriers, no
flags): its sections are those of `ParallelNd`, and the modes without barriers of
`Reducer` and `BwdWeights`. Of gemm: bf16, gemv, the number of threads adjusted to a
machine (`adjust_thread_count`), the storage of packed matrices, and AVX-512
packing of f32. Of the AVX-512 backward weights: the 1x1 and bf16 variants and the
padded bias. Failing allocations that the code asserts or ignores. Teams smaller
than `nthr_` at a reducer: its callers assert that this does not happen
(`jit_avx2_convolution.cpp:289`). Two equal primitives created separately share
the buffers of their nested primitives through the cache: the model has the
sharing, but no property forbids it.

The kernels make up most of the lines of the library and are generators of
numeric code; what could be checked about them is arithmetic, not coordination.

## Plan

1. `BatchNormalization`: passes and barriers, with blocks of channels.
2. Abstract specifications: a `Reduction` that promises completeness, implemented
   by `Reducer` and by `BwdWeights`; a `Section` that promises each item once,
   implemented by `ParallelNd`.
3. Proofs: `SlicesTile`, for which `Partition1dTiles` has the one-dimensional case.

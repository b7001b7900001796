---------------------------- MODULE ReduceBalancer ----------------------------
(***************************************************************************)
(* How a reduction is dealt to threads (cpu/cpu_reducer.hpp, .cpp):        *)
(* reduce_balancer_t forms groups of threads that own jobs (columns of the *)
(* result) and share the reduction dimension; cpu_reducer_2d_t cuts the    *)
(* jobs of a group in rectangles that its threads add up.                  *)
(***************************************************************************)
EXTENDS Balance211

Lesser(a, b) == IF a <= b THEN a ELSE b
Greater(a, b) == IF a <= b THEN b ELSE a

------------------------------------------------------------------------------
(* A guess c is the number of jobs per group; i holds the inputs: nthr,    *)
(* job_size, njobs, reduction, max_buffer and allow, for                   *)
(* allow_nthr_in_group_.                                                   *)

Groups(i, c) == Lesser(i.njobs \div c, i.nthr)

\* Mutant: more threads in a group than there is to reduce.
SpreadAll(i, c) == IF i.allow THEN i.nthr \div Groups(i, c) ELSE 1

PerGroup(i, c) ==
    IF i.allow THEN Lesser(i.nthr \div Groups(i, c), i.reduction) ELSE 1

JobsBound(i, c) == DivUp(i.njobs, Groups(i, c))

Complexity(i, c) ==
    i.job_size * JobsBound(i, c)
        * (DivUp(i.reduction, PerGroup(i, c))
           + (IF PerGroup(i, c) # 1 THEN 1 ELSE 0))

\* Mutant: max_njobs_per_group does not count the threads.
WideMaxJobs(i) == Greater(1, i.max_buffer \div i.job_size)

MinJobs(i) == Greater(1, i.njobs \div i.nthr)
MaxJobs(i) == Greater(1, i.max_buffer \div (i.nthr * i.job_size))

\* The guesses that beat the complexity of one thread doing everything.
Better(i) ==
    { c \in MinJobs(i) .. i.njobs - 1 :
        /\ PerGroup(i, c) = 1 \/ JobsBound(i, c) <= MaxJobs(i)
        /\ Complexity(i, c) < i.njobs * i.job_size * i.reduction }

\* The loop keeps the first of the best guesses.
Best(i) ==
    IF Better(i) = {} THEN MinJobs(i)
    ELSE CHOOSE c \in Better(i) :
            \A d \in Better(i) :
                \/ Complexity(i, c) < Complexity(i, d)
                \/ Complexity(i, c) = Complexity(i, d) /\ c <= d

balance(i) == [ ngroups |-> Groups(i, Best(i)),
                nthr_per_group |-> PerGroup(i, Best(i)),
                njobs_per_group_ub |-> JobsBound(i, Best(i)) ]

------------------------------------------------------------------------------
(* b is a balance of njobs jobs.                                           *)

group_id(b, t) == t \div b.nthr_per_group
id_in_group(b, t) == t % b.nthr_per_group
idle(b, t) == t >= b.nthr_per_group * b.ngroups

\* Mutant: the remaining jobs are not handed out.
EvenJobs(b, njobs, g) == IF g >= b.ngroups THEN 0 ELSE njobs \div b.ngroups

grp_njobs(b, njobs, g) ==
    IF g >= b.ngroups THEN 0
    ELSE (njobs \div b.ngroups) + (IF g < njobs % b.ngroups THEN 1 ELSE 0)

grp_job_off(b, njobs, g) ==
    IF g >= b.ngroups THEN njobs
    ELSE (njobs \div b.ngroups) * g + Lesser(g, njobs % b.ngroups)

------------------------------------------------------------------------------
(* cpu_reducer_2d_t.  s is the shape: dst_x, dst_y, job_size_x, job_size_y *)
(* and x_block; job is a global job number.                                *)

JobsX(s) == DivUp(s.dst_x, s.job_size_x)
NX(s, job) == Lesser(s.dst_x - (job % JobsX(s)) * s.job_size_x, s.job_size_x)
NY(s, job) == Lesser(s.dst_y - (job \div JobsX(s)) * s.job_size_y, s.job_size_y)

\* Halve or divide by three, down to a lower bound; a prime that is still far
\* above it goes to one.
choose_x_blocking(s, nx, ny, nthr) ==
    LET units == nx \div s.x_block
        low == DivUp(units, Greater(1, nthr \div ny))
        f[x \in 1 .. units] ==
            IF x % 2 = 0 /\ x >= low * 2 THEN f[x \div 2]
            ELSE IF x % 3 = 0 /\ x >= low * 3 THEN f[x \div 3]
            ELSE IF x >= low * 4 THEN 1 ELSE x
    IN  f[units] * s.x_block

\* reduce_block: rows ny_start .. + ny_step, columns nx_start .. + nx_step.
reduce_block(y, x, ny_step, nx_step) ==
    (y .. y + ny_step - 1) \X (x .. x + nx_step - 1)

\* Mutant: the last, incomplete row of a share is taken for a whole one.
WideRows(nx, first, end) ==
    LET head == IF first % nx # 0 THEN Lesser(nx - (first % nx), end - first)
                ELSE 0
        mid == first + head
    IN  reduce_block(first \div nx, first % nx, 1, head)
        \cup reduce_block(mid \div nx, 0, DivUp(end - mid, nx), nx)

\* The elements first .. end - 1 of a job in row-major order, as the rest of
\* a row, whole rows and the start of a row.
Rows(nx, first, end) ==
    LET head == IF first % nx # 0 THEN Lesser(nx - (first % nx), end - first)
                ELSE 0
        mid == first + head
        rows == IF end - mid > nx THEN (end - mid) \div nx ELSE 0
        tail == mid + rows * nx
    IN  reduce_block(first \div nx, first % nx, 1, head)
        \cup reduce_block(mid \div nx, 0, rows, nx)
        \cup reduce_block(tail \div nx, 0, 1, end - tail)

\* What thread id of a group of nthr adds up: pairs of a job, numbered within
\* the group, and an element of it.  The group owns njobs jobs from off on.
Share2d(s, off, njobs, nthr, id) ==
    LET pr_grps == Lesser(njobs, nthr)
        pr_nthr == nthr \div pr_grps
        my_grp == id \div pr_nthr
        my_id == id % pr_nthr
        Mine == Start(njobs, pr_grps, my_grp) .. End(njobs, pr_grps, my_grp) - 1
        Part(j) ==
            LET nx == NX(s, off + j)
                ny == NY(s, off + j)
                x == choose_x_blocking(s, nx, ny, pr_nthr)
                n == (ny * nx) \div x
            IN  Rows(nx, x * Start(n, pr_nthr, my_id), x * End(n, pr_nthr, my_id))
    IN  IF id >= pr_grps * pr_nthr THEN {}
        ELSE UNION { {j} \X Part(j) : j \in Mine }
==============================================================================

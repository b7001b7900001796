------------------------------- MODULE MCReducer -------------------------------
(***************************************************************************)
(* Convolutions small enough for TLC.  The balances below are those the    *)
(* code computes for them: BalanceAssumption.                              *)
(***************************************************************************)
EXTENDS Reducer

Balanced(groups, per_group, bound) ==
    [ngroups |-> groups, nthr_per_group |-> per_group,
     njobs_per_group_ub |-> bound]

NoShape == [dst_x |-> 0]

OneD(njobs, job_size, reduction, b) ==
    [kind |-> "1d", njobs |-> njobs, job_size |-> job_size,
     reduction |-> reduction, b |-> b, line |-> 5, shape |-> NoShape]

\* Two groups of three threads: four jobs and three jobs.
Uneven == OneD(7, 3, 9, Balanced(2, 3, 4))

\* Two groups of three threads, with two of two by two jobs of two rows of
\* four each.
Square == [kind |-> "2d", njobs |-> 4, job_size |-> 8, reduction |-> 15,
           b |-> Balanced(2, 3, 2), line |-> 5,
           shape |-> [dst_x |-> 8, dst_y |-> 4, job_size_x |-> 4,
                      job_size_y |-> 2, x_block |-> 2]]

\* Five threads from both groups, of which only one has something to add up,
\* and a thread to spare.
Bias == OneD(1, 4, 5, Balanced(1, 5, 1))

Small == { <<Uneven>>, <<Square, Bias>> }
==============================================================================

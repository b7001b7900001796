------------------------------ MODULE MCGemmDriver ------------------------------
(***************************************************************************)
(* Calls for the run of GemmDriver: parts along k of one and of two        *)
(* blocks, with more and with fewer threads than shares; copies of A for   *)
(* the team there is, and for packed matrices.                             *)
(***************************************************************************)
EXTENDS GemmDriver

Along(goal, nthr_k, n, spawn) ==
    [forced |-> TRUE, shared |-> FALSE, a_packed |-> FALSE, goal |-> goal,
     spawn |-> spawn, nthr_k |-> nthr_k, n |-> n, iters |-> 1]

Copying(forced, a_packed, goal, spawn) ==
    [forced |-> forced, shared |-> TRUE, a_packed |-> a_packed, goal |-> goal,
     spawn |-> spawn, nthr_k |-> 1, n |-> 1, iters |-> 2]

Small == { Along(3, 3, 4, 4), Along(3, 3, 2, 2), Along(4, 2, 3, 4),
           Copying(FALSE, FALSE, 3, 3), Copying(TRUE, FALSE, 3, 3),
           Copying(TRUE, TRUE, 3, 4) }
=================================================================================

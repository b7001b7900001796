----------------------------- MODULE MCParallelNd -----------------------------
(***************************************************************************)
(* Grids of rank one to three: fewer items than threads, a dimension of    *)
(* one, a dimension of zero, shares that start and end inside a row.       *)
(***************************************************************************)
EXTENDS ParallelNd

MCGrids == { <<1>>, <<2>>, <<5>>, <<3, 3>>, <<2, 4>>, <<2, 0, 3>>,
             <<3, 1, 2>>, <<2, 2, 2>> }
==============================================================================

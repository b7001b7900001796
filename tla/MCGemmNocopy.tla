----------------------------- MODULE MCGemmNocopy -----------------------------
(***************************************************************************)
(* Problems whose partition is small enough for TLC.  The partitions below *)
(* are those the code computes for them: PartitionAssumption.              *)
(***************************************************************************)
EXTENDS GemmNocopy

Call(avx512, n, k, blocks, NB, parts, KB) ==
    [avx512 |-> avx512, M |-> 16, N |-> n, K |-> k,
     P |-> [nthr_m |-> 1, MB |-> 16, nthr_n |-> blocks, NB |-> NB,
            nthr_k |-> parts, KB |-> KB]]

\* For four threads: one block in four parts, and two blocks in two parts.
PartsAndBlocks == {Call(FALSE, 3, 1600, 1, 3, 4, 400),
                   Call(FALSE, 6, 800, 2, 3, 2, 400)}

\* For twelve threads: three blocks in two parts, and two in three.
SixShares == {Call(FALSE, 3, 800, 3, 1, 2, 400),
              Call(TRUE, 3, 600, 2, 2, 3, 200)}
==============================================================================

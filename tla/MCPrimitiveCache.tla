---------------------------- MODULE MCPrimitiveCache ----------------------------
(***************************************************************************)
(* Programs for the runs of PrimitiveCache: "small", "medium" and "large"  *)
(* are gemm convolutions with scratchpads of one, one and two pages, "bad" *)
(* is one whose init() fails, and "deconv" a deconvolution, which runs     *)
(* "large".                                                                *)
(***************************************************************************)
EXTENDS PrimitiveCache

Kinds == {"small", "medium", "large", "bad", "deconv"}

NestedIn == [k \in Keys |-> IF k = "deconv" THEN <<"large">> ELSE <<>>]

NeedOf == [k \in Keys |-> CASE k = "deconv" -> 0
                            [] k = "large" -> 2
                            [] OTHER -> 1]

\* One thread with nested primitives and evictions; two threads that race for
\* the mutex and the entries of the cache.
Apart == { [threads |-> {1}, keys |-> {"small", "bad", "deconv", "large"},
            capacity |-> 1, owned |-> 2],
           [threads |-> {1, 2}, keys |-> {"small", "large", "medium", "bad"},
            capacity |-> 2, owned |-> 1] }

\* Two threads, of which one may get a deconvolution that the other created.
Shared == { [threads |-> {1, 2}, keys |-> {"large", "deconv"},
             capacity |-> 2, owned |-> 1] }
================================================================================

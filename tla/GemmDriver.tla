------------------------------ MODULE GemmDriver ------------------------------
(***************************************************************************)
(* The parallel section of gemm_threading_driver (cpu/gemm/gemm_driver.cpp)*)
(* for the drivers that copy: threads take shares ithr, ithr + nthr, ...;  *)
(* a share is computed alone (gemm_kernel_driver), or together with the    *)
(* others from one copy of A (parallel_a_copy); parts along k are added up *)
(* by the threads of a block, inside the section if all run at once, else  *)
(* in a second one.  Any thread may run out of memory.                     *)
(***************************************************************************)
EXTENDS GemmThreading

CONSTANTS MaxThreads,   \* bound on teams
          Calls         \* records: forced (partition made when packing), shared
                        \* (copy is shared_a), a_packed, goal, spawn, nthr_k, n
                        \* (columns of a block) and iters (blocks of A)

\* Parts along k come only from a partition made when packing, in which nobody
\* shares a copy of A.
ASSUME CallAssumption ==
    \A x \in Calls : /\ {x.goal, x.spawn} \subseteq 1 .. MaxThreads
                     /\ {x.nthr_k, x.iters} \subseteq Nat \ {0}
                     /\ {x.forced, x.shared, x.a_packed} \subseteq BOOLEAN
                     /\ x.goal % x.nthr_k = 0 /\ x.n \in Nat
                     /\ x.nthr_k > 1 => x.forced /\ ~x.shared
ASSUME BoundAssumption == MaxThreads \in Nat

VARIABLES call, team,   \* the call, and nthr of its section
          phase,        \* "first" or "second" section, or "returned"
          at, ithr, it, \* of each thread: place, share and iteration
          todo,         \* todo[t]: parts that sum_k_blocks has yet to add
          arrived,      \* arrived[t]: barriers thread t has reached
          result,       \* result[i] of share i
          compute_done, \* compute_done[i]
          c,            \* c[b][j]: what was added up in column j of block b
          bufferA,      \* bufferA[i]: the iteration whose band is at place i
          mem           \* shared_mem: "none", "null" or "live"

section == <<call, team, phase>>
place == <<at, ithr, it, todo, arrived>>
data == <<result, compute_done, c, bufferA, mem>>
vars == <<section, place, data>>

AllThreads == 0 .. MaxThreads - 1
Team == 0 .. team - 1
Shares == 0 .. call.goal - 1

nthr_eff == IF call.forced THEN call.goal ELSE Least(call.goal, team)
k_summing == call.forced /\ call.nthr_k > 1
thr_k_stride == nthr_eff \div call.nthr_k
ithr_k(i) == i \div thr_k_stride
Block(i) == i % thr_k_stride
get_thread_arg(i, thr_k) == i + (thr_k - ithr_k(i)) * thr_k_stride

\* Assumed: a packed B is used by as many threads as it was packed for, if those
\* have to copy A together.
OwnTeam == (call.forced /\ call.shared /\ ~call.a_packed) => team = call.goal

Init == /\ call \in Calls
        /\ team \in 1 .. call.spawn
        /\ OwnTeam
        /\ phase = "first"
        /\ at = [t \in AllThreads |-> "start"]
        /\ ithr = [t \in AllThreads |-> t]
        /\ it = [t \in AllThreads |-> 1]
        /\ todo = [t \in AllThreads |-> <<>>]
        /\ arrived = [t \in AllThreads |-> 0]
        /\ result = [i \in Shares |-> "success"]
        /\ compute_done = [i \in Shares |-> FALSE]
        /\ c = [b \in Shares |-> [j \in 0 .. call.n - 1 |-> {}]]
        /\ bufferA = [i \in Shares |-> 0]
        /\ mem = "none"

Goto(t, where) == at' = [at EXCEPT ![t] = where]
Arrive(t, where) == Goto(t, where) /\ arrived' = [arrived EXCEPT ![t] = @ + 1]
Fail(t) == result' = [result EXCEPT ![ithr[t]] = "out_of_memory"]

Twice == -1

\* x is added to columns J of block b, and Twice if it was there.
Plus(b, J, x) ==
    [c EXCEPT ![b] = [j \in DOMAIN @ |->
        IF j \notin J THEN @[j] ELSE @[j] \cup (IF x \in @[j] THEN {Twice} ELSE {x})]]

------------------------------------------------------------------------------
(* The loop over the shares of a thread.                                   *)

\* Mutant: a thread that first adds its own part, whatever thread 0 does.
OwnAtOnce(i) ==
    (IF ithr_k(i) > 0 THEN <<[for |-> ithr_k(i), add |-> ithr_k(i)]>> ELSE <<>>)
      \o SelectSeq([x \in 1 .. call.nthr_k - 1 |-> [for |-> x, add |-> x]],
                   LAMBDA s : s.add # ithr_k(i))

\* What sum_k_blocks adds, its own part first, and for which part it waits before.
sum_order(i) ==
    LET own == ithr_k(i)
        part(x) == IF x <= own THEN x - 1 ELSE x
    IN  [x \in 1 .. call.nthr_k - 1 |->
            IF x = 1 /\ own > 0 THEN [for |-> 0, add |-> own]
            ELSE [for |-> part(x), add |-> part(x)]]

TakeShare(t) ==
    /\ at[t] = "start"
    /\ IF ithr[t] >= nthr_eff THEN Goto(t, "end") /\ UNCHANGED todo
       ELSE IF phase = "second"
       THEN /\ Goto(t, "sum")
            /\ todo' = [todo EXCEPT ![t] = sum_order(ithr[t])]
       ELSE /\ Goto(t, IF ~call.shared THEN "compute"
                       ELSE IF call.a_packed THEN "kernel" ELSE "alloc")
            /\ UNCHANGED todo
    /\ it' = [it EXCEPT ![t] = 1]
    /\ UNCHANGED <<section, ithr, arrived, data>>

NextShare(t) ==
    /\ at[t] = "next"
    /\ ithr' = [ithr EXCEPT ![t] = @ + team]
    /\ Goto(t, "start")
    /\ UNCHANGED <<section, it, todo, arrived, data>>

------------------------------------------------------------------------------
(* gemm_kernel_driver, and the sum along k.                                *)

\* Mutant: always adds up inside the section.
AlwaysNow == TRUE

\* "We can only detect if this is safe when using OpenMP."
SumsNow == team >= nthr_eff

\* The first part of a block goes to C itself, others to buffers.
Compute(t) ==
    /\ at[t] = "compute"
    /\ \/ UNCHANGED result /\ c' = IF ithr_k(ithr[t]) > 0 THEN c
                                   ELSE [c EXCEPT ![Block(ithr[t])] =
                                            [j \in DOMAIN @ |-> {0}]]
       \/ Fail(t) /\ UNCHANGED c
    /\ IF k_summing /\ SumsNow
       THEN /\ compute_done' = [compute_done EXCEPT ![ithr[t]] = TRUE]
            /\ todo' = [todo EXCEPT ![t] = sum_order(ithr[t])]
            /\ Goto(t, "sum")
       ELSE Goto(t, "next") /\ UNCHANGED <<compute_done, todo>>
    /\ UNCHANGED <<section, ithr, it, arrived, bufferA, mem>>

wait_thread(t) ==
    phase = "first" /\ todo[t] # <<>>
        /\ ~compute_done[get_thread_arg(ithr[t], Head(todo[t]).for)]

Columns(i) == LET s == partition_1d(ithr_k(i), call.nthr_k, call.n)
              IN  s.off .. s.off + s.len - 1

sum_k_blocks(t) ==
    /\ at[t] = "sum" /\ ~wait_thread(t)
    /\ IF todo[t] = <<>> THEN Goto(t, "next") /\ UNCHANGED <<todo, c>>
       ELSE /\ todo' = [todo EXCEPT ![t] = Tail(@)]
            /\ c' = Plus(Block(ithr[t]), Columns(ithr[t]), Head(todo[t]).add)
            /\ UNCHANGED at
    /\ UNCHANGED <<section, ithr, it, arrived, result, compute_done, bufferA, mem>>

\* A turn of the loop that waits for a flag.
Spin(t) == at[t] = "sum" /\ wait_thread(t) /\ UNCHANGED vars

------------------------------------------------------------------------------
(* parallel_a_copy                                                         *)

\* Thread 0 allocates the copy of A.
Alloc(t) ==
    /\ at[t] = "alloc"
    /\ IF ithr[t] = 0 THEN mem' \in {"live", "null"} ELSE UNCHANGED mem
    /\ Arrive(t, "allocated")
    /\ UNCHANGED <<section, ithr, it, todo, result, compute_done, c, bufferA>>

\* dnnl_thr_barrier(): the barrier of the team.
Released(t) == \A u \in Team : arrived[u] >= arrived[t]

AtBarrier(t) == at[t] \in {"allocated", "copied", "computed"}

Wait(t) == AtBarrier(t) /\ ~Released(t) /\ UNCHANGED vars

Allocated(t) ==
    /\ at[t] = "allocated" /\ Released(t)
    /\ IF mem = "null" THEN Fail(t) /\ Goto(t, "next")
       ELSE Goto(t, "copy") /\ UNCHANGED result
    /\ UNCHANGED <<section, ithr, it, todo, arrived, compute_done, c, bufferA, mem>>

Copy(t) ==
    /\ at[t] = "copy"
    /\ bufferA' = [bufferA EXCEPT ![ithr[t]] = it[t]]
    /\ Arrive(t, "copied")
    /\ UNCHANGED <<section, ithr, it, todo, result, compute_done, c, mem>>

Copied(t) ==
    /\ at[t] = "copied" /\ Released(t)
    /\ Goto(t, "kernel")
    /\ UNCHANGED <<section, ithr, it, todo, arrived, data>>

\* Mutant: without waiting for those that still read the copy.
RunsAhead(t) == Goto(t, "iterated") /\ UNCHANGED arrived

AfterKernel(t) ==
    IF call.a_packed THEN Goto(t, "iterated") /\ UNCHANGED arrived
    ELSE Arrive(t, "computed")

\* kernel_driver_parallel_acopiedbcopy, which may fail to get a buffer for B: then
\* the thread goes on to the next barrier all the same.
Kernel(t) ==
    /\ at[t] = "kernel"
    /\ \/ Goto(t, "computing") /\ UNCHANGED <<arrived, result>>
       \/ Fail(t) /\ AfterKernel(t)
    /\ UNCHANGED <<section, ithr, it, todo, compute_done, c, bufferA, mem>>

KernelDone(t) ==
    /\ at[t] = "computing"
    /\ c' = Plus(Block(ithr[t]), DOMAIN c[Block(ithr[t])], it[t])
    /\ AfterKernel(t)
    /\ UNCHANGED <<section, ithr, it, todo, result, compute_done, bufferA, mem>>

Computed(t) ==
    /\ at[t] = "computed" /\ Released(t)
    /\ Goto(t, "iterated")
    /\ UNCHANGED <<section, ithr, it, todo, arrived, data>>

\* The next block of A, or the end; thread 0 frees the copy.
Iterated(t) ==
    /\ at[t] = "iterated"
    /\ IF it[t] < call.iters
       THEN /\ it' = [it EXCEPT ![t] = @ + 1]
            /\ Goto(t, IF call.a_packed THEN "kernel" ELSE "copy")
            /\ UNCHANGED mem
       ELSE /\ Goto(t, "next")
            /\ mem' = IF ithr[t] = 0 /\ ~call.a_packed THEN "none" ELSE mem
            /\ UNCHANGED it
    /\ UNCHANGED <<section, ithr, todo, arrived, result, compute_done, c, bufferA>>

------------------------------------------------------------------------------
\* The section is over: a second one adds the parts if the first did not.
Join ==
    /\ phase # "returned"
    /\ \A t \in Team : at[t] = "end"
    /\ IF phase = "first" /\ k_summing /\ ~compute_done[0]
       THEN /\ phase' = "second"
            /\ team' \in 1 .. call.goal
            /\ at' = [t \in AllThreads |-> "start"]
            /\ ithr' = [t \in AllThreads |-> t]
       ELSE phase' = "returned" /\ UNCHANGED <<team, at, ithr>>
    /\ UNCHANGED <<call, it, todo, arrived, data>>

Step(t) == \/ TakeShare(t) \/ NextShare(t)
           \/ Compute(t) \/ sum_k_blocks(t) \/ Spin(t)
           \/ Alloc(t) \/ Wait(t) \/ Allocated(t) \/ Copy(t) \/ Copied(t)
           \/ Kernel(t) \/ KernelDone(t) \/ Computed(t) \/ Iterated(t)

Next == \/ phase # "returned" /\ \E t \in Team : Step(t)
        \/ Join
        \/ phase = "returned" /\ UNCHANGED vars

\* Every thread of the team runs.
Spec == /\ Init /\ [][Next]_vars /\ WF_vars(Join)
        /\ \A t \in AllThreads : WF_vars(t \in Team /\ phase # "returned" /\ Step(t))

------------------------------------------------------------------------------
Wanted == IF call.shared THEN 1 .. call.iters ELSE 0 .. call.nthr_k - 1

(***************************************************************************)
(* A call that reports success has added up every part of every column of  *)
(* C exactly once, whoever added it, in whichever section, for every team: *)
(* the thread that reports a failure is not the one whose part is missing. *)
(***************************************************************************)
CompleteOnSuccess ==
    (phase = "returned" /\ \A i \in Shares : result[i] = "success") =>
        \A b \in 0 .. thr_k_stride - 1 : \A j \in DOMAIN c[b] : c[b][j] = Wanted

(***************************************************************************)
(* While a thread computes from the copy of A, all of the copy is there,   *)
(* it is that of the iteration of the thread, and nobody has freed it.     *)
(***************************************************************************)
CopyStaysWhileRead ==
    (call.shared /\ ~call.a_packed) =>
        \A t \in Team : at[t] = "computing" =>
            mem = "live" /\ \A i \in 0 .. nthr_eff - 1 : bufferA[i] = it[t]

(***************************************************************************)
(* The call returns, also when there are fewer or more threads than shares *)
(* and when threads run out of memory ("To avoid deadlocks, results are    *)
(* summed later if not all threads are running concurrently").             *)
(***************************************************************************)
Returns == <>(phase = "returned")
===============================================================================

------------------------------ MODULE Balance211 ------------------------------
(***************************************************************************)
(* balance211 (common/dnnl_thread.hpp): the share [Start, End) of thread   *)
(* tid when n items are dealt to a team.  The first T1 threads get n1      *)
(* items each, the others n2 = n1 - 1.                                     *)
(***************************************************************************)
EXTENDS Integers

DivUp(a, b) == (a + b - 1) \div b
RndUp(a, b) == DivUp(a, b) * b

N1(n, team) == DivUp(n, team)
T1(n, team) == n - (N1(n, team) - 1) * team

\* Mutant: threads past T1 are offset as if they all had the larger share.
WideStart(n, team, tid) ==
    IF team <= 1 \/ n = 0 THEN 0 ELSE tid * N1(n, team)

Start(n, team, tid) ==
    IF team <= 1 \/ n = 0 THEN 0
    ELSE IF tid <= T1(n, team) THEN tid * N1(n, team)
    ELSE T1(n, team) * N1(n, team)
         + (tid - T1(n, team)) * (N1(n, team) - 1)

Size(n, team, tid) ==
    IF team <= 1 \/ n = 0 THEN n
    ELSE IF tid < T1(n, team) THEN N1(n, team) ELSE N1(n, team) - 1

End(n, team, tid) == Start(n, team, tid) + Size(n, team, tid)
==============================================================================

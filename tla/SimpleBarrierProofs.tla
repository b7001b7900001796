------------------------- MODULE SimpleBarrierProofs -------------------------
(***************************************************************************)
(* The barrier of cpu/cpu_barrier.cpp is correct for every team size and   *)
(* every number of rounds.                                                 *)
(***************************************************************************)
EXTENDS SimpleBarrier, FiniteSetTheorems, SequenceTheorems, TLAPS

(***************************************************************************)
(* The two stores a thread can buffer, and what Append, Head and Tail make *)
(* of buffers of at most two stores.                                       *)
(***************************************************************************)
LEMMA StoreFacts ==
    /\ ResetStore \in Stores
    /\ ResetStore.at = "ctr" /\ ResetStore.val = 0
    /\ \A v \in 0 .. 1 : /\ Store("sense", v) \in Stores
                         /\ Store("sense", v).at = "sense"
                         /\ Store("sense", v).val = v
BY DEF ResetStore, Stores, Store

\* Append, Head and Tail on buffers of up to two stores.
LEMMA BufferFacts ==
    ASSUME NEW S, NEW x \in S, NEW y \in S
    PROVE  /\ Append(<<>>, x) = <<x>>
           /\ Append(<<x>>, y) = <<x, y>>
           /\ Head(<<x>>) = x /\ Tail(<<x>>) = <<>>
           /\ Head(<<x, y>>) = x /\ Tail(<<x, y>>) = <<y>>
           /\ <<x>> # <<>> /\ <<x, y>> # <<>> /\ <<x>> # <<x, y>>
           /\ Len(<<x>>) = 1 /\ Len(<<x, y>>) = 2
           /\ <<x, y>> \in Seq(S) /\ <<x>> \in Seq(S) /\ <<>> \in Seq(S)
<1>1. Append(<<>>, x) = <<x>>
    OBVIOUS
<1>2. Append(<<x>>, y) = <<x, y>>
    <2>. DEFINE a == Append(<<x>>, y)
    <2>1. a \in Seq(S) /\ <<x>> \in Seq(S) /\ <<x, y>> \in Seq(S)
        OBVIOUS
    <2>2. Len(a) = 2 /\ a[1] = x /\ a[2] = y
        BY <2>1
    <2>3. Len(<<x, y>>) = 2 /\ <<x, y>>[1] = x /\ <<x, y>>[2] = y
        OBVIOUS
    <2>. HIDE DEF a
    <2>4. a = <<x, y>>
        BY <2>1, <2>2, <2>3, SeqEqual
    <2>. QED
        BY <2>4 DEF a
<1>3. Head(<<x>>) = x /\ Head(<<x, y>>) = x
    OBVIOUS
<1>4. Tail(<<x>>) = <<>>
    OBVIOUS
<1>5. Tail(<<x, y>>) = <<y>>
    OBVIOUS
<1>6. <<x>> # <<>> /\ <<x, y>> # <<>>
    OBVIOUS
<1>6a. <<x>> # <<x, y>>
    OBVIOUS
<1>7. Len(<<x>>) = 1 /\ Len(<<x, y>>) = 2
    OBVIOUS
<1>8. <<x, y>> \in Seq(S) /\ <<x>> \in Seq(S) /\ <<>> \in Seq(S)
    OBVIOUS
<1>. QED
    BY <1>1, <1>2, <1>3, <1>4, <1>5, <1>6, <1>6a, <1>7, <1>8

\* The second store goes behind the first.
LEMMA AppendSecond ==
    \A x, y \in Stores : Append(<<x>>, y) = <<x, y>>
BY BufferFacts

\* The team is finite and not empty: comparisons with nthr make sense.
LEMMA TeamSize == NThr \in Nat \ {0}
BY ThreadsAssumption, FS_CardinalityType, FS_EmptySet DEF NThr

\* What t loads from sense in the three kinds of buffers that occur.
LEMMA SeenSenseValue ==
    ASSUME TypeOK, NEW t \in Threads
    PROVE  /\ buf[t] = <<>> => SeenSense(t) = sense
           /\ buf[t] = <<Flip>> => SeenSense(t) = 1 - sense
           /\ buf[t] = <<ResetStore, Flip>> => SeenSense(t) = 1 - sense
<1>1. 1 - sense \in 0 .. 1
    BY DEF TypeOK
<1>2. Flip \in Stores /\ Flip.at = "sense" /\ Flip.val = 1 - sense
    BY <1>1, StoreFacts DEF Flip
<1>3. CASE buf[t] = <<>>
    BY <1>3, <1>2, StoreFacts, BufferFacts DEF SeenSense
<1>4. CASE buf[t] = <<Flip>>
    <2>1. buf[t][Len(buf[t])] = Flip /\ buf[t] # <<>>
        BY <1>4, <1>2, StoreFacts, BufferFacts
    <2>. QED
        BY <2>1, <1>2, <1>4, StoreFacts, BufferFacts DEF SeenSense
<1>5. CASE buf[t] = <<ResetStore, Flip>>
    <2>1. buf[t][Len(buf[t])] = Flip /\ buf[t] # <<>>
        BY <1>5, <1>2, StoreFacts, BufferFacts
    <2>. QED
        BY <2>1, <1>2, <1>5, StoreFacts, BufferFacts DEF SeenSense
<1>. QED
    BY <1>3, <1>4, <1>5

------------------------------------------------------------------------------
(***************************************************************************)
(* The inductive invariant: initially, and by each action of a thread t.   *)
(***************************************************************************)
Inv == TypeOK /\ RoundInv

\* After ctx_init round 1 is gathering; a lone thread is alone.
LEMMA InitInv == Init => Inv
<1>. SUFFICES ASSUME Init PROVE Inv
    OBVIOUS
<1>. USE TeamSize, RoundsAssumption DEF Init
<1>1. TypeOK
    BY DEF TypeOK
<1>2. CASE NThr = 1
    BY <1>1, <1>2 DEF Inv, RoundInv, Alone
<1>3. CASE NThr > 1
    <2>1. \A t \in Threads : Coming(t, 0)
        BY DEF Coming
    <2>2. {t \in Threads : entered[t] = 0 + 1} = {}
        OBVIOUS
    <2>3. Gathering(0)
        BY <2>1, <2>2, FS_EmptySet, ThreadsAssumption DEF Gathering
    <2>. QED
        BY <1>1, <1>3, <2>3 DEF Inv, RoundInv
<1>. QED
    BY <1>2, <1>3

\* cmp(reg_nthr, 1): a lone thread touches neither ctr nor sense.
LEMMA AloneStep ==
    ASSUME TypeOK, Alone, NEW t \in Threads, Code(t) \/ Drain(t)
    PROVE  Alone'
<1>1. NThr' = NThr
    BY DEF NThr
<1>2. pc[t] \in {"out", "exit"} /\ buf[t] = <<>>
    BY DEF Alone
<1>3. CASE Call(t)
    <2>1. /\ NThr <= 1 /\ pc[t] = "out"
          /\ pc' = [pc EXCEPT ![t] = "exit"]
          /\ entered' = [entered EXCEPT ![t] = @ + 1]
          /\ UNCHANGED <<ctr, buf, left>>
        BY <1>3 DEF Call, Goto, Alone
    <2>. QED
        BY <1>1, <2>1 DEF Alone, TypeOK
<1>4. CASE Exit(t)
    BY <1>1, <1>4 DEF Exit, Goto, Alone, TypeOK
<1>. QED
    BY <1>2, <1>3, <1>4
       DEF Code, Drain, ReadSense, Xadd, Reset, Notify, Spin

\* While a round gathers, a step gathers on or makes its thread the last one.
LEMMA GatheringStep ==
    ASSUME TypeOK, NThr > 1, NEW g \in 0 .. Rounds, Gathering(g),
           NEW t \in Threads, Code(t) \/ Drain(t)
    PROVE  Gathering(g)' \/ (g < Rounds /\ Releases(t, g)')
<1>. DEFINE In == {u \in Threads : entered[u] = g + 1}
<1>. USE RoundsAssumption, TeamSize
<1>1. Coming(t, g) \/ Waiting(t, g)
    BY DEF Gathering
<1>2. buf[t] = <<>> /\ SeenSense(t) = sense
    BY <1>1, SeenSenseValue DEF Coming, Waiting
<1>3. CASE Call(t)
    <2>1. Coming(t, g)'
        BY <1>1, <1>3 DEF Call, Goto, Coming, Waiting, TypeOK
    <2>2. \A u \in Threads \ {t} : /\ Coming(u, g) => Coming(u, g)'
                                   /\ Waiting(u, g) => Waiting(u, g)'
        BY <1>3 DEF Call, Goto, Coming, Waiting, TypeOK
    <2>. QED
        BY <2>1, <2>2, <1>3 DEF Gathering, Call
<1>4. CASE ReadSense(t)
    <2>1. Coming(t, g)'
        BY <1>1, <1>2, <1>4 DEF ReadSense, Goto, Coming, Waiting, TypeOK
    <2>2. \A u \in Threads \ {t} : /\ Coming(u, g) => Coming(u, g)'
                                   /\ Waiting(u, g) => Waiting(u, g)'
        BY <1>4 DEF ReadSense, Goto, Coming, Waiting, TypeOK
    <2>. QED
        BY <2>1, <2>2, <1>4 DEF Gathering, ReadSense
<1>5. CASE Xadd(t)
    <2>1. /\ entered[t] = g /\ left[t] = g /\ saved[t] = sense
          /\ g < Rounds
        BY <1>1, <1>5 DEF Xadd, Coming, Waiting
    <2>2. entered' = [entered EXCEPT ![t] = g + 1]
        BY <2>1, <1>5 DEF Xadd
    <2>3. {u \in Threads : entered'[u] = g + 1} = In \cup {t}
        BY <2>2 DEF TypeOK
    <2>4. IsFiniteSet(In) /\ t \notin In /\ In \subseteq Threads
        BY <2>1, ThreadsAssumption, FS_Subset
    <2>5. Cardinality(In \cup {t}) = ctr + 1 /\ ctr' = ctr + 1
        BY <2>4, <1>5, FS_AddElement DEF Gathering, Xadd
    <2>6. \A u \in Threads \ {t} : /\ Coming(u, g) => Coming(u, g)'
                                   /\ Waiting(u, g) => Waiting(u, g)'
        BY <1>5 DEF Xadd, Goto, Coming, Waiting, TypeOK
    <2>7. CASE ctr + 1 = NThr
        <3>1. In \cup {t} = Threads
            BY <2>4, <2>5, <2>7, FS_Subset, ThreadsAssumption DEF NThr
        <3>2. \A u \in Threads \ {t} : Waiting(u, g)'
            BY <3>1, <2>6 DEF Gathering, Coming
        <3>3. entered'[t] = g + 1 /\ Ending(t, g)'
            BY <2>1, <2>2, <2>7, <1>2, <1>5
               DEF Xadd, Goto, Ending, TypeOK
        <3>. QED
            BY <2>1, <3>2, <3>3 DEF Releases
    <2>8. CASE ctr + 1 # NThr
        <3>1. Waiting(t, g)'
            BY <2>1, <2>2, <2>8, <1>5, <1>2 DEF Xadd, Goto, Waiting, TypeOK
        <3>2. In \cup {t} # Threads
            BY <2>5, <2>8 DEF NThr
        <3>3. PICK u \in Threads : u \notin In /\ u # t
            BY <3>2, <2>4
        <3>4. entered'[u] = g
            BY <3>3, <2>2 DEF Gathering, Coming, Waiting, TypeOK
        <3>. QED
            BY <3>1, <3>4, <2>3, <2>5, <2>6 DEF Gathering
    <2>. QED
        BY <2>7, <2>8
<1>6. CASE Spin(t)
    <2>1. Coming(t, g)'
        BY <1>1, <1>2, <1>6 DEF Spin, Goto, Coming, Waiting, TypeOK
    <2>2. \A u \in Threads \ {t} : /\ Coming(u, g) => Coming(u, g)'
                                   /\ Waiting(u, g) => Waiting(u, g)'
        BY <1>6 DEF Spin, Goto, Coming, Waiting, TypeOK
    <2>. QED
        BY <2>1, <2>2, <1>6 DEF Gathering, Spin
<1>7. CASE Exit(t)
    <2>1. Coming(t, g)'
        BY <1>1, <1>7 DEF Exit, Goto, Coming, Waiting, TypeOK
    <2>2. \A u \in Threads \ {t} : /\ Coming(u, g) => Coming(u, g)'
                                   /\ Waiting(u, g) => Waiting(u, g)'
        BY <1>7 DEF Exit, Goto, Coming, Waiting, TypeOK
    <2>. QED
        BY <2>1, <2>2, <1>7 DEF Gathering, Exit
<1>8. ~Reset(t) /\ ~Notify(t) /\ ~Drain(t)
    BY <1>1, <1>2 DEF Reset, Notify, Drain, Coming, Waiting
<1>. QED
    BY <1>3, <1>4, <1>5, <1>6, <1>7, <1>8 DEF Code

\* The last thread releases on until its new sense is seen by all, which
\* starts to gather the next round.
LEMMA ReleasesStep ==
    ASSUME TypeOK, NThr > 1, NEW g \in 0 .. Rounds - 1, NEW r \in Threads,
           Releases(r, g), NEW t \in Threads, Code(t) \/ Drain(t)
    PROVE  Releases(r, g)' \/ Gathering(g + 1)'
<1>. USE RoundsAssumption, TeamSize
<1>. DEFINE Others == \A u \in Threads \ {r} : Waiting(u, g)
<1>1. Flip \in Stores /\ Flip.at = "sense" /\ Flip.val = 1 - sense
    BY StoreFacts DEF Flip, TypeOK
<1>a. /\ Append(<<>>, Flip) = <<Flip>>
      /\ Append(<<ResetStore>>, Flip) = <<ResetStore, Flip>>
      /\ <<Flip>> # <<>> /\ <<ResetStore, Flip>> # <<>>
    <2>1. Append(<<>>, Flip) = <<Flip>> /\ <<Flip>> # <<>>
        BY <1>1, BufferFacts
    <2>2. Append(<<ResetStore>>, Flip) = <<ResetStore, Flip>>
        BY <1>1, StoreFacts, AppendSecond, Zenon
    <2>3. <<ResetStore, Flip>> # <<>>
        OBVIOUS
    <2>. QED
        BY <2>1, <2>2, <2>3
<1>b. /\ Head(<<ResetStore>>) = ResetStore /\ Tail(<<ResetStore>>) = <<>>
      /\ Head(<<ResetStore, Flip>>) = ResetStore
      /\ Tail(<<ResetStore, Flip>>) = <<Flip>>
      /\ Head(<<Flip>>) = Flip /\ Tail(<<Flip>>) = <<>>
      /\ Flip # ResetStore
    BY <1>1, StoreFacts, BufferFacts
<1>2. t = r
    <2>1. SUFFICES ASSUME t # r PROVE FALSE
        OBVIOUS
    <2>2. Waiting(t, g)
        BY <2>1 DEF Releases
    <2>3. SeenSense(t) = saved[t]
        BY <2>2, SeenSenseValue DEF Waiting
    <2>. QED
        BY <2>2, <2>3 DEF Code, Call, ReadSense, Xadd, Reset, Notify, Spin,
                          Exit, Drain, Waiting
<1>3. ASSUME UNCHANGED <<ctr, sense>> PROVE Flip' = Flip
    BY <1>3 DEF Flip, Store
<1>4. ASSUME UNCHANGED sense,
             \A u \in Threads \ {r} :
                UNCHANGED <<buf[u], pc[u], saved[u], entered[u], left[u]>>
      PROVE  Others'
    BY <1>4 DEF Releases, Waiting
<1>5. CASE Call(r)
    <2>1. Others' /\ Flip' = Flip
        BY <1>3, <1>4, <1>5 DEF Call, Goto, TypeOK
    <2>. QED
        BY <2>1, <1>5 DEF Call, Goto, Releases, Ending, Buffered, TypeOK
<1>6. CASE ReadSense(r)
    <2>1. Others' /\ Flip' = Flip
        BY <1>3, <1>4, <1>6 DEF ReadSense, Goto, TypeOK
    <2>2. Buffered(r, g) /\ SeenSense(r) = 1 - sense
        BY <1>6, SeenSenseValue DEF ReadSense, Releases, Ending, Buffered
    <2>. QED
        BY <2>1, <2>2, <1>6 DEF ReadSense, Goto, Releases, Buffered, TypeOK
<1>7. CASE Reset(r)
    <2>1. Others'
        BY <1>4, <1>7 DEF Reset, Goto, TypeOK
    <2>2. Ending(r, g) /\ pc[r] = "reset" /\ buf[r] = <<>>
        BY <1>7, BufferFacts DEF Reset, Releases, Ending, Buffered
    <2>3. buf'[r] = <<ResetStore>>
        BY <2>2, <1>7, StoreFacts, BufferFacts DEF Reset, TypeOK
    <2>. QED
        BY <2>1, <2>2, <2>3, <1>7
           DEF Reset, Goto, Releases, Ending, TypeOK
<1>8. CASE Notify(r)
    <2>1. Others' /\ Flip' = Flip
        BY <1>3, <1>4, <1>8 DEF Notify, Goto, TypeOK
    <2>2. Ending(r, g) /\ pc[r] = "notify" /\ saved[r] = sense
        BY <1>8 DEF Notify, Releases, Ending, Buffered
    <2>3. buf'[r] = Append(buf[r], Flip)
        BY <2>2, <1>8 DEF Notify, Flip, TypeOK
    <2>4. \/ buf[r] = <<ResetStore>> /\ buf'[r] = <<ResetStore, Flip>>
          \/ buf[r] = <<>> /\ ctr = 0 /\ buf'[r] = <<Flip>>
        BY <2>2, <2>3, <1>a DEF Ending
    <2>5. Buffered(r, g)'
        BY <2>1, <2>2, <2>4, <1>8 DEF Notify, Goto, Ending, Buffered, TypeOK
    <2>. QED
        BY <2>1, <2>5, <1>8 DEF Notify, Releases
<1>9. CASE Exit(r)
    <2>1. Others' /\ Flip' = Flip
        BY <1>3, <1>4, <1>9 DEF Exit, Goto, TypeOK
    <2>. QED
        BY <2>1, <1>9 DEF Exit, Goto, Releases, Ending, Buffered, TypeOK
<1>10. CASE Drain(r) /\ Head(buf[r]) = ResetStore
    <2>1. Others' /\ Flip' = Flip
        BY <1>4, <1>10, StoreFacts DEF Drain, TypeOK, Flip, Store
    <2>2. ctr' = 0
        BY <1>10, StoreFacts DEF Drain
    <2>3. \/ Ending(r, g) /\ buf[r] = <<ResetStore>> /\ buf'[r] = <<>>
          \/ /\ Buffered(r, g) /\ buf[r] = <<ResetStore, Flip>>
             /\ buf'[r] = <<Flip>>
        <3>1. buf[r] # <<>> /\ buf'[r] = Tail(buf[r])
            BY <1>10 DEF Drain, TypeOK
        <3>2. Ending(r, g) => buf[r] = <<ResetStore>>
            BY <3>1 DEF Ending
        <3>3. Buffered(r, g) => buf[r] = <<ResetStore, Flip>>
            BY <1>10, <1>b DEF Buffered
        <3>. QED
            BY <3>1, <3>2, <3>3, <1>b DEF Releases
    <2>4. Ending(r, g)' \/ Buffered(r, g)'
        BY <2>1, <2>2, <2>3, <1>10, StoreFacts
           DEF Drain, Ending, Buffered, TypeOK
    <2>. QED
        BY <2>1, <2>4, <1>10 DEF Drain, Releases
<1>11. CASE Drain(r) /\ Head(buf[r]) # ResetStore
    <2>1. Buffered(r, g) /\ buf[r] = <<Flip>> /\ ctr = 0
        <3>1. buf[r] # <<>> /\ ~Ending(r, g)
            BY <1>11, <1>b DEF Drain, Ending
        <3>. QED
            BY <3>1, <1>11, <1>b DEF Releases, Buffered
    <2>2. ctr' = 0 /\ sense' = 1 - sense /\ buf' = [buf EXCEPT ![r] = <<>>]
        BY <2>1, <1>1, <1>11, <1>b DEF Drain
    <2>3. Coming(r, g + 1)'
        BY <2>1, <2>2, <1>11
           DEF Drain, Releases, Buffered, Coming, TypeOK
    <2>4. \A u \in Threads \ {r} : Coming(u, g + 1)'
        BY <2>2, <1>11 DEF Drain, Releases, Waiting, Coming, TypeOK
    <2>5. {u \in Threads : entered'[u] = (g + 1) + 1} = {}
        BY <1>11 DEF Drain, Releases, Waiting
    <2>. QED
        BY <2>2, <2>3, <2>4, <2>5, FS_EmptySet DEF Gathering, Coming
<1>12. ~Xadd(r) /\ ~Spin(r)
    <2>1. ~Xadd(r)
        BY <1>a DEF Xadd, Releases, Ending, Buffered
    <2>2. ~Spin(r)
        BY DEF Spin, Releases, Ending, Buffered
    <2>. QED
        BY <2>1, <2>2
<1>. QED
    BY <1>2, <1>5, <1>6, <1>7, <1>8, <1>9, <1>10, <1>11, <1>12 DEF Code

\* A thread that enters or leaves a barrier stays within the bound, and the
\* counter stays within the size of the team.
LEMMA BoundsStep ==
    ASSUME TypeOK, RoundInv, NEW t \in Threads
    PROVE  /\ Xadd(t) => entered[t] < Rounds /\ ctr < NThr
           /\ Exit(t) => left[t] < Rounds
<1>. USE RoundsAssumption, TeamSize
<1>1. /\ entered[t] \in 0 .. Rounds /\ left[t] \in 0 .. Rounds
      /\ ctr \in Nat /\ sense \in 0 .. 1
    BY DEF TypeOK
<1>2. CASE Alone
    <2>1. \/ pc[t] = "out" /\ left[t] = entered[t]
          \/ pc[t] = "exit" /\ left[t] + 1 = entered[t]
        BY <1>2 DEF Alone
    <2>. QED
        BY <1>1, <2>1 DEF Xadd, Exit
<1>3. ASSUME NEW g \in 0 .. Rounds, Gathering(g)
      PROVE  /\ Xadd(t) => entered[t] < Rounds /\ ctr < NThr
             /\ Exit(t) => left[t] < Rounds
    <2>. DEFINE In == {u \in Threads : entered[u] = g + 1}
    <2>1. In # Threads /\ In \in SUBSET Threads
        BY <1>3 DEF Gathering
    <2>2. ctr < NThr
        BY <1>3, <2>1, FS_Subset, FS_CardinalityType, ThreadsAssumption
           DEF Gathering, NThr
    <2>3. Coming(t, g) \/ Waiting(t, g)
        BY <1>3 DEF Gathering
    <2>. QED
        BY <1>1, <2>2, <2>3 DEF Coming, Waiting, Xadd, Exit
<1>4. ASSUME NEW g \in 0 .. Rounds - 1, NEW r \in Threads, Releases(r, g)
      PROVE  /\ Xadd(t) => entered[t] < Rounds /\ ctr < NThr
             /\ Exit(t) => left[t] < Rounds
    <2>1. CASE t = r
        <3>1. Flip \in Stores
            BY <1>1, StoreFacts DEF Flip
        <3>2. <<ResetStore, Flip>> # <<>> /\ <<Flip>> # <<>>
            BY <3>1, StoreFacts, BufferFacts
        <3>. QED
            <4>1. CASE Ending(r, g)
                <5>1. pc[t] # "xadd" /\ pc[t] # "exit"
                    BY <2>1, <4>1 DEF Ending
                <5>. QED
                    BY <5>1 DEF Xadd, Exit
            <4>2. CASE Buffered(r, g)
                <5>1. ~Xadd(t)
                    BY <2>1, <3>2, <4>2 DEF Buffered, Xadd
                <5>2. pc[t] = "exit" => left[t] = g
                    BY <2>1, <4>2 DEF Buffered
                <5>. QED
                    BY <1>1, <5>1, <5>2 DEF Exit
            <4>. QED
                BY <1>4, <4>1, <4>2 DEF Releases
    <2>2. CASE t # r
        BY <1>4, <2>2 DEF Releases, Waiting, Xadd, Exit
    <2>. QED
        BY <2>1, <2>2
<1>. QED
    BY <1>2, <1>3, <1>4 DEF RoundInv

\* No access of the emitted code leaves the types.
LEMMA TypeStep ==
    ASSUME TypeOK, RoundInv, NEW t \in Threads, Code(t) \/ Drain(t)
    PROVE  TypeOK'
<1>. USE RoundsAssumption, TeamSize
<1>0. NThr' = NThr
    BY DEF NThr
<1>1. CASE Call(t)
    <2>1. UNCHANGED <<ctr, sense, buf, saved, left>>
        BY <1>1 DEF Call
    <2>1a. entered' \in [Threads -> 0 .. Rounds]
        <3>1. entered[t] + 1 \in 0 .. Rounds
            BY <1>1 DEF Call, TypeOK
        <3>2. \/ entered' = [entered EXCEPT ![t] = entered[t] + 1]
              \/ UNCHANGED entered
            BY <1>1 DEF Call
        <3>. QED
            BY <3>1, <3>2 DEF TypeOK
    <2>2. pc' = [pc EXCEPT ![t] = "exit"] \/ pc' = [pc EXCEPT ![t] = "read"]
        BY <1>1 DEF Call, Goto
    <2>. QED
        BY <1>0, <2>1, <2>1a, <2>2 DEF TypeOK
<1>2. CASE ReadSense(t)
    <2>1. SeenSense(t) \in 0 .. 1
        <3>1. \A i \in 1 .. Len(buf[t]) : buf[t][i] \in Stores
            BY DEF TypeOK
        <3>2. buf[t] # <<>> => Len(buf[t]) \in 1 .. Len(buf[t])
            BY DEF TypeOK
        <3>3. \A s \in Stores : s.at = "sense" => s.val \in 0 .. 1
            BY StoreFacts DEF Stores
        <3>. QED
            BY <3>1, <3>2, <3>3 DEF SeenSense, TypeOK
    <2>. QED
        BY <1>0, <1>2, <2>1 DEF ReadSense, Goto, TypeOK
<1>3. CASE Xadd(t)
    <2>1. entered[t] + 1 \in 0 .. Rounds /\ ctr' \in 0 .. NThr
        <3>1. entered[t] \in 0 .. Rounds /\ ctr \in 0 .. NThr
            BY DEF TypeOK
        <3>2. entered[t] < Rounds /\ ctr < NThr /\ ctr' = ctr + 1
            BY <1>3, BoundsStep DEF Xadd
        <3>. QED
            BY <3>1, <3>2
    <2>2. \/ pc' = [pc EXCEPT ![t] = "reset"]
          \/ pc' = [pc EXCEPT ![t] = "spin"]
        BY <1>3 DEF Xadd, Goto
    <2>. QED
        BY <1>0, <1>3, <2>1, <2>2 DEF Xadd, TypeOK
<1>4. CASE Reset(t)
    <2>1. Append(buf[t], ResetStore) \in Seq(Stores)
        BY StoreFacts DEF TypeOK
    <2>. QED
        BY <1>0, <1>4, <2>1 DEF Reset, Goto, TypeOK
<1>5. CASE Notify(t)
    <2>1. Store("sense", 1 - saved[t]) \in Stores
        <3>1. saved[t] \in 0 .. 1
            BY DEF TypeOK
        <3>2. 1 - saved[t] \in 0 .. 1
            BY <3>1
        <3>. QED
            BY <3>2, StoreFacts
    <2>2. Append(buf[t], Store("sense", 1 - saved[t])) \in Seq(Stores)
        BY <2>1 DEF TypeOK
    <2>. QED
        BY <1>0, <1>5, <2>2 DEF Notify, Goto, TypeOK
<1>6. CASE Spin(t)
    BY <1>0, <1>6 DEF Spin, Goto, TypeOK
<1>7. CASE Exit(t)
    <2>1. left[t] + 1 \in 0 .. Rounds
        BY <1>7, BoundsStep DEF TypeOK
    <2>. QED
        BY <1>0, <1>7, <2>1 DEF Exit, Goto, TypeOK
<1>8. CASE Drain(t)
    <2>1. Head(buf[t]) \in Stores /\ Tail(buf[t]) \in Seq(Stores)
        BY <1>8 DEF Drain, TypeOK
    <2>2. \A s \in Stores : /\ s.at = "sense" => s.val \in 0 .. 1
                            /\ s.at = "ctr" => s.val = 0
        BY StoreFacts DEF Stores
    <2>3. ctr' \in 0 .. NThr /\ sense' \in 0 .. 1
        BY <1>8, <2>1, <2>2 DEF Drain, TypeOK
    <2>. QED
        BY <1>0, <1>8, <2>1, <2>3 DEF Drain, TypeOK
<1>. QED
    BY <1>1, <1>2, <1>3, <1>4, <1>5, <1>6, <1>7, <1>8 DEF Code

\* The invariant is inductive.
LEMMA StepInv == Inv /\ [Next]_vars => Inv'
<1>. SUFFICES ASSUME Inv, [Next]_vars PROVE Inv'
    OBVIOUS
<1>. USE RoundsAssumption
<1>0. NThr' = NThr
    BY DEF NThr
<1>1. ASSUME NEW t \in Threads, Code(t) \/ Drain(t) PROVE Inv'
    <2>1. TypeOK'
        BY <1>1, TypeStep DEF Inv
    <2>2. CASE Alone
        BY <1>1, <2>1, <2>2, AloneStep DEF Inv, RoundInv
    <2>3. ASSUME NThr > 1, NEW g \in 0 .. Rounds, Gathering(g)
          PROVE  RoundInv'
        <3>1. \/ Gathering(g)'
              \/ g \in 0 .. Rounds - 1 /\ Releases(t, g)'
            BY <1>1, <2>3, GatheringStep DEF Inv
        <3>. QED
            BY <1>0, <2>3, <3>1 DEF RoundInv
    <2>4. ASSUME NThr > 1, NEW g \in 0 .. Rounds - 1, NEW r \in Threads,
                 Releases(r, g)
          PROVE  RoundInv'
        <3>1. Releases(r, g)' \/ Gathering(g + 1)'
            BY <1>1, <2>4, ReleasesStep DEF Inv
        <3>2. g + 1 \in 0 .. Rounds
            OBVIOUS
        <3>. QED
            BY <1>0, <2>4, <3>1, <3>2 DEF RoundInv
    <2>. QED
        BY <2>1, <2>2, <2>3, <2>4 DEF Inv, RoundInv
<1>2. CASE UNCHANGED vars
    <2>1. TypeOK'
        BY <1>0, <1>2 DEF vars, Inv, TypeOK
    <2>2. Alone => Alone'
        BY <1>0, <1>2 DEF vars, Alone
    <2>3. \A g \in 0 .. Rounds : Gathering(g) => Gathering(g)'
        BY <1>2 DEF vars, Gathering, Coming, Waiting
    <2>4. ASSUME NEW g \in 0 .. Rounds - 1, NEW r \in Threads
          PROVE  Releases(r, g) => Releases(r, g)'
        BY <1>2 DEF vars, Releases, Ending, Buffered, Flip, Waiting
    <2>. QED
        BY <1>0, <2>1, <2>2, <2>3, <2>4 DEF Inv, RoundInv
<1>. QED
    BY <1>1, <1>2 DEF Next, Done, SpinOn

------------------------------------------------------------------------------
(***************************************************************************)
(* The invariant of the rounds holds in every reachable state, for every   *)
(* team and every number of rounds through one context.                    *)
(***************************************************************************)
THEOREM Invariance == Spec => [](TypeOK /\ RoundInv)
<1>1. Spec => []Inv
    BY InitInv, StepInv, PTL DEF Spec
<1>. QED
    BY <1>1, PTL DEF Inv

(***************************************************************************)
(* The counter never exceeds the size of the team, whatever the number of  *)
(* rounds: the reset of the last thread is never lost nor late.            *)
(***************************************************************************)
THEOREM TypeCorrect == Spec => []TypeOK
BY Invariance, PTL

\* ctr and sense have one plain writer at a time, and the counter is never
\* incremented while its reset is on its way.
THEOREM Exclusive == Spec => []ReleaseIsExclusive
<1>1. TypeOK /\ RoundInv => ReleaseIsExclusive
    <2>. SUFFICES ASSUME TypeOK, RoundInv, NEW t \in Threads,
                         NEW u \in Threads, t # u, Releasing(t)
                  PROVE  ~Releasing(u) /\ pc[u] = "spin"
        BY DEF ReleaseIsExclusive
    <2>1. ~Alone /\ \A g \in 0 .. Rounds : ~Gathering(g)
        BY DEF Alone, Gathering, Coming, Waiting, Releasing
    <2>2. PICK g \in 0 .. Rounds - 1, r \in Threads : Releases(r, g)
        BY <2>1 DEF RoundInv
    <2>. QED
        BY <2>2 DEF Releases, Waiting, Releasing
<1>. QED
    BY <1>1, Invariance, PTL

(***************************************************************************)
(* Refinement: the xadd of a thread enters the abstract barrier, its way   *)
(* out leaves it, and no other access of the emitted code is visible.      *)
(***************************************************************************)
LEMMA RefinesInit == Init => Abstract!Init
BY DEF Init, Abstract!Init

\* A thread on its way out was released: everybody has entered its round.
LEMMA ReleasedStep ==
    ASSUME TypeOK, RoundInv, NEW t \in Threads, pc[t] = "exit"
    PROVE  left[t] < entered[t] /\ \A u \in Threads : entered[t] <= entered[u]
<1>0. /\ entered \in [Threads -> 0 .. Rounds]
      /\ left \in [Threads -> 0 .. Rounds]
    BY DEF TypeOK
<1>1. CASE Alone
    <2>1. \A u \in Threads : u = t
        BY <1>1, FS_Singleton, ThreadsAssumption DEF Alone, NThr
    <2>2. left[t] + 1 = entered[t]
        BY <1>1 DEF Alone
    <2>. QED
        BY <1>0, <2>1, <2>2, RoundsAssumption
<1>2. ASSUME NEW g \in 0 .. Rounds, Gathering(g)
      PROVE  /\ left[t] < entered[t]
             /\ \A u \in Threads : entered[t] <= entered[u]
    <2>1. entered[t] = g /\ left[t] + 1 = g
        BY <1>2 DEF Gathering, Coming, Waiting
    <2>2. \A u \in Threads : entered[u] = g \/ entered[u] = g + 1
        BY <1>2 DEF Gathering, Coming, Waiting
    <2>. QED
        BY <1>0, <2>1, <2>2, RoundsAssumption
<1>3. ASSUME NEW g \in 0 .. Rounds - 1, NEW r \in Threads, Releases(r, g)
      PROVE  /\ left[t] < entered[t]
             /\ \A u \in Threads : entered[t] <= entered[u]
    <2>1. t = r
        BY <1>3 DEF Releases, Waiting
    <2>2. left[t] = g
        BY <1>3, <2>1 DEF Releases, Ending, Buffered
    <2>3. \A u \in Threads : entered[u] = g + 1
        BY <1>3, <2>1 DEF Releases, Waiting
    <2>. QED
        BY <2>2, <2>3, RoundsAssumption
<1>. QED
    BY <1>1, <1>2, <1>3 DEF RoundInv

\* A thread at its xadd, and a lone thread, left every barrier it entered.
LEMMA ArrivingStep ==
    ASSUME TypeOK, RoundInv, NEW t \in Threads,
           Xadd(t) \/ (Call(t) /\ NThr <= 1)
    PROVE  left[t] = entered[t]
<1>. USE TeamSize, RoundsAssumption
<1>1. CASE Alone
    BY <1>1 DEF Alone, Xadd, Call
<1>2. ASSUME NThr > 1, NEW g \in 0 .. Rounds, Gathering(g)
      PROVE  left[t] = entered[t]
    BY <1>2 DEF Gathering, Coming, Waiting, Xadd, Call
<1>3. ASSUME NThr > 1, NEW g \in 0 .. Rounds - 1, NEW r \in Threads,
             Releases(r, g)
      PROVE  left[t] = entered[t]
    <2>1. pc[t] = "xadd"
        BY <1>3 DEF Xadd
    <2>2. t = r
        BY <1>3, <2>1 DEF Releases, Waiting
    <2>. QED
        BY <1>3, <2>1, <2>2 DEF Releases, Ending, Buffered
<1>. QED
    BY <1>1, <1>2, <1>3 DEF RoundInv

\* Each access of the emitted code is an abstract step or invisible.
LEMMA RefinesNext ==
    TypeOK /\ RoundInv /\ [Next]_vars => [Abstract!Next]_<<entered, left>>
<1>. SUFFICES ASSUME TypeOK, RoundInv, [Next]_vars
              PROVE  Abstract!Next \/ UNCHANGED <<entered, left>>
    OBVIOUS
<1>1. ASSUME NEW t \in Threads, Xadd(t) \/ (Call(t) /\ NThr <= 1)
      PROVE  Abstract!Next
    <2>1. left[t] = entered[t]
        BY <1>1, ArrivingStep
    <2>2. entered[t] < Rounds
        BY <1>1, BoundsStep DEF Call
    <2>3. Abstract!Enter(t)
        BY <1>1, <2>1, <2>2 DEF Abstract!Enter, Xadd, Call
    <2>. QED
        BY <2>3 DEF Abstract!Next, Abstract!Step
<1>2. ASSUME NEW t \in Threads, Exit(t)
      PROVE  Abstract!Next
    <2>1. Abstract!Leave(t)
        BY <1>2, ReleasedStep DEF Exit, Abstract!Leave
    <2>. QED
        BY <2>1 DEF Abstract!Next, Abstract!Step
<1>3. ASSUME NEW t \in Threads, Code(t) \/ Drain(t), ~Xadd(t), ~Exit(t),
             ~(Call(t) /\ NThr <= 1)
      PROVE  UNCHANGED <<entered, left>>
    BY <1>3 DEF Code, Call, ReadSense, Reset, Notify, Spin, Drain
<1>. QED
    BY <1>1, <1>2, <1>3 DEF Next, Done, SpinOn, vars

(***************************************************************************)
(* The code generate() emits implements the abstract barrier for every     *)
(* team and every number of rounds: nobody is released early.              *)
(***************************************************************************)
THEOREM Refinement == Spec => ImplementsBarrier
<1>1. Spec => Abstract!Init /\ [][Abstract!Next]_<<entered, left>>
    BY RefinesInit, RefinesNext, Invariance, PTL DEF Spec
<1>. QED
    BY <1>1 DEF ImplementsBarrier, Abstract!Spec, Abstract!vars

(***************************************************************************)
(* What callers rely on: a thread past its r-th barrier() proves that      *)
(* every thread of the group has called its r-th barrier().                *)
(***************************************************************************)
THEOREM NobodyReleasedEarly == Spec => []Abstract!NobodyEarly
<1>. DEFINE AInv == Abstract!TypeOK /\ Abstract!NobodyEarly
<1>. USE RoundsAssumption
<1>1. Abstract!Init => AInv
    BY DEF Abstract!Init, Abstract!TypeOK, Abstract!NobodyEarly
<1>2. AInv /\ [Abstract!Next]_<<entered, left>> => AInv'
    <2>. SUFFICES ASSUME AInv, [Abstract!Next]_<<entered, left>> PROVE AInv'
        OBVIOUS
    <2>0. \A t \in Threads : entered[t] \in 0 .. Rounds /\ left[t] \in 0 .. Rounds
        BY DEF Abstract!TypeOK
    <2>1. CASE UNCHANGED <<entered, left>>
        BY <2>1 DEF Abstract!TypeOK, Abstract!NobodyEarly
    <2>2. ASSUME NEW t \in Threads, Abstract!Enter(t) PROVE AInv'
        BY <2>0, <2>2 DEF Abstract!Enter, Abstract!TypeOK, Abstract!NobodyEarly
    <2>3. ASSUME NEW t \in Threads, Abstract!Leave(t) PROVE AInv'
        <3>1. left[t] + 1 \in 0 .. Rounds
            BY <2>0, <2>3 DEF Abstract!Leave
        <3>2. Abstract!TypeOK'
            BY <2>3, <3>1 DEF Abstract!Leave, Abstract!TypeOK
        <3>3. ASSUME NEW u \in Threads PROVE left[t] + 1 <= entered[u]
            BY <2>0, <2>3 DEF Abstract!Leave
        <3>4. Abstract!NobodyEarly'
            BY <2>3, <3>3 DEF Abstract!Leave, Abstract!TypeOK, Abstract!NobodyEarly
        <3>. QED
            BY <3>2, <3>4
    <2>. QED
        BY <2>1, <2>2, <2>3 DEF Abstract!Next, Abstract!Step
<1>3. Spec => Abstract!Init /\ [][Abstract!Next]_<<entered, left>>
    BY RefinesInit, RefinesNext, Invariance, PTL DEF Spec
<1>4. Spec => []AInv
    BY <1>1, <1>2, <1>3, PTL
<1>. QED
    BY <1>4, PTL
==============================================================================

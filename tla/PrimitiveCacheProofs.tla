------------------------- MODULE PrimitiveCacheProofs -------------------------
(***************************************************************************)
(* The list and the mapper of the primitive cache agree in every program   *)
(* of any number of threads.  The mutex is released between get() and the  *)
(* wrapper of a hit but not between a miss and add(), and creations nest;  *)
(* the invariant follows, for each thread, the calls of get_primitive it   *)
(* is in, how often each of them has locked the mutex, and that none of    *)
(* the keys they are creating is in the cache.                             *)
(*                                                                         *)
(* Then, that nothing which is still referred to is destroyed, and that    *)
(* the global scratchpads fit what runs and are freed with the last        *)
(* reference, where no thread gets references of another one.              *)
(***************************************************************************)
EXTENDS PrimitiveCache, SequenceTheorems, FiniteSetTheorems,
        WellFoundedInduction, TLAPS

\* Sequences of whatever they hold.

IsSeq(s) == s \in Seq(ToSet(s))

\* A sequence over some set is one over its own elements.
LEMMA IsSeqOf ==
    ASSUME NEW S, NEW s \in Seq(S)
    PROVE  IsSeq(s)
BY SMT DEF IsSeq, ToSet

\* A stack with one call.
LEMMA OneCall ==
    ASSUME NEW f
    PROVE  /\ <<f>> # <<>> /\ Head(<<f>>) = f /\ Tail(<<f>>) = <<>>
           /\ <<f>> \o <<>> = <<f>>
<1>1. <<f>> \in Seq({f}) /\ <<>> \in Seq({f})
    OBVIOUS
<1>. QED BY <1>1, HeadTailProperties, ConcatEmptySeq

\* A stack with a call inside another one.
LEMMA TwoCalls ==
    ASSUME NEW f, NEW g
    PROVE  /\ <<f, g>> # <<>> /\ Head(<<f, g>>) = f /\ Tail(<<f, g>>) = <<g>>
           /\ <<f>> \o <<g>> = <<f, g>>
<1>. DEFINE S == {f, g}
            s == <<f, g>>
<1>1. s \in Seq(S) /\ <<g>> \in Seq(S) /\ <<f>> \in Seq(S) /\ s # <<>> /\ Head(s) = f
    OBVIOUS
<1>2. Tail(s) \in Seq(S) /\ Len(Tail(s)) = 1 /\ Tail(s)[1] = g
    BY <1>1, HeadTailProperties
<1>3. Tail(s) = <<g>>
    BY <1>1, <1>2, SeqEqual
<1>4. /\ <<f>> \o <<g>> \in Seq(S) /\ Len(<<f>> \o <<g>>) = 2
      /\ (<<f>> \o <<g>>)[1] = f /\ (<<f>> \o <<g>>)[2] = g
    BY <1>1, ConcatProperties
<1>. DEFINE c == <<f>> \o <<g>>
<1>. HIDE DEF c
<1>5. c = s
    <2>1. c \in Seq(S) /\ Len(c) = 2 /\ c[1] = f /\ c[2] = g
        BY <1>4 DEF c
    <2>2. s \in Seq(S) /\ Len(s) = 2 /\ s[1] = f /\ s[2] = g
        BY <1>1
    <2>. HIDE DEF s, S
    <2>3. \A i \in 1 .. Len(c) : c[i] = s[i]
        BY <2>1, <2>2
    <2>. QED BY <2>1, <2>2, <2>3, SeqEqual
<1>6. s # <<>> /\ Head(s) = f
    BY <1>1
<1>. QED BY <1>3, <1>5, <1>6, Zenon DEF c

\* All entries but the last.
LEMMA FrontEntries ==
    ASSUME NEW S, NEW l \in Seq(S), l # <<>>
    PROVE  /\ Front(l) \in Seq(S)
           /\ Len(Front(l)) = Len(l) - 1
           /\ \A i \in 1 .. Len(l) - 1 : Front(l)[i] = l[i]
<1>1. Len(l) \in Nat \ {0} /\ \A i \in 1 .. Len(l) - 1 : l[i] \in S
    BY EmptySeq, ElementOfSeq
<1>. DEFINE n == Len(l) - 1
<1>2. n \in Nat /\ Front(l) = SubSeq(l, 1, n)
    BY <1>1 DEF Front
<1>. HIDE DEF n
<1>3. /\ SubSeq(l, 1, n) \in Seq(S)
      /\ Len(SubSeq(l, 1, n)) = IF 1 <= n THEN n - 1 + 1 ELSE 0
      /\ \A i \in 1 .. n - 1 + 1 : SubSeq(l, 1, n)[i] = l[1 + i - 1]
    BY <1>1, <1>2, SubSeqProperties DEF n
<1>4. Len(Front(l)) = n
    <2>1. Len(SubSeq(l, 1, n)) = n
        BY <1>2, <1>3
    <2>. QED BY <1>2, <2>1, Zenon
<1>5. ASSUME NEW i \in 1 .. n PROVE Front(l)[i] = l[i]
    <2>1. i \in 1 .. n - 1 + 1 /\ 1 + i - 1 = i
        BY <1>2
    <2>. QED BY <1>2, <1>3, <2>1
<1>. QED BY <1>2, <1>3, <1>4, <1>5 DEF n

\* Entry i in front of the others.
LEMMA ToFrontEntries ==
    ASSUME NEW S, NEW l \in Seq(S), NEW i \in DOMAIN l
    PROVE  LET m == <<l[i]>> \o RemoveAt(l, i)
           IN  /\ m \in Seq(S) /\ Len(m) = Len(l)
               /\ \A j \in 1 .. Len(l) :
                     m[j] = IF j = 1 THEN l[i] ELSE IF j <= i THEN l[j - 1] ELSE l[j]
<1>. DEFINE n == Len(l)
            a == SubSeq(l, 1, i - 1)
            b == SubSeq(l, i + 1, n)
<1>1. n \in Nat /\ i \in 1 .. n /\ \A j \in 1 .. n : l[j] \in S
    BY LenProperties, ElementOfSeq
<1>2. /\ a \in Seq(S) /\ Len(a) = i - 1
      /\ \A j \in 1 .. i - 1 : a[j] = l[j]
    <2>1. /\ a \in Seq(S)
          /\ Len(a) = IF 1 <= i - 1 THEN (i - 1) - 1 + 1 ELSE 0
          /\ \A j \in 1 .. (i - 1) - 1 + 1 : a[j] = l[1 + j - 1]
        <3>1. i - 1 \in Int /\ \A j \in 1 .. i - 1 : l[j] \in S
            BY <1>1
        <3>. QED BY <3>1, SubSeqProperties
    <2>. QED BY <1>1, <2>1
<1>3. /\ b \in Seq(S) /\ Len(b) = n - i
      /\ \A j \in 1 .. n - i : b[j] = l[i + j]
    <2>1. /\ b \in Seq(S)
          /\ Len(b) = IF i + 1 <= n THEN n - (i + 1) + 1 ELSE 0
          /\ \A j \in 1 .. n - (i + 1) + 1 : b[j] = l[(i + 1) + j - 1]
        <3>1. i + 1 \in Int /\ n \in Int /\ \A j \in i + 1 .. n : l[j] \in S
            BY <1>1
        <3>. QED BY <3>1, SubSeqProperties
    <2>. QED BY <1>1, <2>1
<1>. HIDE DEF a, b
<1>4. /\ a \o b \in Seq(S) /\ Len(a \o b) = n - 1
      /\ \A j \in 1 .. n - 1 : (a \o b)[j] = IF j <= i - 1 THEN l[j] ELSE l[j + 1]
    <2>1. /\ a \o b \in Seq(S) /\ Len(a \o b) = Len(a) + Len(b)
          /\ \A j \in 1 .. Len(a) + Len(b) :
                (a \o b)[j] = IF j <= Len(a) THEN a[j] ELSE b[j - Len(a)]
        BY <1>2, <1>3, ConcatProperties
    <2>2. Len(a) + Len(b) = n - 1
        BY <1>1, <1>2, <1>3
    <2>3. ASSUME NEW j \in 1 .. n - 1
          PROVE  (a \o b)[j] = IF j <= i - 1 THEN l[j] ELSE l[j + 1]
        <3>1. CASE j <= i - 1
            BY <1>1, <1>2, <2>1, <2>2, <3>1
        <3>2. CASE ~(j <= i - 1)
            <4>1. (a \o b)[j] = b[j - (i - 1)]
                BY <1>1, <1>2, <2>1, <2>2, <3>2
            <4>2. j - (i - 1) \in 1 .. n - i /\ i + (j - (i - 1)) = j + 1
                BY <1>1, <3>2
            <4>. QED BY <1>3, <3>2, <4>1, <4>2
        <3>. QED BY <3>1, <3>2
    <2>. QED BY <2>1, <2>2, <2>3
<1>5. RemoveAt(l, i) = a \o b
    BY DEF RemoveAt, a, b
<1>. DEFINE r == a \o b
<1>. HIDE DEF r
<1>6. <<l[i]>> \in Seq(S) /\ Len(<<l[i]>>) = 1 /\ <<l[i]>>[1] = l[i]
    BY <1>1
<1>7. /\ <<l[i]>> \o r \in Seq(S) /\ Len(<<l[i]>> \o r) = 1 + Len(r)
      /\ \A j \in 1 .. 1 + Len(r) :
            (<<l[i]>> \o r)[j] = IF j <= 1 THEN <<l[i]>>[j] ELSE r[j - 1]
    BY <1>4, <1>6, ConcatProperties DEF r
<1>8. ASSUME NEW j \in 1 .. n
      PROVE  (<<l[i]>> \o r)[j] =
                IF j = 1 THEN l[i] ELSE IF j <= i THEN l[j - 1] ELSE l[j]
    <2>1. CASE j = 1
        BY <1>1, <1>4, <1>6, <1>7, <2>1 DEF r
    <2>2. CASE j # 1
        <3>1. j - 1 \in 1 .. n - 1 /\ (j - 1) + 1 = j
            BY <1>1, <2>2
        <3>2. (<<l[i]>> \o r)[j] = r[j - 1]
            BY <1>1, <1>4, <1>7, <2>2 DEF r
        <3>3. r[j - 1] = IF j - 1 <= i - 1 THEN l[j - 1] ELSE l[j]
            BY <1>4, <3>1 DEF r
        <3>4. CASE j <= i
            <4>1. j - 1 <= i - 1
                BY <1>1, <3>4
            <4>. QED BY <2>2, <3>2, <3>3, <3>4, <4>1, Zenon
        <3>5. CASE ~(j <= i)
            <4>1. ~(j - 1 <= i - 1)
                BY <1>1, <3>5
            <4>. QED BY <2>2, <3>2, <3>3, <3>5, <4>1, Zenon
        <3>. QED BY <3>4, <3>5
    <2>. QED BY <2>1, <2>2
<1>. QED BY <1>1, <1>4, <1>5, <1>7, <1>8 DEF r

\* A new first entry.
LEMMA Consed ==
    ASSUME NEW S, NEW l \in Seq(S), NEW e
    PROVE  /\ <<e>> \o l \in Seq(S \cup {e})
           /\ Len(<<e>> \o l) = Len(l) + 1
           /\ \A i \in 1 .. Len(l) + 1 :
                 (<<e>> \o l)[i] = IF i = 1 THEN e ELSE l[i - 1]
<1>1. <<e>> \in Seq(S \cup {e}) /\ l \in Seq(S \cup {e})
    BY SeqMonotonic
<1>. QED BY <1>1, ConcatProperties

------------------------------------------------------------------------------
(* The two structures of the cache, as values.                             *)

Agree(l, m) ==
    /\ \A i, j \in DOMAIN l : l[i].key = l[j].key => i = j
    /\ DOMAIN m = { l[i].key : i \in DOMAIN l }
    /\ \A i \in DOMAIN l : m[l[i].key] = l[i].impl

\* get(): splice() reorders the list and loses nothing.
LEMMA ToFrontAgrees ==
    ASSUME NEW S, NEW l \in Seq(S), NEW m, Agree(l, m), NEW k \in DOMAIN m
    PROVE  /\ ToFront(l, k) \in Seq(S) /\ Len(ToFront(l, k)) = Len(l)
           /\ Agree(ToFront(l, k), m)
<1>. DEFINE i == CHOOSE x \in DOMAIN l : l[x].key = k
            r == <<l[i]>> \o RemoveAt(l, i)
            n == Len(l)
<1>1. i \in DOMAIN l
    BY DEF Agree
<1>2. n \in Nat /\ DOMAIN l = 1 .. n
    BY LenProperties
<1>. HIDE DEF i
<1>3. /\ r \in Seq(S) /\ Len(r) = n
      /\ \A j \in 1 .. n :
            r[j] = IF j = 1 THEN l[i] ELSE IF j <= i THEN l[j - 1] ELSE l[j]
    BY <1>1, ToFrontEntries
<1>4. DOMAIN r = 1 .. n
    BY <1>3, LenProperties
<1>. HIDE DEF r, n
<1>. DEFINE from == [j \in 1 .. n |-> IF j = 1 THEN i ELSE IF j <= i THEN j - 1 ELSE j]
<1>5. \A j \in 1 .. n : from[j] \in 1 .. n /\ r[j] = l[from[j]]
    BY <1>1, <1>2, <1>3
<1>6. \A j, h \in 1 .. n : from[j] = from[h] => j = h
    BY <1>1, <1>2
<1>7. \A h \in 1 .. n : \E j \in 1 .. n : from[j] = h
    <2>. SUFFICES ASSUME NEW h \in 1 .. n
                  PROVE  \E j \in 1 .. n : from[j] = h
        OBVIOUS
    <2>1. CASE h = i
        <3>1. 1 \in 1 .. n /\ from[1] = h
            BY <1>2, <2>1
        <3>. QED BY <3>1
    <2>2. CASE h < i
        <3>1. h + 1 \in 1 .. n /\ from[h + 1] = h
            BY <1>1, <1>2, <2>2
        <3>. QED BY <3>1
    <2>3. CASE h > i
        <3>1. from[h] = h
            BY <1>1, <1>2, <2>3
        <3>. QED BY <3>1
    <2>. QED BY <1>1, <1>2, <2>1, <2>2, <2>3
<1>. HIDE DEF from
<1>8. Agree(r, m)
    <2>1. ASSUME NEW j \in DOMAIN r, NEW h \in DOMAIN r, r[j].key = r[h].key
          PROVE  j = h
        <3>1. /\ from[j] \in DOMAIN l /\ r[j] = l[from[j]]
              /\ from[h] \in DOMAIN l /\ r[h] = l[from[h]]
            BY <1>2, <1>4, <1>5
        <3>2. from[j] = from[h]
            BY <2>1, <3>1 DEF Agree
        <3>. QED BY <1>4, <1>6, <3>2
    <2>2. DOMAIN m = { r[j].key : j \in DOMAIN r }
        <3>1. ASSUME NEW x \in DOMAIN m PROVE \E j \in DOMAIN r : x = r[j].key
            <4>1. PICK h \in DOMAIN l : x = l[h].key
                BY DEF Agree
            <4>2. PICK j \in 1 .. n : from[j] = h
                BY <1>2, <1>7
            <4>. QED BY <1>4, <1>5, <4>1, <4>2
        <3>2. ASSUME NEW j \in DOMAIN r PROVE r[j].key \in DOMAIN m
            <4>1. from[j] \in DOMAIN l /\ r[j] = l[from[j]]
                BY <1>2, <1>4, <1>5
            <4>. QED BY <4>1 DEF Agree
        <3>. QED BY <3>1, <3>2
    <2>3. ASSUME NEW j \in DOMAIN r PROVE m[r[j].key] = r[j].impl
        <3>1. from[j] \in DOMAIN l /\ r[j] = l[from[j]]
            BY <1>2, <1>4, <1>5
        <3>. QED BY <3>1 DEF Agree
    <2>. QED BY <2>1, <2>2, <2>3 DEF Agree
<1>9. ToFront(l, k) = r
    BY DEF ToFront, r, i
<1>. QED BY <1>3, <1>8, <1>9 DEF n

\* add() at capacity: the last node and its key leave together.
LEMMA EvictAgrees ==
    ASSUME NEW S, NEW l \in Seq(S), l # <<>>, NEW m, Agree(l, m)
    PROVE  /\ Evict(l, m)[1] \in Seq(S) /\ Len(Evict(l, m)[1]) = Len(l) - 1
           /\ DOMAIN Evict(l, m)[2] \subseteq DOMAIN m
           /\ Agree(Evict(l, m)[1], Evict(l, m)[2])
<1>. DEFINE n == Len(l)
            r == Front(l)
            q == Restrict(m, DOMAIN m \ {Last(l).key})
<1>1. n \in Nat \ {0} /\ DOMAIN l = 1 .. n
    BY EmptySeq, LenProperties
<1>2. /\ r \in Seq(S) /\ Len(r) = n - 1
      /\ \A j \in 1 .. n - 1 : r[j] = l[j]
    BY FrontEntries
<1>3. DOMAIN r = 1 .. n - 1
    BY <1>2, LenProperties
<1>4. /\ DOMAIN q = DOMAIN m \ {l[n].key}
      /\ \A x \in DOMAIN q : q[x] = m[x]
    BY DEF Restrict, Last
<1>. HIDE DEF n, r, q
<1>5. Agree(r, q)
    <2>1. \A j, h \in DOMAIN r : r[j].key = r[h].key => j = h
        BY <1>1, <1>2, <1>3 DEF Agree
    <2>2. DOMAIN q = { r[j].key : j \in DOMAIN r }
        BY <1>1, <1>2, <1>3, <1>4 DEF Agree
    <2>3. ASSUME NEW j \in DOMAIN r PROVE q[r[j].key] = r[j].impl
        <3>1. j \in DOMAIN l /\ r[j] = l[j]
            BY <1>1, <1>2, <1>3
        <3>2. r[j].key \in DOMAIN q
            BY <2>2
        <3>. QED BY <1>4, <3>1, <3>2 DEF Agree
    <2>. QED BY <2>1, <2>2, <2>3 DEF Agree
<1>6. Evict(l, m)[1] = r /\ Evict(l, m)[2] = q
    BY DEF Evict, r, q
<1>. QED BY <1>2, <1>4, <1>5, <1>6 DEF n

\* add() of a key that is not in the cache.
LEMMA AddAgrees ==
    ASSUME NEW S, NEW l \in Seq(S), NEW m, Agree(l, m), NEW k, k \notin DOMAIN m,
           NEW i, NEW e, e.key = k, e.impl = i
    PROVE  /\ <<e>> \o l \in Seq(S \cup {e}) /\ Len(<<e>> \o l) = Len(l) + 1
           /\ DOMAIN Insert(m, k, i) = DOMAIN m \cup {k}
           /\ Agree(<<e>> \o l, Insert(m, k, i))
<1>. DEFINE n == Len(l)
            r == <<e>> \o l
            q == Insert(m, k, i)
<1>1. n \in Nat /\ DOMAIN l = 1 .. n
    BY LenProperties
<1>2. e.key = k /\ e.impl = i
    OBVIOUS
<1>3. /\ r \in Seq(S \cup {e}) /\ Len(r) = n + 1
      /\ \A j \in 1 .. n + 1 : r[j] = IF j = 1 THEN e ELSE l[j - 1]
    BY Consed
<1>4. DOMAIN r = 1 .. n + 1
    BY <1>3, LenProperties
<1>5. /\ DOMAIN q = DOMAIN m \cup {k}
      /\ q[k] = i /\ \A x \in DOMAIN m : q[x] = m[x]
    BY DEF Insert
<1>. HIDE DEF n, r, q
<1>6. r[1] = e /\ \A j \in 1 .. n : j + 1 \in DOMAIN r /\ r[j + 1] = l[j]
    BY <1>1, <1>3, <1>4
<1>7. \A j \in DOMAIN r : j # 1 => j - 1 \in 1 .. n /\ r[j] = l[j - 1]
    BY <1>1, <1>3, <1>4
<1>8. \A j \in 1 .. n : l[j].key \in DOMAIN m /\ l[j].key # k
    BY <1>1 DEF Agree
<1>9. Agree(r, q)
    <2>1. \A j, h \in DOMAIN r : r[j].key = r[h].key => j = h
        <3>. SUFFICES ASSUME NEW j \in DOMAIN r, NEW h \in DOMAIN r,
                             r[j].key = r[h].key
                      PROVE  j = h
            OBVIOUS
        <3>1. CASE j = 1 \/ h = 1
            BY <1>2, <1>6, <1>7, <1>8, <3>1
        <3>2. CASE j # 1 /\ h # 1
            <4>1. j - 1 = h - 1
                BY <1>1, <1>7, <3>2 DEF Agree
            <4>. QED BY <1>4, <4>1
        <3>. QED BY <3>1, <3>2
    <2>2. DOMAIN q = { r[j].key : j \in DOMAIN r }
        <3>1. ASSUME NEW x \in DOMAIN q PROVE \E j \in DOMAIN r : x = r[j].key
            <4>1. CASE x = k
                BY <1>1, <1>2, <1>4, <1>6, <4>1
            <4>2. CASE x \in DOMAIN m
                <5>1. PICK j \in 1 .. n : x = l[j].key
                    BY <1>1, <4>2 DEF Agree
                <5>. QED BY <1>6, <5>1
            <4>. QED BY <1>5, <4>1, <4>2
        <3>2. ASSUME NEW j \in DOMAIN r PROVE r[j].key \in DOMAIN q
            BY <1>2, <1>5, <1>6, <1>7, <1>8
        <3>. QED BY <3>1, <3>2
    <2>3. ASSUME NEW j \in DOMAIN r PROVE q[r[j].key] = r[j].impl
        <3>1. CASE j = 1
            BY <1>2, <1>5, <1>6, <3>1
        <3>2. CASE j # 1
            <4>1. j - 1 \in DOMAIN l /\ r[j] = l[j - 1] /\ r[j].key \in DOMAIN m
                BY <1>1, <1>7, <1>8, <3>2
            <4>. QED BY <1>5, <4>1 DEF Agree
        <3>. QED BY <3>1, <3>2
    <2>. QED BY <2>1, <2>2, <2>3 DEF Agree
<1>. QED BY <1>3, <1>5, <1>9 DEF n, r, q

------------------------------------------------------------------------------
(* The invariant.                                                          *)

Fields == {"key", "at", "hit", "impl", "made", "prim"}
Places == {"lock", "lookup", "construct", "wrap", "init", "return"}

IsFrame(f) == /\ DOMAIN f = Fields
              /\ f.key \in Keys /\ f.at \in Places /\ IsSeq(f.made)
              /\ f.hit \in BOOLEAN /\ (f.hit => f.at \in {"wrap", "return"})

\* Calls that have missed and not added their implementation yet.
Adding(f) == f.at \in {"construct", "init"} \/ (f.at = "wrap" /\ ~f.hit)

Holds(f) == f.at = "lookup" \/ Adding(f)

\* What thread t is doing: nothing, a call, or a call inside that of an owner.
Idles(t) == stack[t] = <<>> /\ owner # t

Calls(t, f) == /\ stack[t] = <<f>> /\ IsFrame(f)
               /\ owner = t <=> Holds(f)
               /\ Holds(f) => depth = 1
               /\ Adding(f) => f.key \notin DOMAIN mapper

Nests(t, f, g) == /\ stack[t] = <<f, g>> /\ IsFrame(f) /\ IsFrame(g)
                  /\ owner = t /\ depth = IF Holds(f) THEN 2 ELSE 1
                  /\ g.at = "construct" /\ f.key \in ToSet(Nested[g.key])
                  /\ Adding(f) => f.key \notin DOMAIN mapper
                  /\ g.key \notin DOMAIN mapper

CallsOK(t) == \/ Idles(t)
              \/ \E f \in ToSet(stack[t]) : Calls(t, f)
              \/ \E f, g \in ToSet(stack[t]) : Nests(t, f, g)

\* The mutex is held or not.
LockOK == /\ program \in Programs
          /\ owner \in Threads \cup {None}
          /\ depth = 0 <=> owner = None
          /\ DOMAIN stack = Threads
          /\ IsSeq(list)

\* The inductive invariant.
IInv == LockOK /\ CacheConsistent /\ \A t \in Threads : CallsOK(t)

\* A call starts before the mutex.
LEMMA NewFrame ==
    ASSUME NEW k \in Keys
    PROVE  IsFrame(Frame(k)) /\ Frame(k).key = k /\ Frame(k).at = "lock"
<1>1. IsSeq(<<>>)
    BY EmptySeq, IsSeqOf
<1>. QED BY <1>1 DEF IsFrame, Frame, Fields, Places

\* A constructor has got one more of the primitives it needs.
LEMMA MadeFrame ==
    ASSUME NEW f, IsFrame(f), NEW p
    PROVE  LET h == [f EXCEPT !.made = Append(@, p)]
           IN  IsFrame(h) /\ h.key = f.key /\ h.at = f.at /\ h.hit = f.hit
<1>. DEFINE S == ToSet(f.made) \cup {p}
<1>1. f.made \in Seq(S)
    BY SeqMonotonic DEF IsFrame, IsSeq
<1>2. IsSeq(Append(f.made, p))
    BY <1>1, AppendProperties, IsSeqOf
<1>. QED BY <1>2 DEF IsFrame, Fields

\* Nested primitives have other keys, do not fail and own none: calls nest
\* two deep at most.
LEMMA InnerKey ==
    ASSUME NEW k \in Keys, NEW n \in ToSet(Nested[k])
    PROVE  n \in Keys /\ n # k /\ n \notin Failing /\ Len(Nested[n]) = 0
<1>1. PICK i \in DOMAIN Nested[k] : n = Nested[k][i]
    BY DEF ToSet
<1>2. Nested[k] \in Seq(Keys)
    BY NestedAssumption
<1>3. n \in Keys /\ n \notin Failing /\ Nested[n] = <<>>
    BY <1>1, <1>2, ElementOfSeq, LenProperties, NestedAssumption
<1>4. DOMAIN <<>> = {} /\ Len(<<>>) = 0
    OBVIOUS
<1>. QED BY <1>1, <1>3, <1>4

------------------------------------------------------------------------------
(* The steps.                                                              *)

\* What a step of thread t leaves alone.
OthersWait(t) ==
    /\ DOMAIN stack' = DOMAIN stack
    /\ \A u \in Threads \ {t} :
          /\ stack'[u] = stack[u]
          /\ owner' = u <=> owner = u
          /\ owner = u => depth' = depth /\ mapper' = mapper

\* A thread that leaves the lock of the others, and the cache if one of them
\* has the lock, alone does not disturb their calls.
LEMMA OthersOK ==
    ASSUME NEW t, OthersWait(t), NEW u \in Threads \ {t}, CallsOK(u)
    PROVE  CallsOK(u)'
<1>. USE DEF OthersWait
<1>1. CASE Idles(u)
    BY <1>1 DEF CallsOK, Idles
<1>2. CASE \E f \in ToSet(stack[u]) : Calls(u, f)
    <2>1. PICK f \in ToSet(stack[u]) : Calls(u, f)
        BY <1>2
    <2>2. Calls(u, f)'
        BY <2>1 DEF Calls, Holds
    <2>. QED BY <2>1, <2>2 DEF CallsOK
<1>3. CASE \E f, g \in ToSet(stack[u]) : Nests(u, f, g)
    <2>1. PICK f \in ToSet(stack[u]), g \in ToSet(stack[u]) : Nests(u, f, g)
        BY <1>3
    <2>2. Nests(u, f, g)'
        BY <2>1 DEF Nests
    <2>. QED BY <2>1, <2>2 DEF CallsOK
<1>. QED BY <1>1, <1>2, <1>3 DEF CallsOK

\* The witnesses of CallsOK are the frames of the stack: one call.
LEMMA OneOK ==
    ASSUME NEW t, NEW f, Calls(t, f)'
    PROVE  CallsOK(t)'
<1>1. f \in ToSet(<<f>>)
    BY SMT DEF ToSet
<1>. QED BY <1>1 DEF CallsOK, Calls

\* The same for two calls.
LEMMA TwoOK ==
    ASSUME NEW t, NEW f, NEW g, Nests(t, f, g)'
    PROVE  CallsOK(t)'
<1>1. f \in ToSet(<<f, g>>) /\ g \in ToSet(<<f, g>>)
    BY SMT DEF ToSet
<1>. QED BY <1>1 DEF CallsOK, Nests

\* Goto changes the only call of a thread.
LEMMA OneGoes ==
    ASSUME NEW t \in DOMAIN stack, NEW f, stack[t] = <<f>>, NEW h, Goto(t, h)
    PROVE  /\ stack'[t] = <<h>> /\ DOMAIN stack' = DOMAIN stack
           /\ \A u \in DOMAIN stack \ {t} : stack'[u] = stack[u]
BY OneCall DEF Goto

\* Goto changes the inner call of a thread.
LEMMA TwoGo ==
    ASSUME NEW t \in DOMAIN stack, NEW f, NEW g, stack[t] = <<f, g>>,
           NEW h, Goto(t, h)
    PROVE  /\ stack'[t] = <<h, g>> /\ DOMAIN stack' = DOMAIN stack
           /\ \A u \in DOMAIN stack \ {t} : stack'[u] = stack[u]
BY TwoCalls DEF Goto

\* It remains to look at the thread that takes the step.
LEMMA StepOK ==
    ASSUME IInv, NEW t \in Threads, OthersWait(t),
           LockOK', CacheConsistent', CallsOK(t)'
    PROVE  IInv'
BY OthersOK DEF IInv

\* Steps that leave the list and the mapper alone.
LEMMA CacheStays ==
    ASSUME CacheConsistent, program' = program, UNCHANGED cache
    PROVE  CacheConsistent'
BY DEF CacheConsistent, Capacity, cache

\* None stands for no owner.
LEMMA NoneIsNoThread == None \notin Threads
BY ThreadsAssumption DEF None

\* A thread that is outside get_primitive calls it.
LEMMA CallStep ==
    ASSUME IInv, NEW t \in Threads, NEW k \in Keys, program' = program, Call(t, k)
    PROVE  IInv'
<1>. USE DEF IInv
<1>1. OthersWait(t) /\ LockOK' /\ CacheConsistent'
    BY CacheStays DEF Call, OthersWait, LockOK, lock, cache
<1>2. Idles(t)
    BY OneCall, TwoCalls DEF Call, CallsOK, Calls, Nests
<1>3. Calls(t, Frame(k))'
    <2>1. IsFrame(Frame(k)) /\ ~Holds(Frame(k))
        BY NewFrame DEF Holds, Adding
    <2>2. stack'[t] = <<Frame(k)>>
        BY DEF Call, LockOK
    <2>. QED BY <1>2, <2>1, <2>2 DEF Calls, Idles, Call, lock, Holds
<1>. QED BY <1>1, <1>3, OneOK, StepOK

\* Execution, destruction and waiting leave lock, cache and calls alone.
LEMMA OutsideStep ==
    ASSUME IInv, program' = program, UNCHANGED <<lock, cache, stack>>
    PROVE  IInv'
<1>1. LockOK' /\ CacheConsistent'
    BY CacheStays DEF IInv, LockOK, lock, cache
<1>2. ASSUME NEW u \in Threads PROVE CallsOK(u)'
    BY DEF IInv, CallsOK, Idles, Calls, Nests, lock, cache
<1>. QED BY <1>1, <1>2 DEF IInv

\* A thread inside get_primitive is in one call or in two.
LEMMA Inside ==
    ASSUME IInv, NEW t \in Threads, NEW a, At(t, a)
    PROVE  \/ \E f : Calls(t, f) /\ Top(t) = f /\ Tail(stack[t]) = <<>> /\ f.at = a
           \/ \E f, g : Nests(t, f, g) /\ Top(t) = f /\ Tail(stack[t]) = <<g>> /\ f.at = a
<1>1. CASE \E f \in ToSet(stack[t]) : Calls(t, f)
    BY <1>1, OneCall DEF Calls, Top, At
<1>2. CASE \E f, g \in ToSet(stack[t]) : Nests(t, f, g)
    BY <1>2, TwoCalls DEF Nests, Top, At
<1>. QED BY <1>1, <1>2 DEF IInv, CallsOK, Idles, At

\* The current call of a thread moves on: within the lock or without it, with
\* lock() or with unlock().  Only the owner touches the mapper, and it adds no
\* key but that of the call.
LEMMA GoStep ==
    ASSUME IInv, NEW t \in Threads, program' = program, NEW a, At(t, a),
           NEW h, Goto(t, h), IsFrame(h), h.key = Top(t).key,
           CacheConsistent', IsSeq(list)', mapper' = mapper \/ owner = t,
           DOMAIN mapper' \subseteq DOMAIN mapper \cup {h.key},
           Adding(h) => h.key \notin DOMAIN mapper',
           \/ (Holds(Top(t)) <=> Holds(h)) /\ UNCHANGED lock
           \/ /\ ~Holds(Top(t)) /\ Holds(h) /\ CanLock(t)
              /\ owner' = t /\ depth' = depth + 1
           \/ Holds(Top(t)) /\ ~Holds(h) /\ Unlock(t)
    PROVE  IInv'
<1>. USE DEF IInv
<1>1. CASE \E f : Calls(t, f) /\ Top(t) = f /\ f.at = a
    <2>1. PICK f : Calls(t, f) /\ Top(t) = f /\ f.at = a
        BY <1>1
    <2>2. /\ stack'[t] = <<h>> /\ DOMAIN stack' = DOMAIN stack
          /\ \A u \in DOMAIN stack \ {t} : stack'[u] = stack[u]
        BY <2>1, OneGoes DEF LockOK, Calls
    <2>3. /\ owner = t <=> Holds(f)
          /\ Holds(f) => depth = 1
          /\ owner = None => depth = 0
        BY <2>1 DEF Calls, LockOK
    <2>4. /\ owner' = t <=> Holds(h)
          /\ Holds(h) => depth' = 1
          /\ owner' \in Threads \cup {None}
          /\ depth' = 0 <=> owner' = None
          /\ \A u \in Threads \ {t} :
                (owner' = u <=> owner = u) /\ (owner = u => depth' = depth)
        BY <2>1, <2>3, NoneIsNoThread DEF LockOK, CanLock, Unlock, lock
    <2>5. OthersWait(t) /\ LockOK'
        BY <2>2, <2>4 DEF OthersWait, LockOK
    <2>6. Calls(t, h)'
        BY <2>2, <2>4 DEF Calls
    <2>. QED BY <2>5, <2>6, OneOK, StepOK
<1>2. CASE \E f, g : Nests(t, f, g) /\ Top(t) = f /\ f.at = a
    <2>1. PICK f, g : Nests(t, f, g) /\ Top(t) = f /\ f.at = a
        BY <1>2
    <2>2. /\ stack'[t] = <<h, g>> /\ DOMAIN stack' = DOMAIN stack
          /\ \A u \in DOMAIN stack \ {t} : stack'[u] = stack[u]
        BY <2>1, TwoGo DEF LockOK, Nests
    <2>3. owner = t /\ depth = IF Holds(f) THEN 2 ELSE 1
        BY <2>1 DEF Nests
    <2>4. owner' = t /\ depth' = IF Holds(h) THEN 2 ELSE 1
        BY <2>1, <2>3 DEF Unlock, lock
    <2>5. OthersWait(t) /\ LockOK'
        BY <2>2, <2>3, <2>4, NoneIsNoThread DEF OthersWait, LockOK
    <2>6. g.key # h.key
        BY <2>1, InnerKey DEF Nests, IsFrame
    <2>7. Nests(t, h, g)'
        BY <2>1, <2>2, <2>4, <2>6 DEF Nests
    <2>. QED BY <2>5, <2>7, TwoOK, StepOK
<1>. QED BY <1>1, <1>2, Inside

\* What the current call of a thread tells of the mutex and the cache.
LEMMA TopFrame ==
    ASSUME IInv, NEW t \in Threads, NEW a, At(t, a)
    PROVE  /\ IsFrame(Top(t)) /\ Top(t).at = a
           /\ Holds(Top(t)) => owner = t
           /\ Adding(Top(t)) => Top(t).key \notin DOMAIN mapper
BY Inside DEF Calls, Nests

\* recursive_mutex_.lock().
LEMMA LockStep ==
    ASSUME IInv, NEW t \in Threads, program' = program, Lock(t)
    PROVE  IInv'
<1>1. PICK h : h = [Top(t) EXCEPT !.at = "lookup"]
    OBVIOUS
<1>2. At(t, "lock") /\ Goto(t, h) /\ CanLock(t) /\ owner' = t /\ depth' = depth + 1
      /\ UNCHANGED cache
    BY <1>1 DEF Lock
<1>3. IsFrame(Top(t)) /\ Top(t).at = "lock" /\ ~Top(t).hit
    BY <1>2, TopFrame DEF IsFrame
<1>4. IsFrame(h) /\ h.key = Top(t).key /\ h.at = "lookup"
    BY <1>1, <1>3 DEF IsFrame, Fields, Places
<1>5. ~Holds(Top(t)) /\ Holds(h) /\ ~Adding(h)
    BY <1>3, <1>4 DEF Holds, Adding
<1>6. CacheConsistent' /\ IsSeq(list)' /\ mapper' = mapper
    BY <1>2, CacheStays DEF IInv, LockOK, cache
<1>. QED BY <1>2, <1>4, <1>5, <1>6, GoStep

\* get(): a hit unlocks; a miss, also of a cache without capacity, shows that
\* the key is not there.
LEMMA LookupStep ==
    ASSUME IInv, NEW t \in Threads, program' = program, Lookup(t)
    PROVE  IInv'
<1>. DEFINE k == Top(t).key
<1>1. At(t, "lookup")
    BY DEF Lookup
<1>2. /\ IsFrame(Top(t)) /\ Top(t).at = "lookup" /\ ~Top(t).hit
      /\ Holds(Top(t)) /\ owner = t
    BY <1>1, TopFrame DEF IsFrame, Holds
<1>3. CASE Capacity > 0 /\ k \in DOMAIN mapper
    <2>1. PICK h : h = [Top(t) EXCEPT !.at = "wrap", !.hit = TRUE, !.impl = mapper[k]]
        OBVIOUS
    <2>2. /\ Goto(t, h) /\ Unlock(t)
          /\ list' = ToFront(list, k) /\ mapper' = mapper
        BY <1>3, <2>1 DEF Lookup
    <2>3. IsFrame(h) /\ h.key = k /\ ~Holds(h) /\ ~Adding(h)
        BY <1>2, <2>1 DEF IsFrame, Fields, Places, Holds, Adding
    <2>4. Agree(list, mapper) /\ list \in Seq(ToSet(list)) /\ Len(list) <= Capacity
        BY DEF IInv, CacheConsistent, Agree, LockOK, IsSeq
    <2>5. /\ list' \in Seq(ToSet(list)) /\ Len(list') = Len(list)
          /\ Agree(list', mapper')
        BY <1>3, <2>2, <2>4, ToFrontAgrees
    <2>6. CacheConsistent' /\ IsSeq(list')
        BY <2>4, <2>5, IsSeqOf DEF CacheConsistent, Agree, Capacity
    <2>7. IsSeq(list)'
        BY <2>6 DEF IsSeq, ToSet
    <2>. QED BY <1>1, <1>2, <2>2, <2>3, <2>6, <2>7, GoStep
<1>4. CASE ~(Capacity > 0 /\ k \in DOMAIN mapper)
    <2>1. PICK h : h = [Top(t) EXCEPT !.at = "construct"]
        OBVIOUS
    <2>2. Goto(t, h) /\ UNCHANGED lock /\ UNCHANGED cache
        BY <1>4, <2>1 DEF Lookup, cache
    <2>3. IsFrame(h) /\ h.key = k /\ Holds(h)
        BY <1>2, <2>1 DEF IsFrame, Fields, Places, Holds, Adding
    <2>4. k \notin DOMAIN mapper
        <3>1. CASE Capacity > 0
            BY <1>4, <3>1
        <3>2. CASE ~(Capacity > 0)
            <4>1. Capacity \in Nat
                BY ProgramAssumption DEF IInv, LockOK, Capacity
            <4>2. Len(list) \in Nat /\ DOMAIN list = 1 .. Len(list)
                BY LenProperties DEF IInv, LockOK, IsSeq
            <4>3. Len(list) <= Capacity
                BY DEF IInv, CacheConsistent
            <4>4. DOMAIN list = {}
                BY <3>2, <4>1, <4>2, <4>3
            <4>. QED BY <4>4 DEF IInv, CacheConsistent
        <3>. QED BY <3>1, <3>2
    <2>5. CacheConsistent' /\ IsSeq(list)' /\ mapper' = mapper
        BY <2>2, CacheStays DEF IInv, LockOK, cache
    <2>. QED BY <1>1, <1>2, <2>2, <2>3, <2>4, <2>5, GoStep
<1>. QED BY <1>3, <1>4

\* A hit has no lock while it makes its wrapper, a miss keeps the one it has.
LEMMA WrapStep ==
    ASSUME IInv, NEW t \in Threads, program' = program, Wrap(t)
    PROVE  IInv'
<1>1. PICK h : /\ Goto(t, h)
               /\ \E p : h = [Top(t) EXCEPT !.at = IF Top(t).hit THEN "return" ELSE "init",
                                           !.impl = None, !.prim = p]
    BY DEF Wrap
<1>2. At(t, "wrap") /\ UNCHANGED lock /\ UNCHANGED cache
    BY DEF Wrap
<1>3. /\ IsFrame(Top(t)) /\ Top(t).at = "wrap" /\ Top(t).hit \in BOOLEAN
      /\ Adding(Top(t)) => Top(t).key \notin DOMAIN mapper
    BY <1>2, TopFrame DEF IsFrame
<1>. DEFINE a == IF Top(t).hit THEN "return" ELSE "init"
<1>4. PICK p : h = [Top(t) EXCEPT !.at = a, !.impl = None, !.prim = p]
    BY <1>1
<1>5. a \in Places /\ (Top(t).hit => a \in {"wrap", "return"})
    BY DEF Places
<1>6. IsFrame(h) /\ h.key = Top(t).key /\ h.at = a
    BY <1>3, <1>4, <1>5 DEF IsFrame, Fields
<1>7. (Holds(Top(t)) <=> Holds(h)) /\ (Adding(h) => Adding(Top(t)))
    BY <1>3, <1>6 DEF Holds, Adding
<1>8. CacheConsistent' /\ IsSeq(list)' /\ mapper' = mapper
    BY <1>2, CacheStays DEF IInv, LockOK, cache
<1>. QED BY <1>1, <1>2, <1>3, <1>6, <1>7, <1>8, GoStep

\* add(), of a key that nobody can have added since the miss.
LEMMA InitAndAddStep ==
    ASSUME IInv, NEW t \in Threads, program' = program, InitAndAdd(t)
    PROVE  IInv'
<1>. DEFINE k == Top(t).key
            i == prims[Top(t).prim].impl
            room == IF Len(list) >= Capacity THEN Evict(list, mapper) ELSE <<list, mapper>>
<1>1. PICK h : h = [Top(t) EXCEPT !.at = "return"]
    OBVIOUS
<1>2. At(t, "init") /\ Goto(t, h) /\ Unlock(t)
    BY <1>1 DEF InitAndAdd
<1>3. /\ IsFrame(Top(t)) /\ Top(t).at = "init" /\ Holds(Top(t)) /\ owner = t
      /\ k \notin DOMAIN mapper
    BY <1>2, TopFrame DEF Holds, Adding
<1>4. IsFrame(h) /\ h.key = k /\ ~Holds(h) /\ ~Adding(h)
    BY <1>1, <1>3 DEF IsFrame, Fields, Places, Holds, Adding
<1>5. /\ CacheConsistent' /\ IsSeq(list)'
      /\ DOMAIN mapper' \subseteq DOMAIN mapper \cup {k}
    <2>1. CASE Capacity = 0
        BY <2>1, CacheStays DEF InitAndAdd, IInv, LockOK, cache
    <2>2. CASE Capacity # 0
        <3>. DEFINE e == [key |-> k, impl |-> i]
        <3>1. list' = <<e>> \o room[1] /\ mapper' = Insert(room[2], k, i)
            BY <2>2 DEF InitAndAdd
        <3>2. Agree(list, mapper) /\ list \in Seq(ToSet(list)) /\ Len(list) <= Capacity
            BY DEF IInv, CacheConsistent, Agree, LockOK, IsSeq
        <3>3. Capacity \in Nat \ {0} /\ Len(list) \in Nat
            BY <2>2, <3>2, LenProperties, ProgramAssumption DEF IInv, LockOK, Capacity
        <3>4. /\ room[1] \in Seq(ToSet(list)) /\ Len(room[1]) <= Capacity - 1
              /\ DOMAIN room[2] \subseteq DOMAIN mapper
              /\ Agree(room[1], room[2])
            <4>1. CASE Len(list) >= Capacity
                <5>1. Len(list) = Capacity /\ list # <<>>
                    BY <3>2, <3>3, <4>1, EmptySeq
                <5>. QED BY <3>2, <3>3, <4>1, <5>1, EvictAgrees
            <4>2. CASE ~(Len(list) >= Capacity)
                BY <3>2, <3>3, <4>2
            <4>. QED BY <4>1, <4>2
        <3>. HIDE DEF room, e
        <3>5. /\ list' \in Seq(ToSet(list) \cup {e})
              /\ Len(list') = Len(room[1]) + 1
              /\ DOMAIN mapper' = DOMAIN room[2] \cup {k}
              /\ Agree(list', mapper')
            <4>1. k \notin DOMAIN room[2] /\ e.key = k /\ e.impl = i
                BY <1>3, <3>4 DEF e
            <4>2. PICK S, l, m, x, y, d : /\ S = ToSet(list) /\ l = room[1] /\ m = room[2]
                                         /\ x = k /\ y = i /\ d = e
                OBVIOUS
            <4>3. /\ l \in Seq(S) /\ Agree(l, m) /\ x \notin DOMAIN m
                  /\ d.key = x /\ d.impl = y
                BY <3>4, <4>1, <4>2
            <4>4. /\ <<d>> \o l \in Seq(S \cup {d}) /\ Len(<<d>> \o l) = Len(l) + 1
                  /\ DOMAIN Insert(m, x, y) = DOMAIN m \cup {x}
                  /\ Agree(<<d>> \o l, Insert(m, x, y))
                <5>1. DOMAIN Insert(m, x, y) = DOMAIN m \cup {x}
                    BY DEF Insert
                <5>2. <<d>> \o l \in Seq(S \cup {d})
                    BY ONLY <4>3, AddAgrees
                <5>3. Len(<<d>> \o l) = Len(l) + 1
                    BY ONLY <4>3, AddAgrees
                <5>4. Agree(<<d>> \o l, Insert(m, x, y))
                    BY ONLY <4>3, AddAgrees
                <5>. QED BY <5>1, <5>2, <5>3, <5>4
            <4>. QED BY <3>1, <4>2, <4>4, Zenon
        <3>6. Len(list') <= Capacity
            BY <3>3, <3>4, <3>5, LenProperties
        <3>7. CacheConsistent' /\ IsSeq(list')
            BY <3>5, <3>6, IsSeqOf DEF CacheConsistent, Agree, Capacity
        <3>8. IsSeq(list)'
            BY <3>7 DEF IsSeq, ToSet
        <3>. QED BY <3>4, <3>5, <3>7, <3>8
    <2>. QED BY <2>1, <2>2
<1>. QED BY <1>2, <1>3, <1>4, <1>5, GoStep

\* A constructor creates a nested primitive, in a second call, or is done.
LEMMA ConstructStep ==
    ASSUME IInv, NEW t \in Threads, program' = program, Construct(t)
    PROVE  IInv'
<1>. DEFINE f == Top(t)
            n == Len(f.made)
<1>1. At(t, "construct") /\ UNCHANGED lock /\ UNCHANGED cache
    BY DEF Construct
<1>2. /\ IsFrame(f) /\ f.at = "construct" /\ ~f.hit
      /\ Holds(f) /\ Adding(f) /\ owner = t /\ f.key \notin DOMAIN mapper
    BY <1>1, TopFrame DEF IsFrame, Holds, Adding
<1>3. CacheConsistent' /\ IsSeq(list)' /\ mapper' = mapper
    BY <1>1, CacheStays DEF IInv, LockOK, cache
<1>4. CASE n < Len(Nested[f.key])
    <2>1. n \in Nat /\ Nested[f.key] \in Seq(Keys) /\ f.key \in Keys
        BY <1>2, LenProperties, NestedAssumption DEF IsFrame, IsSeq
    <2>2. PICK m : m = Nested[f.key][n + 1]
        OBVIOUS
    <2>3. m \in ToSet(Nested[f.key])
        <3>1. n + 1 \in DOMAIN Nested[f.key]
            BY <1>4, <2>1, LenProperties
        <3>. QED BY <2>2, <3>1 DEF ToSet
    <2>4. m \in Keys
        BY <2>1, <2>3, InnerKey
    <2>5. stack' = [stack EXCEPT ![t] = <<Frame(m)>> \o @]
        BY <1>4, <2>2 DEF Construct
    <2>6. PICK g : Calls(t, g) /\ Top(t) = g
        <3>1. ASSUME NEW x, NEW g, Nests(t, x, g), Top(t) = x
              PROVE  FALSE
            <4>1. Len(Nested[x.key]) = 0
                BY <3>1, InnerKey DEF Nests, IsFrame
            <4>. QED BY <1>4, <2>1, <3>1, <4>1
        <3>. QED BY <1>1, <3>1, Inside
    <2>7. stack'[t] = <<Frame(m), g>>
        BY <2>5, <2>6, TwoCalls DEF Calls, IInv, LockOK
    <2>8. IsFrame(Frame(m)) /\ Frame(m).key = m /\ ~Holds(Frame(m)) /\ ~Adding(Frame(m))
        BY <2>4, NewFrame DEF Holds, Adding
    <2>9. Nests(t, Frame(m), g)'
        BY <1>1, <1>2, <1>3, <2>3, <2>6, <2>7, <2>8 DEF Nests, Calls, lock
    <2>10. OthersWait(t) /\ LockOK'
        BY <1>1, <1>3, <2>5 DEF OthersWait, IInv, LockOK, lock
    <2>. QED BY <1>3, <2>9, <2>10, TwoOK, StepOK
<1>5. CASE ~(n < Len(Nested[f.key]))
    <2>1. PICK i : Goto(t, [f EXCEPT !.at = "wrap", !.impl = i, !.made = <<>>])
        BY <1>5 DEF Construct
    <2>2. PICK h : h = [f EXCEPT !.at = "wrap", !.impl = i, !.made = <<>>]
        OBVIOUS
    <2>3. IsSeq(<<>>)
        BY EmptySeq, IsSeqOf
    <2>4. IsFrame(h) /\ h.key = f.key /\ h.at = "wrap" /\ ~h.hit
        BY <1>2, <2>2, <2>3 DEF IsFrame, Fields, Places
    <2>5. Holds(h)
        BY <2>4 DEF Holds, Adding
    <2>6. Goto(t, h)
        BY <2>1, <2>2
    <2>. QED BY <1>1, <1>2, <1>3, <2>4, <2>5, <2>6, GoStep
<1>. QED BY <1>4, <1>5

\* The error path: only outer calls fail, so the mutex becomes free.
LEMMA InitFailsStep ==
    ASSUME IInv, NEW t \in Threads, program' = program, InitFails(t)
    PROVE  IInv'
<1>1. /\ At(t, "init") /\ Top(t).key \in Failing /\ Unlock(t) /\ UNCHANGED cache
      /\ stack' = [stack EXCEPT ![t] = <<>>]
    BY DEF InitFails
<1>2. Holds(Top(t)) /\ owner = t
    BY <1>1, TopFrame DEF Holds, Adding
<1>3. PICK f : Calls(t, f) /\ Top(t) = f
    <2>1. ASSUME NEW x, NEW g, Nests(t, x, g), Top(t) = x
          PROVE  FALSE
        BY <1>1, <2>1, InnerKey DEF Nests, IsFrame
    <2>. QED BY <1>1, <2>1, Inside
<1>4. owner' = None /\ depth' = 0
    BY <1>1, <1>2, <1>3 DEF Calls, Unlock
<1>5. CacheConsistent' /\ IsSeq(list)' /\ mapper' = mapper
    BY <1>1, CacheStays DEF IInv, LockOK, cache
<1>6. OthersWait(t) /\ LockOK'
    BY <1>1, <1>2, <1>4, <1>5, NoneIsNoThread DEF OthersWait, IInv, LockOK
<1>7. CallsOK(t)'
    BY <1>1, <1>4, NoneIsNoThread DEF CallsOK, Idles, IInv, LockOK
<1>. QED BY <1>5, <1>6, <1>7, StepOK

\* A call returns to the user or into the constructor that made it.
LEMMA ReturnStep ==
    ASSUME IInv, NEW t \in Threads, program' = program, Return(t)
    PROVE  IInv'
<1>1. At(t, "return") /\ UNCHANGED lock /\ UNCHANGED cache
    BY DEF Return
<1>2. CacheConsistent' /\ IsSeq(list)' /\ mapper' = mapper
    BY <1>1, CacheStays DEF IInv, LockOK, cache
<1>3. ~Holds(Top(t))
    BY <1>1, TopFrame DEF Holds, Adding
<1>4. CASE \E f : Calls(t, f) /\ Top(t) = f /\ Tail(stack[t]) = <<>>
    <2>1. stack' = [stack EXCEPT ![t] = <<>>] /\ owner # t
        BY <1>3, <1>4 DEF Return, Calls
    <2>2. OthersWait(t) /\ LockOK'
        BY <1>1, <1>2, <2>1 DEF OthersWait, IInv, LockOK, lock
    <2>3. CallsOK(t)'
        BY <1>1, <2>1 DEF CallsOK, Idles, IInv, LockOK, lock
    <2>. QED BY <1>2, <2>2, <2>3, StepOK
<1>5. CASE \E f, g : Nests(t, f, g) /\ Top(t) = f /\ Tail(stack[t]) = <<g>>
    <2>1. PICK f, g : Nests(t, f, g) /\ Top(t) = f /\ Tail(stack[t]) = <<g>>
        BY <1>5
    <2>2. PICK h : h = [g EXCEPT !.made = Append(@, f.prim)]
        OBVIOUS
    <2>3. stack' = [stack EXCEPT ![t] = <<h>> \o <<>>]
        BY <2>1, <2>2, OneCall DEF Return
    <2>4. stack'[t] = <<h>>
        BY <2>3, OneCall DEF IInv, LockOK
    <2>5. IsFrame(h) /\ h.key = g.key /\ h.at = "construct"
        BY <2>1, <2>2, MadeFrame DEF Nests
    <2>6. owner = t /\ depth = 1 /\ g.key \notin DOMAIN mapper
        BY <1>3, <2>1 DEF Nests
    <2>7. Calls(t, h)'
        BY <1>1, <1>2, <2>4, <2>5, <2>6 DEF Calls, Holds, Adding, lock
    <2>8. OthersWait(t) /\ LockOK'
        BY <1>1, <1>2, <2>3 DEF OthersWait, IInv, LockOK, lock
    <2>. QED BY <1>2, <2>7, <2>8, OneOK, StepOK
<1>. QED BY <1>1, <1>4, <1>5, Inside

------------------------------------------------------------------------------
\* The cache starts empty and nobody creates anything.
LEMMA InitHolds == Init => IInv
<1>. SUFFICES ASSUME Init PROVE IInv
    OBVIOUS
<1>1. IsSeq(<<>>)
    BY EmptySeq, IsSeqOf
<1>. DOMAIN <<>> = {} /\ Len(<<>>) = 0
    OBVIOUS
<1>2. Capacity \in Nat
    BY ProgramAssumption DEF Init, Capacity
<1>3. CacheConsistent
    BY <1>1, <1>2 DEF Init, CacheConsistent
<1>4. LockOK
    BY <1>1 DEF Init, LockOK
<1>5. \A t \in Threads : Idles(t)
    BY NoneIsNoThread DEF Init, Idles
<1>. QED BY <1>3, <1>4, <1>5 DEF IInv, CallsOK

\* Every step keeps the invariant.
LEMMA NextHolds == IInv /\ [Next]_vars => IInv'
<1>. SUFFICES ASSUME IInv, [Next]_vars PROVE IInv'
    OBVIOUS
<1>1. CASE UNCHANGED vars
    BY <1>1, OutsideStep DEF vars
<1>2. CASE Next
    <2>1. PICK t \in program.threads :
             \/ \E k \in program.keys : Call(t, k)
             \/ Step(t)
             \/ Executed(t)
             \/ \E p \in mine[t] : Execute(t, p) \/ Destroy(t, p)
        BY <1>2 DEF Next
    <2>2. program' = program
        BY <1>2 DEF Next
    <2>3. t \in Threads /\ program.keys \subseteq Keys
        BY ProgramAssumption DEF IInv, LockOK
    <2>4. CASE \E k \in program.keys : Call(t, k)
        BY <2>2, <2>3, <2>4, CallStep
    <2>5. CASE Step(t)
        <3>1. CASE Lock(t)
            BY <2>2, <2>3, <3>1, LockStep
        <3>2. CASE Wait(t)
            BY <3>2, OutsideStep DEF Wait, vars
        <3>3. CASE Lookup(t)
            BY <2>2, <2>3, <3>3, LookupStep
        <3>4. CASE Construct(t)
            BY <2>2, <2>3, <3>4, ConstructStep
        <3>5. CASE Wrap(t)
            BY <2>2, <2>3, <3>5, WrapStep
        <3>6. CASE InitFails(t)
            BY <2>2, <2>3, <3>6, InitFailsStep
        <3>7. CASE InitAndAdd(t)
            BY <2>2, <2>3, <3>7, InitAndAddStep
        <3>8. CASE Return(t)
            BY <2>2, <2>3, <3>8, ReturnStep
        <3>. QED BY <2>5, <3>1, <3>2, <3>3, <3>4, <3>5, <3>6, <3>7, <3>8 DEF Step
    <2>6. CASE Executed(t)
        BY <2>2, <2>6, OutsideStep DEF Executed
    <2>7. CASE \E p \in mine[t] : Execute(t, p) \/ Destroy(t, p)
        BY <2>2, <2>7, OutsideStep DEF Execute, Destroy
    <2>. QED BY <2>1, <2>4, <2>5, <2>6, <2>7
<1>. QED BY <1>1, <1>2

\* The list and the mapper of the cache agree, for any number of threads, any
\* programs and any capacity: no key is in the cache while an implementation
\* for it is being created, also inside the creation of another.
THEOREM CacheAgrees == Spec => []CacheConsistent
<1>1. IInv => CacheConsistent
    BY DEF IInv
<1>. QED BY <1>1, InitHolds, NextHolds, PTL DEF Spec

\* Creations exclude each other: between a miss and the add or the failure that
\* ends it a thread holds the mutex, and at most one thread does.
THEOREM OneCreator ==
    Spec => [](\A t, u \in Threads :
                  (At(t, "construct") \/ At(t, "init"))
                      /\ (At(u, "construct") \/ At(u, "init")) => t = u)
<1>1. IInv => \A t, u \in Threads :
                 (At(t, "construct") \/ At(t, "init"))
                     /\ (At(u, "construct") \/ At(u, "init")) => t = u
    <2>1. ASSUME IInv, NEW t \in Threads, At(t, "construct") \/ At(t, "init")
          PROVE  owner = t
        BY <2>1, TopFrame DEF Holds, Adding
    <2>. QED BY <2>1
<1>. QED BY <1>1, InitHolds, NextHolds, PTL DEF Spec

------------------------------------------------------------------------------
(* Objects: what the users, the calls and the cache refer to exists.       *)

\* The keys that a program uses, also inside of constructors.
Used == program.keys \cup UNION { ToSet(Nested[k]) : k \in program.keys }

\* Wrappers of key k have a reference to the global scratchpad.
Shares(k) == k \in Global /\ ~Concurrent /\ Need[k] # 0

\* Wrappers that a constructor for key k has made.
Made(s, k) ==
    \A p \in s : p \in DOMAIN prims /\ Key(p) \in ToSet(Nested[k])

ImplOK(i) == impls[i].key \in Used /\ Made(ToSet(impls[i].nested), impls[i].key)

PrimOK(p) == /\ prims[p].impl \in DOMAIN impls
             /\ prims[p].holder \in {"none", "own", "global"}
             /\ prims[p].holder = "global" => Shares(Key(p))
             /\ prims[p].by \in program.threads

\* The references of a call of thread t.
FrameOK(t, f) ==
    /\ f.key \in Used
    /\ f.impl # None => f.impl \in DOMAIN impls /\ impls[f.impl].key = f.key
    /\ f.prim # None => /\ f.prim \in DOMAIN prims
                        /\ Key(f.prim) = f.key /\ prims[f.prim].by = t
    /\ f.at = "wrap" => f.impl # None
    /\ f.at \in {"init", "return"} <=> f.prim # None
    /\ Made(ToSet(f.made), f.key)
    /\ \A p \in ToSet(f.made) : prims[p].by = t

\* The references of all calls in stk.
FramesOK(stk) == \A t \in Threads : \A f \in ToSet(stk[t]) : FrameOK(t, f)

\* The references of the list lst.
ListOK(lst) ==
    \A e \in ToSet(lst) : e.impl \in DOMAIN impls /\ impls[e.impl].key = e.key

\* The references of users who have mn and run rn.
UsersOK(mn, rn) ==
    /\ DOMAIN mn = Threads /\ DOMAIN rn = Threads
    /\ \A t \in Threads : /\ rn[t] \in mn[t] \cup {None}
                          /\ \A p \in mn[t] : p \in DOMAIN prims /\ prims[p].by = t

\* All objects, and the thread-local scratchpads.
ObjectsOK ==
    /\ DOMAIN impls \subseteq Ids /\ DOMAIN prims \subseteq Ids
    /\ \A i \in DOMAIN impls : ImplOK(i)
    /\ \A p \in DOMAIN prims : PrimOK(p)

LocalsOK == size \in [Threads -> Nat] /\ count \in [Threads -> Int]

\* The invariant that extends that of the cache.
OInv == /\ IInv /\ ObjectsOK /\ LocalsOK
        /\ FramesOK(stack) /\ ListOK(list) /\ UsersOK(mine, running)

------------------------------------------------------------------------------
(* The global scratchpads, in programs that share no nested references to  *)
(* one among their threads.                                                *)

Alone == \A t, u \in program.threads : t = u

\* No thread can get an implementation whose constructor has made, on another
\* thread, wrappers with a reference to the global scratchpad.
Confined ==
    \A x \in Programs :
        \/ \A t, u \in x.threads : t = u
        \/ \A k \in x.keys : \A n \in ToSet(Nested[k]) :
              n \in Global /\ ~Concurrent => Need[n] = 0

\* The wrappers with a reference to the scratchpad of thread t.
Sharing(t) == { p \in DOMAIN prims : prims[p].holder = "global" /\ prims[p].by = t }

\* They are with thread t or, if it is the only one, anywhere.
HeldOK ==
    Alone \/ \A p \in DOMAIN prims :
                prims[p].holder = "global" =>
                    \/ p \in mine[prims[p].by]
                    \/ \E f \in ToSet(stack[prims[p].by]) : f.prim = p

\* Each is counted once and fits.
CountOK(t) == /\ count[t] = Cardinality(Sharing(t))
              /\ count[t] = 0 => size[t] = 0
              /\ \A p \in Sharing(t) : Need[Key(p)] <= size[t]

SInv == OInv /\ HeldOK /\ \A t \in Threads : CountOK(t)

------------------------------------------------------------------------------
(* The objects through the steps.                                          *)

\* The elements of the stacks there are.
LEMMA StackElements ==
    /\ ToSet(<<>>) = {}
    /\ \A f : ToSet(<<f>>) = {f}
    /\ \A f, g : ToSet(<<f, g>>) = {f, g}
BY SMT DEF ToSet

\* Elements of a sequence over a set.
LEMMA ElementsOf ==
    ASSUME NEW S, NEW s \in Seq(S)
    PROVE  ToSet(s) \subseteq S
BY ElementOfSeq, LenProperties DEF ToSet

\* Appending adds one element.
LEMMA AppendedElements ==
    ASSUME NEW s, IsSeq(s), NEW p
    PROVE  ToSet(Append(s, p)) = ToSet(s) \cup {p}
<1>1. s \in Seq(ToSet(s) \cup {p})
    BY SeqMonotonic DEF IsSeq
<1>2. /\ DOMAIN Append(s, p) = 1 .. Len(s) + 1 /\ Append(s, p)[Len(s) + 1] = p
      /\ \A i \in 1 .. Len(s) : Append(s, p)[i] = s[i]
      /\ Len(s) \in Nat /\ DOMAIN s = 1 .. Len(s)
    BY <1>1, AppendProperties, LenProperties
<1>. QED BY <1>2 DEF ToSet

\* The wrappers inside of a wrapper that is inside another one: none.
LEMMA InnerUsed ==
    ASSUME OInv, NEW k \in Used, NEW n \in ToSet(Nested[k])
    PROVE  k \in program.keys /\ k \in Keys /\ n \in Used /\ ToSet(Nested[n]) = {}
<1>1. program.keys \subseteq Keys
    BY ProgramAssumption DEF OInv, IInv, LockOK
<1>2. ASSUME NEW j \in Keys, NEW m \in ToSet(Nested[j])
      PROVE  m \in Keys /\ Nested[m] = <<>>
    <2>1. PICK i \in DOMAIN Nested[j] : m = Nested[j][i]
        BY DEF ToSet
    <2>. QED BY <1>2, <2>1, InnerKey, NestedAssumption
<1>3. CASE k \in program.keys
    BY <1>1, <1>2, <1>3, StackElements DEF Used
<1>4. CASE k \notin program.keys
    BY <1>1, <1>2, <1>4, StackElements DEF Used
<1>. QED BY <1>3, <1>4

\* The keys of a program are keys.
LEMMA UsedKeys ==
    ASSUME OInv
    PROVE  Used \subseteq Keys
<1>1. program.keys \subseteq Keys
    BY ProgramAssumption DEF OInv, IInv, LockOK
<1>2. ASSUME NEW k \in program.keys PROVE ToSet(Nested[k]) \subseteq Keys
    BY <1>1, InnerKey
<1>. QED BY <1>1, <1>2 DEF Used

\* No identifier is None.
LEMMA NoneIsNoId == None \notin Ids
BY BoundAssumption DEF None, Ids

\* A new object gets an identifier of its own.
LEMMA FreshId ==
    ASSUME NEW D, D \subseteq Ids, Ids # D
    PROVE  SmallestOf(Ids \ D) \in Ids \ D
<1>. DEFINE T == Ids \ D
<1>1. \A i \in Ids : i \in Nat
    BY BoundAssumption DEF Ids
<1>2. \E i \in Ids : i \notin D
    OBVIOUS
<1>3. T \subseteq Nat /\ T # {}
    BY <1>1, <1>2
<1>. HIDE DEF T
<1>4. \A i, j \in Nat : <<j, i>> \notin OpToRel(<, Nat) => i <= j
    BY DEF OpToRel
<1>5. \E i \in T : \A j \in T : <<j, i>> \notin OpToRel(<, Nat)
    BY <1>3, NatLessThanWellFounded, WFMin
<1>6. \E i \in T : \A j \in T : i <= j
    BY <1>3, <1>4, <1>5
<1>7. SmallestOf(T) \in T
    BY <1>6 DEF SmallestOf
<1>. QED BY <1>7 DEF T

\* A step that leaves the wrappers P, and the implementations I they have, as
\* they are.
Spares(P, I) ==
    /\ program' = program
    /\ P \subseteq DOMAIN prims \cap DOMAIN prims'
    /\ I \subseteq DOMAIN impls \cap DOMAIN impls'
    /\ \A p \in P : prims'[p] = prims[p] /\ prims[p].impl \in I
    /\ \A i \in I : impls'[i] = impls[i]

\* The references of a call are among P and I.
Within(f, P, I) == /\ f.impl # None => f.impl \in I
                   /\ f.prim # None => f.prim \in P
                   /\ ToSet(f.made) \subseteq P

\* What is known of spared objects stays true.
LEMMA Spared ==
    ASSUME NEW P, NEW I, Spares(P, I)
    PROVE  /\ Used' = Used
           /\ \A p \in P : Key(p)' = Key(p) /\ (PrimOK(p) => PrimOK(p)')
           /\ \A s, k : s \subseteq P /\ Made(s, k) => Made(s, k)'
           /\ \A i \in I : ToSet(impls[i].nested) \subseteq P /\ ImplOK(i) => ImplOK(i)'
           /\ \A t, f : Within(f, P, I) /\ FrameOK(t, f) => FrameOK(t, f)'
<1>1. Used' = Used
    BY DEF Spares, Used
<1>2. ASSUME NEW p \in P PROVE Key(p)' = Key(p)
    BY DEF Spares, Key
<1>3. ASSUME NEW p \in P, PrimOK(p) PROVE PrimOK(p)'
    <2>1. prims'[p] = prims[p] /\ prims[p].impl \in DOMAIN impls' /\ program' = program
        BY DEF Spares
    <2>. QED BY <1>2, <1>3, <2>1 DEF PrimOK, Shares
<1>4. ASSUME NEW s, NEW k, s \subseteq P, Made(s, k) PROVE Made(s, k)'
    BY <1>2, <1>4 DEF Spares, Made
<1>5. ASSUME NEW i \in I, ToSet(impls[i].nested) \subseteq P, ImplOK(i)
      PROVE  ImplOK(i)'
    <2>1. impls'[i] = impls[i]
        BY DEF Spares
    <2>. QED BY <1>1, <1>4, <1>5, <2>1 DEF ImplOK
<1>6. ASSUME NEW t, NEW f, Within(f, P, I), FrameOK(t, f)
      PROVE  FrameOK(t, f)'
    <2>1. Made(ToSet(f.made), f.key)'
        BY <1>4, <1>6 DEF Within, FrameOK
    <2>2. f.impl # None => f.impl \in DOMAIN impls' /\ impls'[f.impl].key = f.key
        BY <1>6 DEF Spares, Within, FrameOK
    <2>3. f.prim # None => /\ f.prim \in DOMAIN prims'
                           /\ Key(f.prim)' = f.key /\ prims'[f.prim].by = t
        BY <1>2, <1>6 DEF Spares, Within, FrameOK
    <2>4. \A p \in ToSet(f.made) : prims'[p].by = t
        BY <1>6 DEF Spares, Within, FrameOK
    <2>. QED BY <1>1, <1>6, <2>1, <2>2, <2>3, <2>4 DEF FrameOK
<1>. QED BY <1>1, <1>2, <1>3, <1>4, <1>5, <1>6

\* Steps that destroy nothing: what refers to old objects is as good as before.
LEMMA Grown ==
    ASSUME ObjectsOK, Spares(DOMAIN prims, DOMAIN impls)
    PROVE  /\ \A i \in DOMAIN impls : ImplOK(i)'
           /\ \A p \in DOMAIN prims : PrimOK(p)'
           /\ \A t, f : FrameOK(t, f) => FrameOK(t, f)'
           /\ ListOK(list') => ListOK(list)'
           /\ UsersOK(mine', running') => UsersOK(mine, running)'
<1>1. \A i \in DOMAIN impls : ToSet(impls[i].nested) \subseteq DOMAIN prims
    BY DEF ObjectsOK, ImplOK, Made
<1>2. ASSUME NEW t, NEW f, FrameOK(t, f)
      PROVE  Within(f, DOMAIN prims, DOMAIN impls)
    BY <1>2 DEF FrameOK, Within, Made
<1>3. ListOK(list') => ListOK(list)'
    BY DEF Spares, ListOK
<1>4. UsersOK(mine', running') => UsersOK(mine, running)'
    BY DEF Spares, UsersOK
<1>. QED BY <1>1, <1>2, <1>3, <1>4, Spared DEF ObjectsOK

\* Steps that create and destroy nothing.
LEMMA ObjectsStay ==
    ASSUME OInv, IInv', program' = program, UNCHANGED objects, LocalsOK',
           FramesOK(stack'), ListOK(list'), UsersOK(mine', running')
    PROVE  OInv'
<1>1. Spares(DOMAIN prims, DOMAIN impls)
    BY DEF OInv, ObjectsOK, PrimOK, Spares, objects
<1>2. ObjectsOK'
    BY <1>1, Grown DEF OInv, ObjectsOK, objects
<1>3. FramesOK(stack)'
    BY <1>1, Grown DEF OInv, FramesOK
<1>. QED BY <1>1, <1>2, <1>3, Grown DEF OInv

\* A call refers to nothing before the mutex.
LEMMA NewFrameOK ==
    ASSUME NEW t, NEW k \in Used
    PROVE  FrameOK(t, Frame(k))
BY StackElements DEF FrameOK, Frame, Made

\* The call under way is one of those of its thread.
LEMMA TopIn ==
    ASSUME IInv, NEW t \in Threads, NEW a, At(t, a)
    PROVE  Top(t) \in ToSet(stack[t])
<1>1. CASE \E f : Calls(t, f) /\ Top(t) = f
    <2>1. PICK f : stack[t] = <<f>> /\ Top(t) = f
        BY <1>1 DEF Calls
    <2>. QED BY <2>1, StackElements
<1>2. CASE \E f, g : Nests(t, f, g) /\ Top(t) = f
    <2>1. PICK f, g : stack[t] = <<f, g>> /\ Top(t) = f
        BY <1>2 DEF Nests
    <2>2. ToSet(<<f, g>>) = {f, g}
        BY StackElements
    <2>. QED BY <2>1, <2>2
<1>. QED BY <1>1, <1>2, Inside

\* Its references.
LEMMA TopOK ==
    ASSUME OInv, NEW t \in Threads, NEW a, At(t, a)
    PROVE  FrameOK(t, Top(t))
BY TopIn DEF OInv, FramesOK

\* A call goes on; those it is inside of stay.
LEMMA FramesMove ==
    ASSUME IInv, NEW t \in Threads, NEW a, At(t, a), NEW h, Goto(t, h)
    PROVE  /\ \E R : /\ ToSet(stack[t]) = {Top(t)} \cup R
                     /\ ToSet(stack'[t]) = {h} \cup R
           /\ \A u \in Threads \ {t} : stack'[u] = stack[u]
<1>0. DOMAIN stack = Threads
    BY DEF IInv, LockOK
<1>1. CASE \E f : Calls(t, f) /\ Top(t) = f
    <2>1. PICK f : stack[t] = <<f>> /\ Top(t) = f
        BY <1>1 DEF Calls
    <2>2. stack'[t] = <<h>> /\ \A u \in Threads \ {t} : stack'[u] = stack[u]
        BY <1>0, <2>1, OneGoes
    <2>3. ToSet(<<f>>) = {f} \cup {} /\ ToSet(<<h>>) = {h} \cup {}
        BY StackElements
    <2>. QED BY <2>1, <2>2, <2>3
<1>2. CASE \E f, g : Nests(t, f, g) /\ Top(t) = f
    <2>1. PICK f, g : stack[t] = <<f, g>> /\ Top(t) = f
        BY <1>2 DEF Nests
    <2>2. stack'[t] = <<h, g>> /\ \A u \in Threads \ {t} : stack'[u] = stack[u]
        BY <1>0, <2>1, TwoGo
    <2>3. ToSet(<<f, g>>) = {f} \cup {g} /\ ToSet(<<h, g>>) = {h} \cup {g}
        BY StackElements
    <2>. QED BY <2>1, <2>2, <2>3
<1>. QED BY <1>1, <1>2, Inside

\* Their references are those there were and those of the call that goes on.
LEMMA FramesGo ==
    ASSUME OInv, NEW t \in Threads, NEW a, At(t, a), NEW h, Goto(t, h), FrameOK(t, h)
    PROVE  FramesOK(stack')
BY FramesMove DEF OInv, FramesOK

\* The user calls, with a key of the program.
LEMMA CallObjects ==
    ASSUME OInv, IInv', program' = program, NEW t \in Threads,
           NEW k \in program.keys, Call(t, k)
    PROVE  OInv'
<1>1. /\ stack'[t] = <<Frame(k)>> /\ \A u \in Threads \ {t} : stack'[u] = stack[u]
      /\ UNCHANGED objects /\ UNCHANGED cache /\ UNCHANGED <<mine, running, size, count>>
    BY DEF Call, OInv, IInv, LockOK, scratchpad
<1>2. FrameOK(t, Frame(k)) /\ ToSet(<<Frame(k)>>) = {Frame(k)}
    BY NewFrameOK, StackElements DEF Used
<1>3. FramesOK(stack')
    BY <1>1, <1>2 DEF OInv, FramesOK
<1>. QED BY <1>1, <1>3, ObjectsStay DEF OInv, cache, LocalsOK

\* lock().
LEMMA LockObjects ==
    ASSUME OInv, IInv', program' = program, NEW t \in Threads, Lock(t)
    PROVE  OInv'
<1>1. /\ At(t, "lock") /\ UNCHANGED objects /\ UNCHANGED cache
      /\ UNCHANGED <<mine, running, size, count>>
    BY DEF Lock, scratchpad
<1>2. PICK h : h = [Top(t) EXCEPT !.at = "lookup"]
    OBVIOUS
<1>3. Goto(t, h)
    BY <1>2 DEF Lock
<1>4. FrameOK(t, h)
    BY <1>1, <1>2, TopOK, TopFrame DEF OInv, FrameOK, IsFrame, Fields
<1>5. FramesOK(stack')
    BY <1>1, <1>3, <1>4, FramesGo
<1>. QED BY <1>1, <1>5, ObjectsStay DEF OInv, cache, LocalsOK

\* get(): a hit refers to the implementation that the mapper has for its key.
LEMMA LookupObjects ==
    ASSUME OInv, IInv', program' = program, NEW t \in Threads, Lookup(t)
    PROVE  OInv'
<1>. DEFINE k == Top(t).key
<1>1. /\ At(t, "lookup") /\ UNCHANGED objects
      /\ UNCHANGED <<mine, running, size, count>>
    BY DEF Lookup, scratchpad
<1>2. IsFrame(Top(t)) /\ Top(t).at = "lookup" /\ FrameOK(t, Top(t))
    BY <1>1, TopOK, TopFrame DEF OInv
<1>3. CASE Capacity > 0 /\ k \in DOMAIN mapper
    <2>1. Agree(list, mapper) /\ list \in Seq(ToSet(list))
        BY DEF OInv, IInv, CacheConsistent, Agree, LockOK, IsSeq
    <2>2. PICK j \in DOMAIN list : list[j].key = k /\ list[j].impl = mapper[k]
        BY <1>3, <2>1 DEF Agree
    <2>3. list[j] \in ToSet(list)
        BY DEF ToSet
    <2>4. mapper[k] \in DOMAIN impls /\ impls[mapper[k]].key = k
        BY <2>2, <2>3 DEF OInv, ListOK
    <2>5. PICK h : h = [Top(t) EXCEPT !.at = "wrap", !.hit = TRUE, !.impl = mapper[k]]
        OBVIOUS
    <2>6. Goto(t, h) /\ list' = ToFront(list, k)
        BY <1>3, <2>5 DEF Lookup
    <2>7. mapper[k] # None
        BY <2>4, NoneIsNoId DEF OInv, ObjectsOK
    <2>8. FrameOK(t, h)
        BY <1>2, <2>4, <2>5, <2>7 DEF FrameOK, IsFrame, Fields
    <2>9. FramesOK(stack')
        BY <1>1, <2>6, <2>8, FramesGo
    <2>10. ToSet(list') \subseteq ToSet(list)
        BY <1>3, <2>1, <2>6, ToFrontAgrees, ElementsOf
    <2>11. ListOK(list')
        BY <2>10 DEF OInv, ListOK
    <2>. QED BY <1>1, <2>9, <2>11, ObjectsStay DEF OInv, LocalsOK
<1>4. CASE ~(Capacity > 0 /\ k \in DOMAIN mapper)
    <2>1. PICK h : h = [Top(t) EXCEPT !.at = "construct"]
        OBVIOUS
    <2>2. Goto(t, h) /\ list' = list
        BY <1>4, <2>1 DEF Lookup
    <2>3. FrameOK(t, h)
        BY <1>2, <2>1 DEF FrameOK, IsFrame, Fields
    <2>4. FramesOK(stack')
        BY <1>1, <2>2, <2>3, FramesGo
    <2>. QED BY <1>1, <2>2, <2>4, ObjectsStay DEF OInv, LocalsOK
<1>. QED BY <1>3, <1>4

\* A wrapper goes to the user, or to the constructor that needs it.
LEMMA ReturnObjects ==
    ASSUME OInv, IInv', program' = program, NEW t \in Threads, Return(t)
    PROVE  OInv'
<1>. DEFINE p == Top(t).prim
<1>1. /\ At(t, "return") /\ UNCHANGED objects /\ UNCHANGED cache
      /\ UNCHANGED <<running, size, count>>
    BY DEF Return, scratchpad
<1>2. /\ DOMAIN stack = Threads /\ DOMAIN mine = Threads
      /\ FrameOK(t, Top(t)) /\ Top(t).at = "return"
    BY <1>1, TopOK, TopFrame DEF OInv, IInv, LockOK, UsersOK
<1>3. p \in DOMAIN prims /\ Key(p) = Top(t).key /\ prims[p].by = t
    BY <1>2 DEF FrameOK
<1>4. CASE \E f : Calls(t, f) /\ Top(t) = f /\ Tail(stack[t]) = <<>>
    <2>1. /\ stack' = [stack EXCEPT ![t] = <<>>]
          /\ mine' = [mine EXCEPT ![t] = @ \cup {p}]
        BY <1>4 DEF Return
    <2>2. FramesOK(stack')
        BY <1>2, <2>1, StackElements DEF OInv, FramesOK
    <2>3. UsersOK(mine', running')
        BY <1>1, <1>2, <1>3, <2>1 DEF OInv, UsersOK
    <2>. QED BY <1>1, <2>2, <2>3, ObjectsStay DEF OInv, LocalsOK, cache
<1>5. CASE \E f, g : Nests(t, f, g) /\ Top(t) = f /\ Tail(stack[t]) = <<g>>
    <2>1. PICK f, g : Nests(t, f, g) /\ Top(t) = f /\ Tail(stack[t]) = <<g>>
        BY <1>5
    <2>2. PICK h : h = [g EXCEPT !.made = Append(@, p)]
        OBVIOUS
    <2>3. stack' = [stack EXCEPT ![t] = <<h>> \o <<>>] /\ mine' = mine
        BY <2>1, <2>2, OneCall DEF Return
    <2>4. stack'[t] = <<h>> /\ \A u \in Threads \ {t} : stack'[u] = stack[u]
        BY <1>2, <2>3, OneCall
    <2>5. stack[t] = <<f, g>> /\ g \in ToSet(<<f, g>>)
        BY <2>1, StackElements DEF Nests
    <2>6. FrameOK(t, g)
        BY <2>5 DEF OInv, FramesOK
    <2>7. /\ IsFrame(g) /\ g.at = "construct" /\ f.key \in ToSet(Nested[g.key])
          /\ DOMAIN g = Fields /\ IsSeq(g.made)
        BY <2>1 DEF Nests, IsFrame
    <2>8. /\ h.made = Append(g.made, p)
          /\ h.key = g.key /\ h.at = g.at /\ h.impl = g.impl /\ h.prim = g.prim
        BY <2>2, <2>7 DEF Fields
    <2>9. ToSet(h.made) = ToSet(g.made) \cup {p}
        BY <2>7, <2>8, AppendedElements
    <2>10. FrameOK(t, h)
        BY <1>3, <2>1, <2>6, <2>7, <2>8, <2>9 DEF FrameOK, Made
    <2>11. ToSet(<<h>>) = {h}
        BY StackElements
    <2>12. FramesOK(stack')
        BY <2>4, <2>10, <2>11 DEF OInv, FramesOK
    <2>. QED BY <1>1, <2>3, <2>12, ObjectsStay DEF OInv, LocalsOK, cache
<1>. QED BY <1>1, <1>4, <1>5, Inside DEF OInv

\* Users execute primitives that they have.
LEMMA ExecuteObjects ==
    ASSUME OInv, IInv', program' = program, NEW t \in Threads,
           Executed(t) \/ \E p \in mine[t] : Execute(t, p)
    PROVE  OInv'
<1>1. /\ UNCHANGED objects /\ UNCHANGED cache
      /\ UNCHANGED <<mine, stack, size, count>>
    BY DEF Execute, Executed, scratchpad
<1>2. PICK x \in mine[t] \cup {None} : running' = [running EXCEPT ![t] = x]
    BY DEF Execute, Executed
<1>3. UsersOK(mine', running')
    BY <1>1, <1>2 DEF OInv, UsersOK
<1>. QED BY <1>1, <1>3, ObjectsStay DEF OInv, LocalsOK, cache

\* Steps that create an object.
LEMMA ObjectsGrow ==
    ASSUME OInv, IInv', Spares(DOMAIN prims, DOMAIN impls), LocalsOK',
           DOMAIN prims' \subseteq Ids, DOMAIN impls' \subseteq Ids,
           \A p \in DOMAIN prims' \ DOMAIN prims : PrimOK(p)',
           \A i \in DOMAIN impls' \ DOMAIN impls : ImplOK(i)',
           FramesOK(stack)', list' = list, mine' = mine, running' = running
    PROVE  OInv'
<1>1. ObjectsOK' /\ ListOK(list)' /\ UsersOK(mine, running)'
    BY Grown DEF OInv, ObjectsOK
<1>. QED BY <1>1 DEF OInv

\* The references of a call that goes on, when there is a new object.
LEMMA FramesGrow ==
    ASSUME OInv, Spares(DOMAIN prims, DOMAIN impls),
           NEW t \in Threads, NEW a, At(t, a), NEW h, Goto(t, h), FrameOK(t, h)'
    PROVE  FramesOK(stack)'
<1>1. \A u, f : FrameOK(u, f) => FrameOK(u, f)'
    BY Grown DEF OInv
<1>. QED BY <1>1, FramesMove DEF OInv, FramesOK

\* A constructor starts another call, or the implementation exists.
LEMMA ConstructObjects ==
    ASSUME OInv, IInv', program' = program, NEW t \in Threads, Construct(t)
    PROVE  OInv'
<1>0. PICK f : f = Top(t)
    OBVIOUS
<1>. DEFINE n == Len(f.made)
<1>1. /\ At(t, "construct") /\ UNCHANGED prims /\ UNCHANGED cache
      /\ UNCHANGED <<mine, running, size, count>>
    BY DEF Construct, scratchpad
<1>2. /\ DOMAIN stack = Threads /\ f \in ToSet(stack[t])
      /\ FrameOK(t, f) /\ IsFrame(f) /\ f.at = "construct"
    BY <1>0, <1>1, TopIn, TopOK, TopFrame DEF OInv, IInv, LockOK
<1>3. f.key \in Used /\ f.key \in Keys /\ Made(ToSet(f.made), f.key)
    BY <1>2 DEF FrameOK, IsFrame
<1>4. CASE n < Len(Nested[f.key])
    <2>1. n \in Nat /\ Nested[f.key] \in Seq(Keys)
        BY <1>2, <1>3, LenProperties, NestedAssumption DEF IsFrame, IsSeq
    <2>2. PICK m : m = Nested[f.key][n + 1]
        OBVIOUS
    <2>3. m \in ToSet(Nested[f.key])
        <3>1. n + 1 \in DOMAIN Nested[f.key]
            BY <1>4, <2>1, LenProperties
        <3>. QED BY <2>2, <3>1 DEF ToSet
    <2>4. FrameOK(t, Frame(m))
        BY <1>3, <2>3, InnerUsed, NewFrameOK
    <2>5. stack' = [stack EXCEPT ![t] = <<Frame(m)>> \o @] /\ impls' = impls
        BY <1>0, <1>4, <2>2 DEF Construct
    <2>6. PICK g : stack[t] = <<g>>
        <3>1. ASSUME NEW x, NEW g, Nests(t, x, g), Top(t) = x
              PROVE  FALSE
            <4>1. Len(Nested[x.key]) = 0
                BY <3>1, InnerKey DEF Nests, IsFrame
            <4>. QED BY <1>0, <1>4, <2>1, <3>1, <4>1
        <3>. QED BY <1>1, <3>1, Inside DEF OInv, Calls
    <2>7. stack'[t] = <<Frame(m), g>> /\ \A u \in Threads \ {t} : stack'[u] = stack[u]
        BY <1>2, <2>5, <2>6, TwoCalls
    <2>8. ToSet(<<Frame(m), g>>) = {Frame(m), g} /\ ToSet(<<g>>) = {g}
        BY StackElements
    <2>9. FramesOK(stack')
        BY <2>4, <2>6, <2>7, <2>8 DEF OInv, FramesOK
    <2>. QED BY <1>1, <2>5, <2>9, ObjectsStay DEF OInv, LocalsOK, cache, objects
<1>5. CASE ~(n < Len(Nested[f.key]))
    <2>0. PICK i : i = SmallestOf(Ids \ DOMAIN impls)
        OBVIOUS
    <2>1. /\ impls' = Added(impls, i, [key |-> f.key, nested |-> f.made])
          /\ Ids # DOMAIN impls
          /\ Goto(t, [f EXCEPT !.at = "wrap", !.impl = i, !.made = <<>>])
        BY <1>0, <1>5, <2>0 DEF Construct
    <2>2. i \in Ids /\ i \notin DOMAIN impls /\ i # None
        BY <2>0, <2>1, FreshId, NoneIsNoId DEF OInv, ObjectsOK
    <2>3. /\ DOMAIN impls' = DOMAIN impls \cup {i}
          /\ impls'[i] = [key |-> f.key, nested |-> f.made]
          /\ \A j \in DOMAIN impls : impls'[j] = impls[j]
        BY <2>1, <2>2 DEF Added
    <2>4. Spares(DOMAIN prims, DOMAIN impls)
        BY <1>1, <2>3 DEF OInv, ObjectsOK, PrimOK, Spares
    <2>5. ToSet(f.made) \subseteq DOMAIN prims
        BY <1>3 DEF Made
    <2>6. ImplOK(i)'
        BY <1>3, <2>3, <2>4, <2>5, Spared DEF ImplOK
    <2>7. PICK h : h = [f EXCEPT !.at = "wrap", !.impl = i, !.made = <<>>]
        OBVIOUS
    <2>8. /\ h.key = f.key /\ h.at = "wrap" /\ h.impl = i
          /\ h.made = <<>> /\ h.prim = f.prim
        BY <1>2, <2>7 DEF IsFrame, Fields
    <2>9. FrameOK(t, h)'
        <3>1. Made(ToSet(<<>>), h.key)' /\ ToSet(<<>>) = {}
            BY StackElements DEF Made
        <3>2. FrameOK(t, f)'
            BY <1>2, <2>4, Grown DEF OInv
        <3>. QED BY <1>2, <2>2, <2>3, <2>8, <3>1, <3>2 DEF FrameOK
    <2>10. FramesOK(stack)'
        BY <1>1, <2>1, <2>4, <2>7, <2>9, FramesGrow
    <2>11. LocalsOK' /\ DOMAIN prims' \subseteq Ids /\ DOMAIN impls' \subseteq Ids
        BY <1>1, <2>2, <2>3 DEF OInv, LocalsOK, ObjectsOK
    <2>. QED BY <1>1, <2>3, <2>4, <2>6, <2>10, <2>11, ObjectsGrow DEF cache
<1>. QED BY <1>4, <1>5

\* The new wrapper: what it refers to, and its scratchpad.
LEMMA NewWrapper ==
    ASSUME OInv, program' = program, NEW t \in program.threads, Wrap(t),
           NEW f, f = Top(t)
    PROVE  \E p \in Ids :
               /\ p \notin DOMAIN prims
               /\ DOMAIN prims' = DOMAIN prims \cup {p}
               /\ \A q \in DOMAIN prims : prims'[q] = prims[q]
               /\ prims'[p].impl = f.impl /\ prims'[p].by = t
               /\ prims'[p].holder \in {"none", "own", "global"}
               /\ prims'[p].holder = "global" <=> Shares(f.key)
               /\ prims'[p].holder = "global" => Take(t, Need[f.key])
               /\ prims'[p].holder # "global" => UNCHANGED scratchpad
               /\ Goto(t, [f EXCEPT !.at = IF f.hit THEN "return" ELSE "init",
                                    !.impl = None, !.prim = p])
               /\ Spares(DOMAIN prims, DOMAIN impls)
<1>1. PICK p : p = SmallestOf(Ids \ DOMAIN prims)
    OBVIOUS
<1>. DEFINE holder == IF Need[f.key] = 0 THEN "none"
                      ELSE IF f.key \in Global /\ ~Concurrent THEN "global"
                      ELSE "own"
            r == [impl |-> f.impl, holder |-> holder, by |-> t]
            h == [f EXCEPT !.at = IF f.hit THEN "return" ELSE "init",
                           !.impl = None, !.prim = p]
<1>2. /\ Ids # DOMAIN prims /\ Goto(t, h)
      /\ prims' = Added(prims, p, r) /\ impls' = impls
      /\ IF holder = "global" THEN Take(t, Need[f.key]) ELSE UNCHANGED scratchpad
    BY <1>1 DEF Wrap
<1>3. p \in Ids /\ p \notin DOMAIN prims
    BY <1>1, <1>2, FreshId DEF OInv, ObjectsOK
<1>4. /\ DOMAIN prims' = DOMAIN prims \cup {p} /\ prims'[p] = r
      /\ \A q \in DOMAIN prims : prims'[q] = prims[q]
    BY <1>2, <1>3 DEF Added
<1>5. holder \in {"none", "own", "global"} /\ (holder = "global" <=> Shares(f.key))
    BY DEF Shares
<1>6. Spares(DOMAIN prims, DOMAIN impls)
    BY <1>2, <1>4 DEF OInv, ObjectsOK, PrimOK, Spares
<1>7. r.impl = f.impl /\ r.holder = holder /\ r.by = t
    OBVIOUS
<1>. HIDE DEF holder, r
<1>. QED BY <1>2, <1>3, <1>4, <1>5, <1>6, <1>7

\* The thread-local scratchpad of the thread that takes a reference.
LEMMA Taken ==
    ASSUME LocalsOK, NEW t \in Threads, NEW n \in Nat, Take(t, n)
    PROVE  /\ LocalsOK' /\ count'[t] = count[t] + 1
           /\ size'[t] \in Nat /\ size'[t] >= n /\ size'[t] >= size[t]
           /\ \A u \in Threads \ {t} : size'[u] = size[u] /\ count'[u] = count[u]
BY DEF LocalsOK, Take

\* dnnl_primitive(): the wrapper refers to the implementation of its call.
LEMMA WrapObjects ==
    ASSUME OInv, IInv', program' = program, NEW t \in program.threads, Wrap(t)
    PROVE  OInv'
<1>0. PICK f : f = Top(t)
    OBVIOUS
<1>1. At(t, "wrap") /\ impls' = impls /\ list' = list /\ mine' = mine /\ running' = running
    BY DEF Wrap, cache
<1>2. t \in Threads
    BY ProgramAssumption DEF OInv, IInv, LockOK
<1>3. FrameOK(t, f) /\ IsFrame(f) /\ f.at = "wrap"
    BY <1>0, <1>1, <1>2, TopOK, TopFrame DEF OInv
<1>4. f.impl \in DOMAIN impls /\ impls[f.impl].key = f.key /\ f.key \in Keys
    BY <1>3 DEF FrameOK, IsFrame
<1>5. PICK p \in Ids :
          /\ p \notin DOMAIN prims
          /\ DOMAIN prims' = DOMAIN prims \cup {p}
          /\ prims'[p].impl = f.impl /\ prims'[p].by = t
          /\ prims'[p].holder \in {"none", "own", "global"}
          /\ prims'[p].holder = "global" <=> Shares(f.key)
          /\ prims'[p].holder = "global" => Take(t, Need[f.key])
          /\ prims'[p].holder # "global" => UNCHANGED scratchpad
          /\ Goto(t, [f EXCEPT !.at = IF f.hit THEN "return" ELSE "init",
                               !.impl = None, !.prim = p])
          /\ Spares(DOMAIN prims, DOMAIN impls)
    BY <1>0, NewWrapper
<1>. DEFINE h == [f EXCEPT !.at = IF f.hit THEN "return" ELSE "init",
                           !.impl = None, !.prim = p]
<1>6. Key(p)' = f.key
    BY <1>1, <1>4, <1>5 DEF Key
<1>7. PrimOK(p)'
    BY <1>1, <1>4, <1>5, <1>6 DEF PrimOK, Shares, Spares
<1>8. FrameOK(t, h)'
    <2>1. FrameOK(t, f)' /\ p # None
        BY <1>3, <1>5, Grown, NoneIsNoId DEF OInv
    <2>2. /\ h.key = f.key /\ h.made = f.made /\ h.impl = None /\ h.prim = p
          /\ h.at \in {"init", "return"}
        BY <1>3 DEF IsFrame, Fields
    <2>. HIDE DEF h
    <2>. QED BY <1>5, <1>6, <2>1, <2>2 DEF FrameOK
<1>9. FramesOK(stack)'
    BY <1>1, <1>2, <1>5, <1>8, FramesGrow
<1>10. LocalsOK'
    <2>1. CASE prims'[p].holder = "global"
        BY <1>2, <1>4, <1>5, <2>1, Taken, NeedAssumption DEF OInv
    <2>2. CASE prims'[p].holder # "global"
        BY <1>5, <2>2 DEF OInv, LocalsOK, scratchpad
    <2>. QED BY <2>1, <2>2
<1>11. DOMAIN prims' \subseteq Ids /\ DOMAIN impls' \subseteq Ids
    BY <1>1, <1>5 DEF OInv, ObjectsOK
<1>. QED BY <1>1, <1>5, <1>7, <1>9, <1>10, <1>11, ObjectsGrow

------------------------------------------------------------------------------
(* Objects that go.                                                        *)

\* What is held exists, and so does what is reachable from it; of what is
\* reachable nothing is nested in what is not.
LEMMA Reachable ==
    ASSUME OInv, NEW lst, NEW stk, NEW mn,
           ListOK(lst), FramesOK(stk), UsersOK(mn, running),
           NEW ps, ps = HeldPrims(stk, mn), NEW is, is = HeldImpls(lst, stk)
    PROVE  /\ ps \subseteq LivePrims(ps, is) /\ LivePrims(ps, is) \subseteq DOMAIN prims
           /\ is \subseteq LiveImpls(ps, is) /\ LiveImpls(ps, is) \subseteq DOMAIN impls
           /\ \A p \in LivePrims(ps, is) : prims[p].impl \in LiveImpls(ps, is)
           /\ \A i \in LiveImpls(ps, is) : ToSet(impls[i].nested) \subseteq LivePrims(ps, is)
           /\ \A p \in LivePrims(ps, is) \ ps :
                 \E i \in DOMAIN impls : p \in ToSet(impls[i].nested)
<1>. DEFINE hs == is \cup { prims[p].impl : p \in ps }
            P == LivePrims(ps, is)
            I == LiveImpls(ps, is)
<1>1. ps \subseteq DOMAIN prims
    <2>1. \A u \in Threads : \A f \in ToSet(stk[u]) :
             /\ f.prim # None => f.prim \in DOMAIN prims
             /\ ToSet(f.made) \subseteq DOMAIN prims
        BY DEF FramesOK, FrameOK, Made
    <2>2. \A u \in Threads : /\ mn[u] \subseteq DOMAIN prims
                             /\ running[u] # None => running[u] \in DOMAIN prims
        BY DEF UsersOK
    <2>. QED BY <2>1, <2>2 DEF HeldPrims, Frames
<1>2. is \subseteq DOMAIN impls
    <2>1. \A u \in Threads : \A f \in ToSet(stk[u]) :
             f.impl # None => f.impl \in DOMAIN impls
        BY DEF FramesOK, FrameOK
    <2>2. \A e \in ToSet(lst) : e.impl \in DOMAIN impls
        BY DEF ListOK
    <2>. QED BY <2>1, <2>2 DEF HeldImpls, Frames
<1>3. hs \subseteq DOMAIN impls
    BY <1>1, <1>2 DEF OInv, ObjectsOK, PrimOK
<1>4. P = ps \cup UNION { ToSet(impls[i].nested) : i \in hs }
    BY DEF LivePrims
<1>5. I = is \cup { prims[p].impl : p \in P }
    BY DEF LiveImpls
<1>. HIDE DEF P, I, hs
<1>6. ASSUME NEW p \in P PROVE p \in ps \/ \E i \in hs : p \in ToSet(impls[i].nested)
    BY <1>4
<1>7. P \subseteq DOMAIN prims
    BY <1>1, <1>3, <1>6 DEF OInv, ObjectsOK, ImplOK, Made
<1>8. I \subseteq DOMAIN impls
    BY <1>2, <1>5, <1>7 DEF OInv, ObjectsOK, PrimOK
<1>9. ASSUME NEW i \in I PROVE ToSet(impls[i].nested) \subseteq P
    <2>1. CASE i \in hs
        BY <1>4, <2>1
    <2>2. CASE i \notin hs
        <3>1. PICK q \in P : i = prims[q].impl /\ q \notin ps
            BY <1>5, <2>2 DEF hs
        <3>2. PICK j \in hs : q \in ToSet(impls[j].nested)
            BY <1>6, <3>1
        <3>3. impls[j].key \in Used /\ Key(q) \in ToSet(Nested[impls[j].key])
            BY <1>3, <3>2 DEF OInv, ObjectsOK, ImplOK, Made
        <3>4. ToSet(Nested[impls[i].key]) = {}
            BY <3>1, <3>3, InnerUsed DEF Key
        <3>5. ToSet(impls[i].nested) = {}
            BY <1>8, <3>4 DEF OInv, ObjectsOK, ImplOK, Made
        <3>. QED BY <3>5
    <2>. QED BY <2>1, <2>2
<1>10. \A p \in P : prims[p].impl \in I
    BY <1>5
<1>11. ps \subseteq P /\ is \subseteq I
    BY <1>4, <1>5
<1>. QED BY <1>3, <1>6, <1>7, <1>8, <1>9, <1>10, <1>11 DEF P, I

\* Wrappers are finitely many.
LEMMA FinitePrims ==
    ASSUME ObjectsOK, NEW S, S \subseteq DOMAIN prims
    PROVE  IsFiniteSet(S) /\ Cardinality(S) \in Nat
<1>1. S \subseteq 1 .. MaxIds /\ IsFiniteSet(1 .. MaxIds)
    BY FS_Interval, BoundAssumption DEF ObjectsOK, Ids
<1>. QED BY <1>1, FS_Subset, FS_CardinalityType

\* References to the global scratchpads that a step drops.
Dropped == { p \in DOMAIN prims \ DOMAIN prims' : prims[p].holder = "global" }

\* What a thread destroys when it drops references.
LEMMA SweepObjects ==
    ASSUME OInv, IInv', program' = program, running' = running, NEW t \in Threads,
           ListOK(list'), FramesOK(stack'), UsersOK(mine', running),
           Sweep(t, list', stack', mine')
    PROVE  /\ OInv'
           /\ \E P, I : /\ Spares(P, I) /\ P = DOMAIN prims'
                        /\ HeldPrims(stack', mine') \subseteq P
                        /\ \A p \in P \ HeldPrims(stack', mine') :
                              \E i \in DOMAIN impls : p \in ToSet(impls[i].nested)
           /\ count' = [count EXCEPT ![t] = @ - Cardinality(Dropped)]
           /\ size' = IF 0 \in count'[t] .. count[t] - 1
                      THEN [size EXCEPT ![t] = 0] ELSE size
<1>1. PICK ps, is : ps = HeldPrims(stack', mine') /\ is = HeldImpls(list', stack')
    OBVIOUS
<1>2. PICK P, I : P = LivePrims(ps, is) /\ I = LiveImpls(ps, is)
    OBVIOUS
<1>3. /\ ps \subseteq P /\ P \subseteq DOMAIN prims
      /\ is \subseteq I /\ I \subseteq DOMAIN impls
      /\ \A p \in P : prims[p].impl \in I
      /\ \A i \in I : ToSet(impls[i].nested) \subseteq P
      /\ \A p \in P \ ps : \E i \in DOMAIN impls : p \in ToSet(impls[i].nested)
    BY <1>1, <1>2, Reachable
<1>4. /\ prims' = Restrict(prims, P) /\ impls' = Restrict(impls, I)
      /\ count' = [count EXCEPT ![t] =
            @ - Cardinality({ p \in DOMAIN prims \ P : prims[p].holder = "global" })]
      /\ size' = IF 0 \in count'[t] .. count[t] - 1
                 THEN [size EXCEPT ![t] = 0] ELSE size
    BY <1>1, <1>2 DEF Sweep
<1>5. /\ DOMAIN prims' = P /\ \A p \in P : prims'[p] = prims[p]
      /\ DOMAIN impls' = I /\ \A i \in I : impls'[i] = impls[i]
    BY <1>4 DEF Restrict
<1>6. Spares(P, I)
    BY <1>3, <1>5 DEF Spares
<1>7. ObjectsOK'
    <2>1. DOMAIN impls' \subseteq Ids /\ DOMAIN prims' \subseteq Ids
        BY <1>3, <1>5 DEF OInv, ObjectsOK
    <2>2. \A i \in I : ImplOK(i)'
        BY <1>3, <1>6, Spared DEF OInv, ObjectsOK
    <2>3. \A p \in P : PrimOK(p)'
        BY <1>3, <1>6, Spared DEF OInv, ObjectsOK
    <2>. QED BY <1>5, <2>1, <2>2, <2>3 DEF ObjectsOK
<1>8. FramesOK(stack)'
    <2>1. ASSUME NEW u \in Threads, NEW f \in ToSet(stack'[u])
          PROVE  FrameOK(u, f)'
        <3>1. f \in Frames(stack')
            BY DEF Frames
        <3>2. f.impl # None => f.impl \in is
            BY <1>1, <3>1 DEF HeldImpls
        <3>3. (f.prim # None => f.prim \in ps) /\ ToSet(f.made) \subseteq ps
            BY <1>1, <3>1 DEF HeldPrims
        <3>4. Within(f, P, I)
            BY <1>3, <3>2, <3>3 DEF Within
        <3>5. FrameOK(u, f)
            BY DEF FramesOK
        <3>. QED BY <1>6, <3>4, <3>5, Spared
    <2>. QED BY <2>1 DEF FramesOK
<1>9. ListOK(list)'
    <2>1. \A e \in ToSet(list') : e.impl \in I
        BY <1>1, <1>3 DEF HeldImpls
    <2>. QED BY <1>5, <2>1 DEF ListOK
<1>10. UsersOK(mine, running)'
    <2>1. \A u \in Threads : mine'[u] \subseteq P
        BY <1>1, <1>3 DEF HeldPrims
    <2>. QED BY <1>5, <2>1 DEF UsersOK
<1>11. Dropped = { p \in DOMAIN prims \ P : prims[p].holder = "global" }
    BY <1>5 DEF Dropped
<1>12. Cardinality(Dropped) \in Nat
    BY FinitePrims DEF OInv, Dropped
<1>13. count' = [count EXCEPT ![t] = @ - Cardinality(Dropped)]
    BY <1>4, <1>11
<1>14. LocalsOK'
    BY <1>4, <1>12, <1>13 DEF OInv, LocalsOK
<1>15. OInv'
    BY <1>7, <1>8, <1>9, <1>10, <1>14 DEF OInv
<1>. QED BY <1>1, <1>3, <1>4, <1>5, <1>6, <1>13, <1>15

\* What holds of the references that are left when thread t drops some.
Drops(t) == /\ running' = running
            /\ ListOK(list') /\ FramesOK(stack') /\ UsersOK(mine', running)
            /\ Sweep(t, list', stack', mine')

\* init() fails: the wrapper of the call goes.
LEMMA InitFailsDrops ==
    ASSUME OInv, NEW t \in Threads, InitFails(t)
    PROVE  Drops(t) /\ stack'[t] = <<>> /\ \A u \in Threads \ {t} : stack'[u] = stack[u]
<1>1. /\ stack' = [stack EXCEPT ![t] = <<>>] /\ UNCHANGED <<list, mine, running>>
      /\ Sweep(t, list, stack', mine)
    BY DEF InitFails, cache
<1>2. stack'[t] = <<>> /\ \A u \in Threads \ {t} : stack'[u] = stack[u]
    BY <1>1 DEF OInv, IInv, LockOK
<1>3. FramesOK(stack')
    BY <1>2, StackElements DEF OInv, FramesOK
<1>4. Sweep(t, list', stack', mine')
    BY <1>1
<1>. QED BY <1>1, <1>2, <1>3, <1>4 DEF OInv, Drops

\* A user drops a wrapper.
LEMMA DestroyDrops ==
    ASSUME OInv, NEW t \in Threads, NEW p, Destroy(t, p)
    PROVE  Drops(t)
<1>1. /\ mine' = [mine EXCEPT ![t] = @ \ {p}] /\ UNCHANGED <<list, stack, running>>
      /\ Sweep(t, list, stack, mine') /\ running[t] = None
    BY DEF Destroy, Idle, cache
<1>2. UsersOK(mine', running)
    BY <1>1 DEF OInv, UsersOK
<1>3. Sweep(t, list', stack', mine')
    BY <1>1
<1>. QED BY <1>1, <1>2, <1>3 DEF OInv, Drops

\* add(): the list refers to the implementation of the wrapper, and no more to
\* what it evicts.
LEMMA InitAndAddDrops ==
    ASSUME OInv, NEW t \in Threads, InitAndAdd(t)
    PROVE  Drops(t) /\ Goto(t, [Top(t) EXCEPT !.at = "return"])
<1>0. PICK f : f = Top(t)
    OBVIOUS
<1>. DEFINE e == [key |-> f.key, impl |-> prims[f.prim].impl]
            room == IF Len(list) >= Capacity THEN Evict(list, mapper) ELSE <<list, mapper>>
<1>1. /\ At(t, "init") /\ Goto(t, [f EXCEPT !.at = "return"])
      /\ UNCHANGED <<mine, running>> /\ Sweep(t, list', stack', mine')
      /\ IF Capacity = 0 THEN list' = list ELSE list' = <<e>> \o room[1]
    BY <1>0 DEF InitAndAdd, cache
<1>2. IsFrame(f) /\ f.at = "init" /\ FrameOK(t, f)
    BY <1>0, <1>1, TopOK, TopFrame DEF OInv
<1>3. FramesOK(stack')
    <2>1. PICK h : h = [f EXCEPT !.at = "return"]
        OBVIOUS
    <2>2. FrameOK(t, h)
        BY <1>2, <2>1 DEF FrameOK, IsFrame, Fields
    <2>. QED BY <1>1, <2>1, <2>2, FramesGo
<1>4. e.impl \in DOMAIN impls /\ impls[e.impl].key = e.key
    BY <1>2 DEF OInv, ObjectsOK, PrimOK, FrameOK, Key
<1>5. ListOK(list')
    <2>1. CASE Capacity = 0
        BY <1>1, <2>1 DEF OInv
    <2>2. CASE Capacity # 0
        <3>1. list \in Seq(ToSet(list)) /\ Len(list) \in Nat /\ Capacity \in Nat
            BY LenProperties, ProgramAssumption DEF OInv, IInv, LockOK, IsSeq, Capacity
        <3>2. room[1] \in Seq(ToSet(list))
            <4>1. CASE Len(list) >= Capacity
                <5>1. list # <<>>
                    BY <2>2, <3>1, <4>1, EmptySeq
                <5>2. Front(list) \in Seq(ToSet(list))
                    BY <3>1, <5>1, FrontEntries
                <5>. QED BY <4>1, <5>2 DEF Evict
            <4>2. CASE ~(Len(list) >= Capacity)
                BY <3>1, <4>2
            <4>. QED BY <4>1, <4>2
        <3>. HIDE DEF room, e
        <3>3. <<e>> \o room[1] \in Seq(ToSet(list) \cup {e})
            BY <3>2, Consed
        <3>4. ToSet(list') \subseteq ToSet(list) \cup {e}
            BY <1>1, <2>2, <3>3, ElementsOf
        <3>. QED BY <1>4, <3>4 DEF OInv, ListOK
    <2>. QED BY <2>1, <2>2
<1>. QED BY <1>0, <1>1, <1>3, <1>5 DEF OInv, Drops

\* The initial state.
LEMMA ObjectsInit == Init => OInv
<1>. SUFFICES ASSUME Init PROVE OInv
    OBVIOUS
<1>1. DOMAIN impls = {} /\ DOMAIN prims = {} /\ ToSet(list) = {}
    BY StackElements DEF Init
<1>2. \A t \in Threads : ToSet(stack[t]) = {}
    BY StackElements DEF Init
<1>3. ObjectsOK /\ ListOK(list) /\ FramesOK(stack)
    BY <1>1, <1>2 DEF ObjectsOK, ListOK, FramesOK
<1>4. UsersOK(mine, running) /\ LocalsOK
    BY DEF Init, UsersOK, LocalsOK
<1>. QED BY <1>3, <1>4, InitHolds DEF OInv

\* The steps there are.
LEMMA Steps ==
    ASSUME OInv, Next
    PROVE  \E t \in program.threads :
              /\ t \in Threads /\ program' = program
              /\ \/ \E k \in program.keys : Call(t, k)
                 \/ Lock(t) \/ Wait(t) \/ Lookup(t) \/ Construct(t) \/ Wrap(t) \/ Return(t)
                 \/ Executed(t) \/ \E p \in mine[t] : Execute(t, p)
                 \/ InitFails(t) \/ InitAndAdd(t) \/ \E p \in mine[t] : Destroy(t, p)
<1>1. program.threads \subseteq Threads
    BY ProgramAssumption DEF OInv, IInv, LockOK
<1>. QED BY <1>1 DEF Next, Step

\* Every step keeps the objects that anything refers to.
LEMMA ObjectsNext == OInv /\ [Next]_vars => OInv'
<1>. SUFFICES ASSUME OInv, [Next]_vars PROVE OInv'
    OBVIOUS
<1>1. IInv'
    BY NextHolds DEF OInv
<1>2. CASE UNCHANGED vars
    BY <1>1, <1>2, ObjectsStay DEF OInv, LocalsOK, vars, cache, scratchpad
<1>3. CASE Next
    <2>1. PICK t \in program.threads :
              /\ t \in Threads /\ program' = program
              /\ \/ \E k \in program.keys : Call(t, k)
                 \/ Lock(t) \/ Wait(t) \/ Lookup(t) \/ Construct(t) \/ Wrap(t) \/ Return(t)
                 \/ Executed(t) \/ \E p \in mine[t] : Execute(t, p)
                 \/ InitFails(t) \/ InitAndAdd(t) \/ \E p \in mine[t] : Destroy(t, p)
        BY <1>3, Steps
    <2>2. CASE \E k \in program.keys : Call(t, k)
        BY <1>1, <2>1, <2>2, CallObjects
    <2>3. CASE Lock(t)
        BY <1>1, <2>1, <2>3, LockObjects
    <2>4. CASE Wait(t)
        BY <1>1, <2>4, ObjectsStay DEF OInv, LocalsOK, Wait, vars, cache, scratchpad
    <2>5. CASE Lookup(t)
        BY <1>1, <2>1, <2>5, LookupObjects
    <2>6. CASE Construct(t)
        BY <1>1, <2>1, <2>6, ConstructObjects
    <2>7. CASE Wrap(t)
        BY <1>1, <2>1, <2>7, WrapObjects
    <2>8. CASE Return(t)
        BY <1>1, <2>1, <2>8, ReturnObjects
    <2>9. CASE Executed(t) \/ \E p \in mine[t] : Execute(t, p)
        BY <1>1, <2>1, <2>9, ExecuteObjects
    <2>10. CASE InitFails(t) \/ InitAndAdd(t) \/ \E p \in mine[t] : Destroy(t, p)
        <3>1. Drops(t)
            BY <2>1, <2>10, InitFailsDrops, InitAndAddDrops, DestroyDrops
        <3>. QED BY <1>1, <2>1, <3>1, SweepObjects DEF Drops
    <2>. QED BY <2>1, <2>2, <2>3, <2>4, <2>5, <2>6, <2>7, <2>8, <2>9, <2>10
<1>. QED BY <1>2, <1>3

\* Nothing refers to an object that is gone, the mutex is locked at most twice,
\* and calls nest two deep: for any threads, programs and capacities.
THEOREM TypeCorrect == Spec => []TypeOK
<1>1. OInv => TypeOK
    <2>. SUFFICES ASSUME OInv PROVE TypeOK
        OBVIOUS
    <2>1. IInv /\ ObjectsOK /\ LocalsOK
          /\ FramesOK(stack) /\ UsersOK(mine, running) /\ LockOK
        BY DEF OInv, IInv
    <2>2. depth \in 0 .. 2
        <3>1. CASE owner = None
            BY <2>1, <3>1 DEF LockOK
        <3>2. CASE owner \in Threads
            <4>1. CallsOK(owner)
                BY <2>1, <3>2 DEF IInv
            <4>. QED BY <4>1 DEF CallsOK, Idles, Calls, Nests
        <3>. QED BY <2>1, <3>1, <3>2 DEF LockOK
    <2>4. Used \subseteq Keys
        BY UsedKeys
    <2>5. ASSUME NEW i \in DOMAIN impls
          PROVE  impls[i].key \in Keys /\ ToSet(impls[i].nested) \subseteq DOMAIN prims
        BY <2>1, <2>4 DEF ObjectsOK, ImplOK, Made
    <2>6. ASSUME NEW t \in Threads PROVE Len(stack[t]) <= 2
        <3>1. stack[t] = <<>> \/ (\E f : stack[t] = <<f>>) \/ \E f, g : stack[t] = <<f, g>>
            BY <2>1 DEF IInv, CallsOK, Idles, Calls, Nests
        <3>2. CASE stack[t] = <<>>
            BY <3>2
        <3>3. CASE \E f : stack[t] = <<f>>
            <4>1. PICK f : stack[t] = <<f>>
                BY <3>3
            <4>2. Len(<<f>>) = 1
                OBVIOUS
            <4>. QED BY <4>1, <4>2
        <3>4. CASE \E f, g : stack[t] = <<f, g>>
            <4>1. PICK f, g : stack[t] = <<f, g>>
                BY <3>4
            <4>2. Len(<<f, g>>) = 2
                OBVIOUS
            <4>. QED BY <4>1, <4>2
        <3>. QED BY <3>1, <3>2, <3>3, <3>4
    <2>7. ASSUME NEW t \in Threads, NEW f \in ToSet(stack[t])
          PROVE  f.impl \in DOMAIN impls \cup {None} /\ f.prim \in DOMAIN prims \cup {None}
        BY <2>1 DEF FramesOK, FrameOK
    <2>8. ASSUME NEW t \in Threads
          PROVE  /\ mine[t] \subseteq DOMAIN prims /\ running[t] \in mine[t] \cup {None}
                 /\ size[t] \in Nat /\ count[t] \in Int
        BY <2>1 DEF UsersOK, LocalsOK
    <2>9. \A p \in DOMAIN prims : /\ prims[p].impl \in DOMAIN impls
                                 /\ prims[p].holder \in {"none", "own", "global"}
        BY <2>1 DEF ObjectsOK, PrimOK
    <2>. QED BY <2>1, <2>2, <2>5, <2>6, <2>7, <2>8, <2>9 DEF TypeOK, LockOK, ObjectsOK
<1>. QED BY <1>1, ObjectsInit, ObjectsNext, PTL DEF Spec

------------------------------------------------------------------------------
(* The global scratchpads.                                                 *)

\* Wrappers with a reference are not inside of others, or there is but one
\* thread.
LEMMA SharedOutside ==
    ASSUME Confined, OInv, ~Alone, NEW p \in DOMAIN prims, prims[p].holder = "global",
           NEW k \in Used
    PROVE  Key(p) \notin ToSet(Nested[k])
<1>. SUFFICES ASSUME Key(p) \in ToSet(Nested[k]) PROVE FALSE
    OBVIOUS
<1>1. k \in program.keys
    BY InnerUsed
<1>2. Key(p) \in Global /\ ~Concurrent /\ Need[Key(p)] # 0
    BY DEF OInv, ObjectsOK, PrimOK, Shares
<1>3. program \in Programs
    BY DEF OInv, IInv, LockOK
<1>. QED BY <1>1, <1>2, <1>3 DEF Confined, Alone

\* The thread that creates a wrapper is one of the program.
LEMMA ByThread ==
    ASSUME OInv, NEW p \in DOMAIN prims
    PROVE  prims[p].by \in program.threads /\ prims[p].by \in Threads
BY ProgramAssumption DEF OInv, ObjectsOK, PrimOK, IInv, LockOK

\* Steps that leave all wrappers and scratchpads alone.
LEMMA CountStays ==
    ASSUME OInv, Spares(DOMAIN prims, DOMAIN impls), DOMAIN prims' = DOMAIN prims,
           UNCHANGED scratchpad, NEW t \in Threads, CountOK(t)
    PROVE  CountOK(t)'
<1>1. Sharing(t)' = Sharing(t)
    BY DEF Sharing, Spares
<1>2. \A p \in Sharing(t) : Key(p)' = Key(p)
    BY Spared DEF Sharing
<1>. QED BY <1>1, <1>2 DEF CountOK, scratchpad

\* Users and calls keep what they have with a reference.
LEMMA HeldStays ==
    ASSUME HeldOK, program' = program, DOMAIN prims' = DOMAIN prims,
           \A p \in DOMAIN prims : prims'[p] = prims[p],
           ~Alone => \A p \in DOMAIN prims : prims[p].holder = "global" =>
              LET u == prims[p].by IN
              /\ p \in mine[u] => p \in mine'[u]
              /\ (\E f \in ToSet(stack[u]) : f.prim = p) =>
                    p \in mine'[u] \/ \E f \in ToSet(stack'[u]) : f.prim = p
    PROVE  HeldOK'
<1>1. Alone' = Alone
    BY DEF Alone
<1>2. CASE Alone
    BY <1>1, <1>2 DEF HeldOK
<1>3. CASE ~Alone
    <2>1. ASSUME NEW p \in DOMAIN prims, prims[p].holder = "global"
          PROVE  \/ p \in mine'[prims[p].by]
                 \/ \E f \in ToSet(stack'[prims[p].by]) : f.prim = p
        BY <1>3, <2>1 DEF HeldOK
    <2>. QED BY <2>1 DEF HeldOK
<1>. QED BY <1>2, <1>3

\* The call of a thread that goes on keeps its wrapper.
LEMMA HeldMoves ==
    ASSUME SInv, program' = program, DOMAIN prims' = DOMAIN prims,
           \A p \in DOMAIN prims : prims'[p] = prims[p], mine' = mine,
           NEW t \in Threads, NEW a, At(t, a), NEW h, Goto(t, h),
           h.prim = Top(t).prim
    PROVE  HeldOK'
<1>1. PICK R : ToSet(stack[t]) = {Top(t)} \cup R /\ ToSet(stack'[t]) = {h} \cup R
    BY FramesMove DEF SInv, OInv
<1>2. \A u \in Threads \ {t} : stack'[u] = stack[u]
    BY FramesMove DEF SInv, OInv
<1>3. ASSUME NEW p \in DOMAIN prims, NEW f \in ToSet(stack[prims[p].by]), f.prim = p
      PROVE  \E g \in ToSet(stack'[prims[p].by]) : g.prim = p
    <2>1. prims[p].by \in Threads
        BY ByThread DEF SInv
    <2>. QED BY <1>1, <1>2, <1>3, <2>1
<1>. QED BY <1>3, HeldStays DEF SInv

\* Calls and constructors that create no wrapper.
LEMMA ScratchpadStays ==
    ASSUME SInv, OInv', program' = program, prims' = prims,
           Spares(DOMAIN prims, DOMAIN impls), UNCHANGED scratchpad, HeldOK'
    PROVE  SInv'
BY CountStays DEF SInv

\* Each step that neither creates nor destroys a wrapper.
LEMMA ScratchpadQuiet ==
    ASSUME SInv, Confined, OInv', program' = program, NEW t \in program.threads,
           \/ \E k \in program.keys : Call(t, k)
           \/ Lock(t) \/ Wait(t) \/ Lookup(t) \/ Construct(t) \/ Return(t)
           \/ Executed(t) \/ \E p \in mine[t] : Execute(t, p)
    PROVE  SInv'
<1>0. t \in Threads /\ IInv /\ DOMAIN stack = Threads /\ OInv /\ UsersOK(mine, running)
    BY ProgramAssumption DEF SInv, OInv, IInv, LockOK
<1>1. prims' = prims /\ UNCHANGED scratchpad
    BY DEF Call, Lock, Wait, Lookup, Construct, Return, Executed, Execute,
           vars, objects
<1>2. Spares(DOMAIN prims, DOMAIN impls)
    <2>1. \A p \in DOMAIN prims : prims[p].impl \in DOMAIN impls
        BY <1>0 DEF OInv, ObjectsOK, PrimOK
    <2>2. DOMAIN impls \subseteq DOMAIN impls' /\ \A i \in DOMAIN impls : impls'[i] = impls[i]
        <3>1. CASE Construct(t)
            <4>1. CASE impls' = impls
                BY <4>1
            <4>2. CASE impls' # impls
                <5>1. PICK i, r : impls' = Added(impls, i, r)
                                  /\ i = SmallestOf(Ids \ DOMAIN impls) /\ Ids # DOMAIN impls
                    BY <3>1, <4>2 DEF Construct
                <5>2. i \notin DOMAIN impls
                    BY <1>0, <5>1, FreshId DEF OInv, ObjectsOK
                <5>. QED BY <5>1, <5>2 DEF Added
            <4>. QED BY <4>1, <4>2
        <3>2. CASE ~Construct(t)
            BY <3>2 DEF Call, Lock, Wait, Lookup, Return, Executed, Execute,
                        vars, objects
        <3>. QED BY <3>1, <3>2
    <2>. QED BY <1>1, <2>1, <2>2 DEF Spares
<1>3. HeldOK'
    <2>1. CASE (\E k \in program.keys : Call(t, k)) \/ Wait(t)
               \/ Executed(t) \/ \E p \in mine[t] : Execute(t, p)
        <3>1. mine' = mine /\ \A u \in Threads : ToSet(stack[u]) \subseteq ToSet(stack'[u])
            <4>1. mine' = mine
                BY <2>1 DEF Call, Wait, Executed, Execute, vars
            <4>2. stack' = stack \/ (stack[t] = <<>> /\ \A u \in Threads \ {t} : stack'[u] = stack[u])
                BY <1>0, <2>1 DEF Call, Wait, Executed, Execute, vars
            <4>. QED BY <4>1, <4>2, StackElements
        <3>2. \A p \in DOMAIN prims : prims[p].by \in Threads
            BY <1>0, ByThread
        <3>. QED BY <1>1, <3>1, <3>2, HeldStays DEF SInv
    <2>2. CASE Lock(t)
        <3>1. PICK h : h = [Top(t) EXCEPT !.at = "lookup"]
            OBVIOUS
        <3>2. At(t, "lock") /\ Goto(t, h) /\ mine' = mine
            BY <2>2, <3>1 DEF Lock
        <3>3. h.prim = Top(t).prim
            BY <1>0, <3>1, <3>2, TopFrame DEF IsFrame, Fields
        <3>. QED BY <1>0, <1>1, <3>2, <3>3, HeldMoves
    <2>3. CASE Lookup(t)
        <3>1. PICK h : /\ Goto(t, h)
                       /\ \/ h = [Top(t) EXCEPT !.at = "construct"]
                          \/ h = [Top(t) EXCEPT !.at = "wrap", !.hit = TRUE,
                                                !.impl = mapper[Top(t).key]]
            BY <2>3 DEF Lookup
        <3>2. At(t, "lookup") /\ mine' = mine
            BY <2>3 DEF Lookup
        <3>3. h.prim = Top(t).prim
            BY <1>0, <3>1, <3>2, TopFrame DEF IsFrame, Fields
        <3>. QED BY <1>0, <1>1, <3>1, <3>2, <3>3, HeldMoves
    <2>4. CASE Construct(t)
        <3>1. At(t, "construct") /\ mine' = mine
            BY <2>4 DEF Construct
        <3>2. CASE \E k : stack' = [stack EXCEPT ![t] = <<Frame(k)>> \o @]
            <4>1. PICK k : stack' = [stack EXCEPT ![t] = <<Frame(k)>> \o @]
                BY <3>2
            <4>2. \A u \in Threads : ToSet(stack[u]) \subseteq ToSet(stack'[u])
                <5>1. \A u \in Threads \ {t} : stack'[u] = stack[u]
                    BY <4>1
                <5>2. stack'[t] = <<Frame(k)>> \o stack[t]
                    BY <1>0, <4>1
                <5>3. PICK S : stack[t] \in Seq(S)
                    <6>1. CASE \E f : stack[t] = <<f>>
                        <7>1. PICK f : stack[t] = <<f>>
                            BY <6>1
                        <7>2. <<f>> \in Seq({f})
                            OBVIOUS
                        <7>. QED BY <7>1, <7>2
                    <6>2. CASE \E f, g : stack[t] = <<f, g>>
                        <7>1. PICK f, g : stack[t] = <<f, g>>
                            BY <6>2
                        <7>2. <<f, g>> \in Seq({f, g})
                            OBVIOUS
                        <7>. QED BY <7>1, <7>2
                    <6>. QED BY <1>0, <3>1, <6>1, <6>2, Inside DEF Calls, Nests
                <5>4. /\ <<Frame(k)>> \o stack[t] \in Seq(S \cup {Frame(k)})
                      /\ Len(<<Frame(k)>> \o stack[t]) = Len(stack[t]) + 1
                      /\ \A i \in 1 .. Len(stack[t]) + 1 :
                            (<<Frame(k)>> \o stack[t])[i]
                                = IF i = 1 THEN Frame(k) ELSE stack[t][i - 1]
                    BY <5>3, Consed
                <5>5. ASSUME NEW f \in ToSet(stack[t]) PROVE f \in ToSet(stack'[t])
                    <6>1. PICK i \in 1 .. Len(stack[t]) : f = stack[t][i]
                        BY <5>3, LenProperties DEF ToSet
                    <6>2. Len(stack[t]) \in Nat
                        BY <5>3, LenProperties
                    <6>3. i + 1 \in DOMAIN stack'[t] /\ stack'[t][i + 1] = f
                        BY <5>2, <5>4, <6>1, <6>2, LenProperties
                    <6>. QED BY <6>3 DEF ToSet
                <5>. QED BY <5>1, <5>5
            <4>3. \A p \in DOMAIN prims : prims[p].by \in Threads
                BY <1>0, ByThread
            <4>. QED BY <1>1, <3>1, <4>2, <4>3, HeldStays DEF SInv
        <3>3. CASE \E i : Goto(t, [Top(t) EXCEPT !.at = "wrap", !.impl = i, !.made = <<>>])
            <4>1. PICK i : Goto(t, [Top(t) EXCEPT !.at = "wrap", !.impl = i, !.made = <<>>])
                BY <3>3
            <4>2. PICK h : h = [Top(t) EXCEPT !.at = "wrap", !.impl = i, !.made = <<>>]
                OBVIOUS
            <4>3. h.prim = Top(t).prim
                BY <1>0, <3>1, <4>2, TopFrame DEF IsFrame, Fields
            <4>. QED BY <1>0, <1>1, <3>1, <4>1, <4>2, <4>3, HeldMoves
        <3>. QED BY <2>4, <3>2, <3>3 DEF Construct
    <2>5. CASE Return(t)
        <3>1. At(t, "return")
            BY <2>5 DEF Return
        <3>2. CASE \E f : Calls(t, f) /\ Top(t) = f /\ Tail(stack[t]) = <<>>
            <4>1. PICK f : stack[t] = <<f>> /\ Top(t) = f /\ Tail(stack[t]) = <<>>
                BY <3>2 DEF Calls
            <4>0. /\ stack' = [stack EXCEPT ![t] = <<>>]
                  /\ mine' = [mine EXCEPT ![t] = @ \cup {Top(t).prim}]
                BY <2>5, <4>1 DEF Return
            <4>2. /\ mine' = [mine EXCEPT ![t] = @ \cup {f.prim}]
                  /\ \A u \in Threads \ {t} : stack'[u] = stack[u]
                BY <1>0, <4>0, <4>1
            <4>3. /\ \A u \in Threads : mine[u] \subseteq mine'[u]
                  /\ f.prim \in mine'[t] /\ ToSet(<<f>>) = {f}
                BY <1>0, <4>2, StackElements DEF UsersOK
            <4>4. \A p \in DOMAIN prims : prims[p].by \in Threads
                BY <1>0, ByThread
            <4>. QED BY <1>1, <4>1, <4>2, <4>3, <4>4, HeldStays DEF SInv
        <3>3. CASE \E f, g : Nests(t, f, g) /\ Top(t) = f /\ Tail(stack[t]) = <<g>>
            <4>1. PICK f, g : Nests(t, f, g) /\ Top(t) = f /\ Tail(stack[t]) = <<g>>
                BY <3>3
            <4>2. PICK h : h = [g EXCEPT !.made = Append(@, f.prim)]
                OBVIOUS
            <4>3. stack' = [stack EXCEPT ![t] = <<h>> \o <<>>] /\ mine' = mine
                BY <2>5, <4>1, <4>2, OneCall DEF Return
            <4>4. stack'[t] = <<h>> /\ \A u \in Threads \ {t} : stack'[u] = stack[u]
                BY <1>0, <4>3, OneCall
            <4>5. h.prim = g.prim
                BY <4>1, <4>2 DEF Nests, IsFrame, Fields
            <4>6. /\ stack[t] = <<f, g>> /\ f.key \in ToSet(Nested[g.key])
                  /\ FrameOK(t, f) /\ FrameOK(t, g) /\ f.at = "return"
                <5>1. stack[t] = <<f, g>> /\ f.key \in ToSet(Nested[g.key])
                    BY <4>1 DEF Nests
                <5>2. ToSet(<<f, g>>) = {f, g}
                    BY StackElements
                <5>3. f.at = "return"
                    BY <3>1, <4>1 DEF At
                <5>. QED BY <1>0, <5>1, <5>2, <5>3 DEF OInv, FramesOK
            <4>7. /\ f.prim \in DOMAIN prims /\ g.key \in Used
                  /\ Key(f.prim) \in ToSet(Nested[g.key])
                BY <4>6 DEF FrameOK
            <4>8. ~Alone => prims[f.prim].holder # "global"
                BY <1>0, <4>7, SharedOutside
            <4>9. ToSet(<<f, g>>) = {f, g} /\ ToSet(<<h>>) = {h}
                BY StackElements
            <4>10. \A p \in DOMAIN prims : prims[p].by \in Threads
                BY <1>0, ByThread
            <4>. QED BY <1>1, <4>3, <4>4, <4>5, <4>6, <4>8, <4>9, <4>10, HeldStays DEF SInv
        <3>. QED BY <1>0, <3>1, <3>2, <3>3, Inside
    <2>. QED BY <2>1, <2>2, <2>3, <2>4, <2>5
<1>. QED BY <1>1, <1>2, <1>3, ScratchpadStays

\* A wrapper takes a reference to the scratchpad of the thread that creates it:
\* it is counted, and the scratchpad fits it and those there were.
LEMMA ScratchpadTaken ==
    ASSUME SInv, Confined, OInv', program' = program,
           NEW t \in program.threads, Wrap(t)
    PROVE  SInv'
<1>0. PICK f : f = Top(t)
    OBVIOUS
<1>1. /\ t \in Threads /\ OInv /\ IInv /\ ObjectsOK /\ ObjectsOK' /\ LocalsOK
      /\ At(t, "wrap") /\ mine' = mine /\ impls' = impls
    BY ProgramAssumption DEF SInv, OInv, IInv, LockOK, Wrap
<1>2. FrameOK(t, f) /\ IsFrame(f) /\ f.at = "wrap"
    BY <1>0, <1>1, TopOK, TopFrame
<1>3. /\ f.prim = None /\ f.impl \in DOMAIN impls /\ impls[f.impl].key = f.key
      /\ f.key \in Keys
    BY <1>2 DEF FrameOK, IsFrame
<1>4. PICK p \in Ids :
          /\ p \notin DOMAIN prims
          /\ DOMAIN prims' = DOMAIN prims \cup {p}
          /\ \A q \in DOMAIN prims : prims'[q] = prims[q]
          /\ prims'[p].impl = f.impl /\ prims'[p].by = t
          /\ prims'[p].holder \in {"none", "own", "global"}
          /\ prims'[p].holder = "global" <=> Shares(f.key)
          /\ prims'[p].holder = "global" => Take(t, Need[f.key])
          /\ prims'[p].holder # "global" => UNCHANGED scratchpad
          /\ Goto(t, [f EXCEPT !.at = IF f.hit THEN "return" ELSE "init",
                               !.impl = None, !.prim = p])
          /\ Spares(DOMAIN prims, DOMAIN impls)
    BY <1>0, <1>1, NewWrapper
<1>5. PICK h : h = [f EXCEPT !.at = IF f.hit THEN "return" ELSE "init",
                             !.impl = None, !.prim = p]
    OBVIOUS
<1>6. h.prim = p /\ Goto(t, h)
    BY <1>2, <1>4, <1>5 DEF IsFrame, Fields
<1>7. HeldOK'
    <2>1. PICK R : ToSet(stack[t]) = {f} \cup R /\ ToSet(stack'[t]) = {h} \cup R
        BY <1>0, <1>1, <1>6, FramesMove
    <2>2. \A u \in Threads \ {t} : stack'[u] = stack[u]
        BY <1>1, <1>6, FramesMove
    <2>3. Alone' = Alone
        BY DEF Alone
    <2>4. p # None /\ None \notin DOMAIN prims
        BY <1>1, <1>4, NoneIsNoId DEF ObjectsOK
    <2>5. ASSUME ~Alone, NEW q \in DOMAIN prims', prims'[q].holder = "global"
          PROVE  \/ q \in mine'[prims'[q].by]
                 \/ \E g \in ToSet(stack'[prims'[q].by]) : g.prim = q
        <3>1. CASE q = p
            BY <1>4, <1>6, <2>1, <3>1
        <3>2. CASE q \in DOMAIN prims
            <4>1. prims'[q] = prims[q] /\ prims[q].by \in Threads
                BY <1>1, <1>4, <3>2, ByThread
            <4>2. \/ q \in mine[prims[q].by]
                  \/ \E g \in ToSet(stack[prims[q].by]) : g.prim = q
                BY <2>5, <3>2, <4>1 DEF SInv, HeldOK
            <4>3. q # None
                BY <2>4, <3>2
            <4>. QED BY <1>1, <1>3, <2>1, <2>2, <4>1, <4>2, <4>3
        <3>. QED BY <1>4, <3>1, <3>2
    <2>. QED BY <2>3, <2>5 DEF HeldOK
<1>8. \A q \in DOMAIN prims : Key(q)' = Key(q)
    BY <1>4, Spared
<1>9. Key(p)' = f.key
    BY <1>1, <1>3, <1>4 DEF Key
<1>10. CASE prims'[p].holder # "global"
    <2>1. ASSUME NEW u \in Threads PROVE CountOK(u)'
        <3>1. Sharing(u)' = Sharing(u)
            BY <1>4, <1>10 DEF Sharing
        <3>2. \A q \in Sharing(u) : Key(q)' = Key(q)
            BY <1>8 DEF Sharing
        <3>. QED BY <1>4, <1>10, <3>1, <3>2 DEF SInv, CountOK, scratchpad
    <2>. QED BY <1>7, <2>1 DEF SInv
<1>11. CASE prims'[p].holder = "global"
    <2>1. /\ Need[f.key] \in Nat
          /\ count'[t] = count[t] + 1
          /\ size'[t] \in Nat /\ size'[t] >= Need[f.key] /\ size'[t] >= size[t]
          /\ \A u \in Threads \ {t} : size'[u] = size[u] /\ count'[u] = count[u]
        BY <1>1, <1>3, <1>4, <1>11, Taken, NeedAssumption
    <2>2. ASSUME NEW u \in Threads \ {t} PROVE CountOK(u)'
        <3>1. Sharing(u)' = Sharing(u)
            BY <1>4 DEF Sharing
        <3>2. \A q \in Sharing(u) : Key(q)' = Key(q)
            BY <1>8 DEF Sharing
        <3>. QED BY <2>1, <3>1, <3>2 DEF SInv, CountOK
    <2>3. CountOK(t)'
        <3>1. Sharing(t)' = Sharing(t) \cup {p} /\ p \notin Sharing(t)
            BY <1>4, <1>11 DEF Sharing
        <3>2. /\ IsFiniteSet(Sharing(t)) /\ Cardinality(Sharing(t)) \in Nat
            BY <1>1, FinitePrims DEF Sharing
        <3>3. Cardinality(Sharing(t)') = Cardinality(Sharing(t)) + 1
            BY <3>1, <3>2, FS_AddElement
        <3>4. count[t] = Cardinality(Sharing(t)) /\ \A q \in Sharing(t) : Need[Key(q)] <= size[t]
            BY <1>1 DEF SInv, CountOK
        <3>5. count'[t] = Cardinality(Sharing(t)') /\ count'[t] # 0
            BY <2>1, <3>2, <3>3, <3>4
        <3>6. ASSUME NEW q \in Sharing(t)' PROVE Need[Key(q)'] <= size'[t]
            <4>1. CASE q = p
                BY <1>9, <2>1, <4>1
            <4>2. CASE q \in Sharing(t)
                <5>1. Key(q)' = Key(q) /\ q \in DOMAIN prims
                    BY <1>8, <4>2 DEF Sharing
                <5>2. Key(q) \in Keys
                    BY <1>1, <5>1, UsedKeys DEF ObjectsOK, PrimOK, ImplOK, Key
                <5>3. Need[Key(q)] \in Nat /\ size[t] \in Nat
                    BY <1>1, <5>2, NeedAssumption DEF LocalsOK
                <5>. QED BY <2>1, <3>4, <4>2, <5>1, <5>3
            <4>. QED BY <3>1, <4>1, <4>2
        <3>. QED BY <3>5, <3>6 DEF CountOK
    <2>. QED BY <1>7, <2>2, <2>3 DEF SInv
<1>. QED BY <1>10, <1>11

\* References that a thread drops are its own; the last one frees the buffer.
LEMMA ScratchpadDropped ==
    ASSUME SInv, Confined, OInv', program' = program,
           NEW t \in program.threads, Drops(t),
           \A u \in Threads \ {t} : mine'[u] = mine[u] /\ stack'[u] = stack[u]
    PROVE  SInv'
<1>0. t \in Threads /\ OInv /\ IInv' /\ ObjectsOK /\ ObjectsOK' /\ LocalsOK
    BY ProgramAssumption DEF SInv, OInv, IInv, LockOK
<1>1. PICK P, I :
          /\ Spares(P, I) /\ P = DOMAIN prims'
          /\ HeldPrims(stack', mine') \subseteq P
          /\ \A p \in P \ HeldPrims(stack', mine') :
                \E i \in DOMAIN impls : p \in ToSet(impls[i].nested)
    BY <1>0, SweepObjects DEF Drops
<1>2. /\ count' = [count EXCEPT ![t] = @ - Cardinality(Dropped)]
      /\ size' = IF 0 \in count'[t] .. count[t] - 1
                 THEN [size EXCEPT ![t] = 0] ELSE size
    BY <1>0, SweepObjects DEF Drops
<1>3. /\ P \subseteq DOMAIN prims /\ \A p \in P : prims'[p] = prims[p] /\ Key(p)' = Key(p)
    BY <1>1, Spared DEF Spares
<1>4. FramesOK(stack') /\ UsersOK(mine', running)
    BY DEF Drops
<1>5. ASSUME NEW u \in Threads
      PROVE  /\ mine'[u] \subseteq HeldPrims(stack', mine')
             /\ \A f \in ToSet(stack'[u]) :
                   f.prim # None => f.prim \in HeldPrims(stack', mine')
    BY DEF HeldPrims, Frames
<1>6. HeldOK'
    <2>1. ASSUME ~Alone, NEW p \in P, prims[p].holder = "global"
          PROVE  \/ p \in mine'[prims[p].by]
                 \/ \E f \in ToSet(stack'[prims[p].by]) : f.prim = p
        <3>1. \A k \in Used : Key(p) \notin ToSet(Nested[k])
            BY <1>0, <1>3, <2>1, SharedOutside
        <3>2. p \in HeldPrims(stack', mine')
            BY <1>0, <1>1, <3>1 DEF ObjectsOK, ImplOK, Made
        <3>3. \A u \in Threads : \A f \in ToSet(stack'[u]) : p \notin ToSet(f.made)
            BY <1>4, <3>1 DEF FramesOK, FrameOK, Made
        <3>4. p # None
            BY <1>0, <1>3, NoneIsNoId DEF ObjectsOK
        <3>5. \E u \in Threads : p \in mine'[u] \/ \E f \in ToSet(stack'[u]) : f.prim = p
            BY <1>4, <3>2, <3>3, <3>4 DEF HeldPrims, Frames, UsersOK
        <3>. QED BY <1>4, <3>4, <3>5 DEF UsersOK, FramesOK, FrameOK
    <2>2. Alone' = Alone
        BY DEF Alone
    <2>. QED BY <1>1, <1>3, <2>1, <2>2 DEF HeldOK
<1>7. Dropped \subseteq Sharing(t)
    <2>1. ASSUME NEW p \in Dropped PROVE prims[p].by = t
        <3>. DEFINE u == prims[p].by
        <3>1. p \in DOMAIN prims /\ p \notin P /\ prims[p].holder = "global"
            BY <1>1 DEF Dropped
        <3>2. u \in program.threads /\ u \in Threads
            BY <1>0, <3>1, ByThread
        <3>3. p # None
            BY <1>0, <3>1, NoneIsNoId DEF ObjectsOK
        <3>4. CASE Alone
            BY <3>2, <3>4 DEF Alone
        <3>5. CASE ~Alone
            <4>1. p \in mine[u] \/ \E f \in ToSet(stack[u]) : f.prim = p
                BY <3>1, <3>5 DEF SInv, HeldOK
            <4>2. CASE u # t
                BY <1>1, <1>5, <3>1, <3>2, <3>3, <4>1, <4>2
            <4>. QED BY <4>2
        <3>. QED BY <3>4, <3>5
    <2>. QED BY <2>1 DEF Dropped, Sharing
<1>8. ASSUME NEW u \in Threads \ {t} PROVE CountOK(u)'
    <2>1. Sharing(u)' = Sharing(u)
        BY <1>1, <1>3, <1>7 DEF Sharing, Dropped
    <2>2. \A q \in Sharing(u) : Key(q)' = Key(q)
        BY <1>1, <1>3, <2>1 DEF Sharing
    <2>3. count'[u] = count[u] /\ size'[u] = size[u]
        BY <1>0, <1>2 DEF LocalsOK
    <2>. QED BY <2>1, <2>2, <2>3 DEF SInv, CountOK
<1>9. CountOK(t)'
    <2>1. /\ IsFiniteSet(Sharing(t)) /\ Cardinality(Sharing(t)) \in Nat
          /\ Cardinality(Dropped) \in Nat
        BY <1>0, FinitePrims DEF Sharing, Dropped
    <2>2. Sharing(t)' = Sharing(t) \ Dropped
        BY <1>1, <1>3 DEF Sharing, Dropped
    <2>3. Sharing(t) \cap Dropped = Dropped
        BY <1>7
    <2>4. Cardinality(Sharing(t)') = Cardinality(Sharing(t)) - Cardinality(Dropped)
        BY <2>1, <2>2, <2>3, FS_Difference
    <2>5. IsFiniteSet(Sharing(t)') /\ Cardinality(Sharing(t)') \in Nat
        BY <2>1, <2>2, FS_Difference, FS_CardinalityType
    <2>6. /\ count[t] = Cardinality(Sharing(t)) /\ (count[t] = 0 => size[t] = 0)
          /\ \A q \in Sharing(t) : Need[Key(q)] <= size[t]
        BY <1>0 DEF SInv, CountOK
    <2>7. count'[t] = count[t] - Cardinality(Dropped)
        BY <1>0, <1>2 DEF LocalsOK
    <2>8. count'[t] = Cardinality(Sharing(t)')
        BY <2>4, <2>6, <2>7
    <2>9. count'[t] = 0 <=> Sharing(t)' = {}
        BY <2>5, <2>8, FS_EmptySet
    <2>10. count'[t] = 0 => size'[t] = 0
        <3>1. CASE Cardinality(Dropped) = 0
            BY <1>0, <1>2, <2>1, <2>6, <2>7, <3>1 DEF LocalsOK
        <3>2. CASE Cardinality(Dropped) # 0
            BY <1>0, <1>2, <2>1, <2>6, <2>7, <3>2 DEF LocalsOK
        <3>. QED BY <3>1, <3>2
    <2>11. count'[t] # 0 => size' = size
        BY <1>2, <2>5, <2>8
    <2>12. ASSUME NEW q \in Sharing(t)' PROVE Need[Key(q)'] <= size'[t]
        <3>1. q \in P /\ q \in Sharing(t)
            BY <1>1, <2>2, <2>12 DEF Sharing
        <3>. QED BY <1>3, <2>6, <2>9, <2>11, <2>12, <3>1
    <2>. QED BY <2>8, <2>10, <2>12 DEF CountOK
<1>. QED BY <1>6, <1>8, <1>9 DEF SInv

\* At first nobody has a reference.
LEMMA ScratchpadInit == Init => SInv
<1>. SUFFICES ASSUME Init PROVE SInv
    OBVIOUS
<1>1. DOMAIN prims = {}
    BY StackElements DEF Init
<1>2. HeldOK
    BY <1>1 DEF HeldOK
<1>3. ASSUME NEW t \in Threads PROVE CountOK(t)
    <2>1. Sharing(t) = {}
        BY <1>1 DEF Sharing
    <2>2. Cardinality({}) = 0
        BY FS_EmptySet
    <2>. QED BY <2>1, <2>2 DEF Init, CountOK
<1>. QED BY <1>2, <1>3, ObjectsInit DEF SInv

\* Every step keeps the scratchpads and their references in line.
LEMMA ScratchpadNext ==
    ASSUME Confined
    PROVE  SInv /\ [Next]_vars => SInv'
<1>. SUFFICES ASSUME SInv, [Next]_vars PROVE SInv'
    OBVIOUS
<1>1. OInv /\ OInv'
    BY ObjectsNext DEF SInv
<1>2. CASE UNCHANGED vars
    <2>1. UNCHANGED <<program, impls, prims, mine, stack, size, count>>
        BY <1>2 DEF vars, objects, scratchpad
    <2>2. HeldOK'
        BY <2>1 DEF SInv, HeldOK, Alone
    <2>3. \A t \in Threads : CountOK(t)'
        BY <2>1 DEF SInv, CountOK, Sharing, Key
    <2>. QED BY <1>1, <2>2, <2>3 DEF SInv
<1>3. CASE Next
    <2>1. PICK t \in program.threads :
              /\ t \in Threads /\ program' = program
              /\ \/ \E k \in program.keys : Call(t, k)
                 \/ Lock(t) \/ Wait(t) \/ Lookup(t) \/ Construct(t) \/ Wrap(t) \/ Return(t)
                 \/ Executed(t) \/ \E p \in mine[t] : Execute(t, p)
                 \/ InitFails(t) \/ InitAndAdd(t) \/ \E p \in mine[t] : Destroy(t, p)
        BY <1>1, <1>3, Steps
    <2>2. CASE \/ \E k \in program.keys : Call(t, k)
               \/ Lock(t) \/ Wait(t) \/ Lookup(t) \/ Construct(t) \/ Return(t)
               \/ Executed(t) \/ \E p \in mine[t] : Execute(t, p)
        BY <1>1, <2>1, <2>2, ScratchpadQuiet
    <2>3. CASE Wrap(t)
        BY <1>1, <2>1, <2>3, ScratchpadTaken
    <2>4. CASE InitFails(t)
        <3>1. mine' = mine
            BY <2>4 DEF InitFails
        <3>. QED BY <1>1, <2>1, <2>4, <3>1, InitFailsDrops, ScratchpadDropped
    <2>5. CASE InitAndAdd(t)
        <3>1. mine' = mine /\ At(t, "init")
            BY <2>5 DEF InitAndAdd
        <3>2. Drops(t) /\ Goto(t, [Top(t) EXCEPT !.at = "return"])
            BY <1>1, <2>1, <2>5, InitAndAddDrops
        <3>3. \A u \in Threads \ {t} : stack'[u] = stack[u]
            BY <1>1, <2>1, <3>1, <3>2, FramesMove DEF OInv
        <3>. QED BY <1>1, <2>1, <3>1, <3>2, <3>3, ScratchpadDropped
    <2>6. CASE \E p \in mine[t] : Destroy(t, p)
        <3>1. PICK p \in mine[t] : Destroy(t, p)
            BY <2>6
        <3>2. mine' = [mine EXCEPT ![t] = @ \ {p}] /\ stack' = stack
            BY <3>1 DEF Destroy
        <3>3. \A u \in Threads \ {t} : mine'[u] = mine[u]
            BY <1>1, <3>2 DEF OInv, UsersOK
        <3>. QED BY <1>1, <2>1, <3>1, <3>2, <3>3, DestroyDrops, ScratchpadDropped
    <2>. QED BY <2>1, <2>2, <2>3, <2>4, <2>5, <2>6
<1>. QED BY <1>2, <1>3

\* A primitive under execution, and the primitives inside of it, find a
\* scratchpad that is large enough, if no implementation that other threads can
\* get has inside of it wrappers with a reference to the global scratchpad.
THEOREM ScratchpadsFit ==
    ASSUME Confined
    PROVE  Spec => []ScratchpadFits
<1>1. SInv => ScratchpadFits
    <2>. SUFFICES ASSUME SInv, NEW t \in Threads, running[t] # None,
                         NEW p \in Uses(running[t]), prims[p].holder = "global"
                  PROVE  Need[Key(p)] <= size[t]
        BY DEF ScratchpadFits
    <2>. DEFINE r == running[t]
                i == prims[r].impl
    <2>1. OInv /\ ObjectsOK /\ UsersOK(mine, running)
        BY DEF SInv, OInv
    <2>2. r \in DOMAIN prims /\ prims[r].by = t /\ i \in DOMAIN impls
        BY <2>1 DEF UsersOK, ObjectsOK, PrimOK
    <2>3. p \in DOMAIN prims /\ prims[p].by = t
        <3>1. CASE p = r
            BY <2>2, <3>1
        <3>2. CASE p # r
            <4>1. p \in ToSet(impls[i].nested)
                BY <3>2 DEF Uses
            <4>2. /\ p \in DOMAIN prims /\ impls[i].key \in Used
                  /\ Key(p) \in ToSet(Nested[impls[i].key])
                BY <2>1, <2>2, <4>1 DEF ObjectsOK, ImplOK, Made
            <4>3. Alone
                BY <2>1, <4>2, SharedOutside
            <4>4. prims[p].by \in program.threads /\ prims[r].by \in program.threads
                BY <2>1, <2>2, <4>2, ByThread
            <4>. QED BY <2>2, <4>2, <4>3, <4>4 DEF Alone
        <3>. QED BY <3>1, <3>2
    <2>. QED BY <2>3 DEF SInv, CountOK, Sharing
<1>. QED BY <1>1, ScratchpadInit, ScratchpadNext, PTL DEF Spec

\* The global scratchpad of a thread is there as long as a primitive that the
\* thread created with it, under the same condition.
THEOREM ScratchpadsFreed ==
    ASSUME Confined
    PROVE  Spec => []ScratchpadFreed
<1>1. SInv => ScratchpadFreed
    <2>. SUFFICES ASSUME SInv, NEW t \in Threads
                  PROVE  size[t] = 0 <=> Sharing(t) = {}
        BY DEF ScratchpadFreed, Sharing
    <2>1. OInv /\ ObjectsOK /\ LocalsOK /\ CountOK(t)
        BY DEF SInv, OInv
    <2>2. IsFiniteSet(Sharing(t))
        BY <2>1, FinitePrims DEF Sharing
    <2>3. Sharing(t) = {} => size[t] = 0
        BY <2>1, FS_EmptySet DEF CountOK
    <2>4. ASSUME NEW p \in Sharing(t) PROVE size[t] # 0
        <3>1. p \in DOMAIN prims /\ Need[Key(p)] # 0 /\ Need[Key(p)] <= size[t]
            BY <2>1 DEF Sharing, ObjectsOK, PrimOK, Shares, CountOK
        <3>2. Key(p) \in Keys
            BY <2>1, <3>1, UsedKeys DEF ObjectsOK, PrimOK, ImplOK, Key
        <3>3. Need[Key(p)] \in Nat
            BY <3>2, NeedAssumption
        <3>. QED BY <3>1, <3>3
    <2>. QED BY <2>3, <2>4
<1>. QED BY <1>1, ScratchpadInit, ScratchpadNext, PTL DEF Spec
==============================================================================

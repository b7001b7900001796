------------------------ MODULE MemoryTrackingProofs ------------------------
(***************************************************************************)
(* The ledger of a scratchpad serves every request, wherever the           *)
(* scratchpad starts.                                                      *)
(***************************************************************************)
EXTENDS MemoryTracking, TLAPS

\* Rounding up reaches the next multiple and no further.
LEMMA RndUpBounds ==
    ASSUME NEW a \in Nat, NEW b \in Nat \ {0}
    PROVE  /\ RndUp(a, b) \in Nat
           /\ a <= RndUp(a, b) /\ RndUp(a, b) <= a + b - 1
           /\ RndUp(a, b) % b = 0
           /\ \E q \in Nat : RndUp(a, b) = b * q
<1> DEFINE q == (a + b - 1) \div b
<1>1. q \in Nat /\ b * q <= a + b - 1 /\ a + b - 1 < b * q + b
  BY Z3
<1>2. RndUp(a, b) = b * q
  BY <1>1 DEF RndUp
<1>3. (b * q) % b = 0
  BY <1>1, Z3
<1>4. \E m \in Nat : RndUp(a, b) = b * m
  BY <1>1, <1>2
<1>5. b * q \in Nat
  BY <1>1
<1> HIDE DEF q
<1> QED BY <1>1, <1>2, <1>3, <1>4, <1>5

LEMMA RndUp64 ==
    ASSUME NEW a \in Nat
    PROVE  /\ RndUp(a, 64) \in Nat /\ RndUp(a, 64) % 64 = 0
           /\ a <= RndUp(a, 64) /\ RndUp(a, 64) <= a + 63
           /\ a % 64 = 0 => RndUp(a, 64) = a
  BY DEF RndUp

LEMMA MultipleOf64 ==
    ASSUME NEW a \in Nat, a % 64 = 0
    PROVE  \E c \in Nat : a = 64 * c
  BY Z3

\* Between multiples of 64, rounding up skips at most b - 64 bytes.
LEMMA RndUpAligned ==
    ASSUME NEW a \in Nat, NEW b \in Nat \ {0}, a % 64 = 0, b % 64 = 0
    PROVE  RndUp(a, b) <= a + b - 64
<1> DEFINE q == (a + b - 1) \div b
<1>1. PICK i \in Nat : a = 64 * i
  BY Z3
<1>2. PICK k \in Nat : b = 64 * k
  BY Z3
<1>3. q \in Nat /\ b * q <= a + b - 1
  BY Z3
<1>4. PICK m \in Nat : m = k * q
  BY <1>3
<1>5. b * q = 64 * m
  BY <1>2, <1>3, <1>4
<1>6. 64 * m <= 64 * i + 64 * k - 1
  BY <1>1, <1>2, <1>3, <1>5
<1>7. m <= i + k - 1
  BY <1>6
<1> QED BY <1>1, <1>2, <1>3, <1>5, <1>7 DEF RndUp

\* A multiple of 64 is a multiple of what divides 64.
LEMMA DividesTrans ==
    ASSUME NEW p \in Nat, NEW b \in Nat \ {0}, p % 64 = 0, 64 % b = 0
    PROVE  p % b = 0
<1>1. PICK c \in Nat : 64 = b * c
  BY Z3
<1>2. PICK d \in Nat : p = 64 * d
  BY Z3
<1>3. PICK e \in Nat : e = c * d
  BY <1>1, <1>2
<1>4. p = b * e
  BY <1>1, <1>2, <1>3
<1> QED BY <1>4, Z3

-----------------------------------------------------------------------------
(***************************************************************************)
(* Keys: the path of a scope and a local key can be read off a global key. *)
(***************************************************************************)
LEMMA PrefixesOfPath ==
    ASSUME NEW p \in Seq(Prefixes), NEW i \in Nat, 1 <= i, i <= Len(p)
    PROVE  p[i] \in Nat /\ 1 <= p[i] /\ p[i] <= 127
<1>1. p[i] \in Prefixes
  OBVIOUS
<1>2. \A x \in Prefixes : x \in Nat /\ 1 <= x /\ x <= 127
  BY FieldsAssumption DEF MAX_PREFIX
<1> QED BY <1>1, <1>2

\* A field is 0 exactly if the path does not reach up to it.
LEMMA FieldsOfPath ==
    ASSUME NEW p \in Seq(Prefixes), NEW i \in Nat, 1 <= i
    PROVE  /\ Field(p, i) \in Nat /\ Field(p, i) <= 127
           /\ Field(p, i) = 0 <=> Len(p) < i
<1>1. PICK n \in Nat : n = Len(p)
  OBVIOUS
<1>2. CASE i <= n
  <2>1. n + 1 - i \in Nat /\ 1 <= n + 1 - i /\ n + 1 - i <= n
    BY <1>2
  <2>2. p[n + 1 - i] \in Nat /\ 1 <= p[n + 1 - i] /\ p[n + 1 - i] <= 127
    BY <1>1, <2>1, PrefixesOfPath
  <2>3. Field(p, i) = p[n + 1 - i]
    BY <1>1, <1>2 DEF Field
  <2> QED BY <1>1, <1>2, <2>2, <2>3
<1>3. CASE n < i
  BY <1>1, <1>3 DEF Field
<1> QED BY <1>2, <1>3

\* Different blocks, or different keys of one block, have different global
\* keys (make_prefix, make_key).
THEOREM GlobalKeysUnique ==
    ASSUME NEW p \in Seq(Prefixes), Len(p) <= MAX_LEVELS,
           NEW q \in Seq(Prefixes), Len(q) <= MAX_LEVELS,
           NEW k \in Keys, NEW l \in Keys,
           Encode(p) + k = Encode(q) + l
    PROVE  p = q /\ k = l
<1>1. k \in Nat /\ l \in Nat /\ k <= 1023 /\ l <= 1023
  BY FieldsAssumption DEF MAX_KEY
<1>2. /\ Field(p, 1) \in Nat /\ Field(p, 2) \in Nat /\ Field(p, 3) \in Nat
      /\ Field(q, 1) \in Nat /\ Field(q, 2) \in Nat /\ Field(q, 3) \in Nat
      /\ Field(p, 1) <= 127 /\ Field(p, 2) <= 127
      /\ Field(q, 1) <= 127 /\ Field(q, 2) <= 127
  BY FieldsOfPath
<1>3. /\ Field(p, 3) = Field(q, 3) /\ Field(p, 2) = Field(q, 2)
      /\ Field(p, 1) = Field(q, 1) /\ k = l
  <2>1. 1024 * (128 * (128 * Field(p, 3) + Field(p, 2)) + Field(p, 1)) + k
          = 1024 * (128 * (128 * Field(q, 3) + Field(q, 2)) + Field(q, 1)) + l
    BY SMT DEF Encode, MAX_KEY, MAX_PREFIX
  <2>2. PICK a \in Nat, b \in Nat, c \in Nat, d \in Nat, e \in Nat, f \in Nat :
           /\ a = Field(p, 3) /\ b = Field(p, 2) /\ c = Field(p, 1)
           /\ d = Field(q, 3) /\ e = Field(q, 2) /\ f = Field(q, 1)
    BY <1>2
  <2>3. b <= 127 /\ c <= 127 /\ e <= 127 /\ f <= 127
    BY <1>2, <2>2
  <2>4. 1024 * (128 * (128 * a + b) + c) + k = 1024 * (128 * (128 * d + e) + f) + l
    BY <2>1, <2>2
  <2>5. 128 * (128 * a + b) + c = 128 * (128 * d + e) + f /\ k = l
    BY <1>1, <2>3, <2>4, SMT
  <2>6. 128 * a + b = 128 * d + e /\ c = f
    BY <2>3, <2>5, SMT
  <2>7. a = d /\ b = e
    BY <2>3, <2>6, SMT
  <2> QED BY <2>2, <2>5, <2>6, <2>7
<1>4. Len(p) = Len(q)
  <2>1. PICK m \in Nat, n \in Nat : m = Len(p) /\ n = Len(q)
    OBVIOUS
  <2>2. /\ m < 1 <=> n < 1
        /\ m < 2 <=> n < 2
        /\ m < 3 <=> n < 3
    BY <1>3, <2>1, FieldsOfPath
  <2> QED BY <2>1, <2>2 DEF MAX_LEVELS
<1>5. ASSUME NEW i \in 1 .. Len(p) PROVE p[i] = q[i]
  <2>1. PICK n \in Nat : n = Len(p)
    OBVIOUS
  <2>2. n <= 3 /\ n = Len(q) /\ i \in Nat /\ 1 <= i /\ i <= n
    BY <1>4, <2>1 DEF MAX_LEVELS
  <2>3. n + 1 - i = 1 \/ n + 1 - i = 2 \/ n + 1 - i = 3
    BY <2>2
  <2>4. Field(p, n + 1 - i) = Field(q, n + 1 - i)
    BY <1>3, <2>3
  <2>5. n + 1 - i <= n /\ n + 1 - (n + 1 - i) = i
    BY <2>2
  <2>6. Field(p, n + 1 - i) = p[i] /\ Field(q, n + 1 - i) = q[i]
    BY <2>1, <2>2, <2>5 DEF Field
  <2> QED BY <2>4, <2>6
<1> QED BY <1>3, <1>4, <1>5

\* Chaining a scope shifts the fields by one (registrar_t, grantor_t).
LEMMA EncodeAppend ==
    ASSUME NEW p \in Seq(Prefixes), Len(p) < MAX_LEVELS, NEW x \in Prefixes
    PROVE  /\ Append(p, x) \in Seq(Prefixes) /\ Len(Append(p, x)) <= MAX_LEVELS
           /\ Encode(Append(p, x)) = make_prefix(Encode(p), x)
<1>1. PICK n \in Nat : n = Len(p)
  OBVIOUS
<1>2. n <= 2 /\ Len(Append(p, x)) = n + 1 /\ Append(p, x) \in Seq(Prefixes)
  BY <1>1 DEF MAX_LEVELS
<1>3. Append(p, x)[n + 1] = x
  BY <1>1
<1>4. x \in Nat
  BY FieldsAssumption DEF MAX_PREFIX
<1>5. \A i \in 1 .. n : Append(p, x)[i] = p[i]
  BY <1>1
<1>6. /\ Field(Append(p, x), 1) = x
      /\ Field(Append(p, x), 2) = Field(p, 1)
      /\ Field(Append(p, x), 3) = Field(p, 2)
      /\ Field(p, 3) = 0
  BY <1>1, <1>2, <1>3, <1>5 DEF Field
<1>7. Field(p, 1) \in Nat /\ Field(p, 2) \in Nat
  BY FieldsOfPath
<1>8. Encode(Append(p, x)) = make_prefix(Encode(p), x)
  BY <1>4, <1>6, <1>7, SMT DEF Encode, make_prefix, MAX_KEY, MAX_PREFIX
<1> QED BY <1>2, <1>8 DEF MAX_LEVELS
-----------------------------------------------------------------------------
(***************************************************************************)
(* The ledger.                                                             *)
(***************************************************************************)
LEMMA Parameters ==
    /\ \A k \in Keys : k \in Nat
    /\ \A z \in Sizes : z \in Nat
    /\ \A a \in Alignments : a \in Nat \ {0}
    /\ \A b \in Bases : b \in Nat \ {0}
  BY FieldsAssumption, SizesAssumption, AlignmentsAssumption

\* What book computes from a request that is not empty.
LEMMA BookedEntry ==
    ASSUME NEW z \in Sizes, NEW a \in Alignments, z # 0
    PROVE  /\ RndUp(z, minimal_alignment) \in Nat
           /\ RndUp(z, minimal_alignment) >= z
           /\ RndUp(z, minimal_alignment) % 64 = 0
           /\ AtLeast(a, minimal_alignment) \in Nat
           /\ AtLeast(a, minimal_alignment) >= 64
           /\ AtLeast(a, minimal_alignment) % 64 = 0
<1>1. z \in Nat /\ a \in Nat \ {0}
  BY Parameters
<1>2. /\ RndUp(z, 64) \in Nat /\ RndUp(z, 64) >= z /\ RndUp(z, 64) % 64 = 0
  BY <1>1, RndUp64
<1>3. 64 % a = 0 \/ a % 64 = 0
  BY AlignmentsAssumption DEF minimal_alignment
<1>4. CASE a >= 64
  <2>1. AtLeast(a, 64) = a
    BY <1>4 DEF AtLeast
  <2>2. a % 64 = 0
    BY <1>1, <1>3, <1>4
  <2> QED BY <1>1, <1>2, <1>4, <2>1, <2>2 DEF minimal_alignment
<1>5. CASE ~ (a >= 64)
  BY <1>1, <1>2, <1>5 DEF AtLeast, minimal_alignment
<1> QED BY <1>4, <1>5

LEMMA InitLedger == Init => LedgerInv
<1> SUFFICES ASSUME Init PROVE LedgerInv
  OBVIOUS
<1>1. TypeOK
  <2>1. \A s \in scopes : s.path = << >> /\ s.prefix = 0
    BY DEF Init
  <2>2. Encode(<< >>) = 0
    BY DEF Encode, Field, MAX_KEY, MAX_PREFIX
  <2> QED BY <2>1, <2>2 DEF Init, TypeOK, minimal_alignment, MAX_LEVELS
<1>2. LedgerOK
  BY DEF Init, LedgerOK
<1> QED BY <1>1, <1>2 DEF LedgerInv

LEMMA ChainStep ==
    ASSUME LedgerInv, NEW s \in scopes, NEW p \in Prefixes, Chain(s, p)
    PROVE  LedgerInv'
<1>1. /\ s.path \in Seq(Prefixes) /\ Len(s.path) < MAX_LEVELS
      /\ s.prefix = Encode(s.path)
  BY DEF LedgerInv, TypeOK, Chain
<1>2. /\ Append(s.path, p) \in Seq(Prefixes)
      /\ Len(Append(s.path, p)) <= MAX_LEVELS
      /\ make_prefix(s.prefix, p) = Encode(Append(s.path, p))
  BY <1>1, EncodeAppend
<1>3. UNCHANGED <<offset_map, size_, base, requests>>
  BY DEF Chain
<1>4. ASSUME NEW t \in scopes'
      PROVE  /\ t.path \in Seq(Prefixes) /\ Len(t.path) <= MAX_LEVELS
             /\ t.prefix = Encode(t.path)
  <2>1. scopes' = scopes \cup {[path |-> Append(s.path, p),
                                prefix |-> make_prefix(s.prefix, p)]}
    BY DEF Chain
  <2>2. CASE t \in scopes
    BY <2>2 DEF LedgerInv, TypeOK
  <2>3. CASE t = [path |-> Append(s.path, p), prefix |-> make_prefix(s.prefix, p)]
    <3>1. t.path = Append(s.path, p) /\ t.prefix = make_prefix(s.prefix, p)
      BY <2>3
    <3> QED BY <1>2, <3>1
  <2> QED BY <2>1, <2>2, <2>3
<1>5. TypeOK'
  BY <1>3, <1>4 DEF LedgerInv, TypeOK
<1>6. LedgerOK'
  BY <1>3 DEF LedgerInv, LedgerOK, EntryOK, SlotEnd
<1> QED BY <1>5, <1>6 DEF LedgerInv

LEMMA GrantStep ==
    ASSUME LedgerInv, NEW b \in Bases, Grant(b)
    PROVE  LedgerInv'
<1>1. UNCHANGED <<offset_map, size_, scopes, requests>>
  BY DEF Grant
<1>2. base' \in Bases \cup {-1, 0}
  BY DEF Grant
<1>3. base' = 0 => size_' = 0
  BY <1>1, Parameters DEF Grant, Size, LedgerInv, TypeOK, minimal_alignment
<1>4. TypeOK'
  BY <1>1, <1>2 DEF LedgerInv, TypeOK
<1>5. LedgerOK'
  BY <1>1, <1>3 DEF LedgerInv, LedgerOK, EntryOK, SlotEnd
<1> QED BY <1>4, <1>5 DEF LedgerInv

LEMMA SumOf64s ==
    ASSUME NEW x \in Nat, NEW y \in Nat, NEW z \in Nat,
           x % 64 = 0, y % 64 = 0, z % 64 = 0, z >= 64
    PROVE  /\ x + y + z - 64 \in Nat /\ (x + y + z - 64) % 64 = 0
           /\ x + y + z - 64 >= x /\ x + y + z - 64 >= x + y
  OBVIOUS

\* Booking keeps the types; the new entry goes behind all others.
LEMMA BookTypes ==
    ASSUME LedgerInv, NEW s \in scopes, NEW k \in Keys, NEW z \in Sizes, NEW a \in Alignments,
           Book(s, k, z, a)
    PROVE  TypeOK'
<1> DEFINE r0 == <<s.path, k>>
<1>1. /\ s.path \in Seq(Prefixes) /\ Len(s.path) <= MAX_LEVELS
      /\ s.prefix = Encode(s.path)
  BY DEF LedgerInv, TypeOK
<1>2. requests' = Set(requests, r0, [size |-> z, alignment |-> a])
  BY DEF Book
<1>u. /\ DOMAIN requests' = DOMAIN requests \cup {r0}
      /\ requests'[r0] = [size |-> z, alignment |-> a]
      /\ \A r \in DOMAIN requests' : r # r0 => r \in DOMAIN requests /\ requests'[r] = requests[r]
  BY <1>2 DEF Set
<1>3. ASSUME NEW r \in DOMAIN requests'
      PROVE  /\ r = <<r[1], r[2]>>
             /\ r[1] \in Seq(Prefixes) /\ Len(r[1]) <= MAX_LEVELS /\ r[2] \in Keys
             /\ requests'[r] \in [size : Sizes, alignment : Alignments]
  <2>1. CASE r = r0
    <3>1. r[1] = s.path /\ r[2] = k
      BY <2>1
    <3>2. requests'[r] = [size |-> z, alignment |-> a]
      BY <1>u, <2>1
    <3> QED BY <1>1, <2>1, <3>1, <3>2
  <2>2. CASE r # r0
    <3>1. r \in DOMAIN requests /\ requests'[r] = requests[r]
      BY <1>u, <2>2
    <3> QED BY <3>1 DEF LedgerInv, TypeOK
  <2> QED BY <2>1, <2>2
<1>4. size_' \in Nat /\ size_' % minimal_alignment = 0
  <2>1. size_ \in Nat /\ size_ % 64 = 0
    BY DEF LedgerInv, TypeOK, minimal_alignment
  <2>2. CASE z = 0
    BY <2>1, <2>2 DEF Book, book, minimal_alignment
  <2>3. CASE z # 0
    <3>1. size_' = size_ + RndUp(z, minimal_alignment)
                     + AtLeast(a, minimal_alignment) - minimal_alignment
      BY <2>3 DEF Book, book
    <3>2. PICK y \in Nat, w \in Nat : /\ y = RndUp(z, minimal_alignment) /\ y % 64 = 0
                                     /\ w = AtLeast(a, minimal_alignment) /\ w % 64 = 0 /\ w >= 64
      BY <2>3, BookedEntry
    <3>3. size_' = size_ + y + w - 64
      BY <3>1, <3>2 DEF minimal_alignment
    <3> QED BY <2>1, <3>2, <3>3, SumOf64s DEF minimal_alignment
  <2> QED BY <2>2, <2>3
<1>5. UNCHANGED <<scopes, base>>
  BY DEF Book
<1>6. base' \in Bases \cup {-1, 0}
  BY <1>5 DEF LedgerInv, TypeOK
<1>7. \A t \in scopes' : /\ t.path \in Seq(Prefixes) /\ Len(t.path) <= MAX_LEVELS
                         /\ t.prefix = Encode(t.path)
  BY <1>5 DEF LedgerInv, TypeOK
<1> QED BY <1>3, <1>4, <1>6, <1>7 DEF TypeOK

LEMMA BookNothing ==
    ASSUME LedgerInv, NEW s \in scopes, NEW k \in Keys, NEW a \in Alignments,
           Book(s, k, 0, a)
    PROVE  LedgerOK'
<1> DEFINE r0 == <<s.path, k>>
<1>1. requests' = Set(requests, r0, [size |-> 0, alignment |-> a])
  BY DEF Book
<1>u. /\ DOMAIN requests' = DOMAIN requests \cup {r0}
      /\ requests'[r0] = [size |-> 0, alignment |-> a]
      /\ \A r \in DOMAIN requests' : r # r0 => r \in DOMAIN requests /\ requests'[r] = requests[r]
  BY <1>1 DEF Set
<1>2. UNCHANGED <<offset_map, size_, base>>
  BY DEF Book, book
<1>3. \A r \in DOMAIN requests : r \in DOMAIN requests'
  BY <1>u
<1>4. \A r \in DOMAIN requests' : requests'[r].size > 0 =>
          r \in DOMAIN requests /\ requests'[r] = requests[r]
  <2> SUFFICES ASSUME NEW r \in DOMAIN requests', requests'[r].size > 0
               PROVE  r \in DOMAIN requests /\ requests'[r] = requests[r]
    OBVIOUS
  <2>1. r # r0
    <3>1. requests'[r0].size = 0
      BY <1>u
    <3> QED BY <3>1
  <2> QED BY <1>u, <2>1
<1>5. \A g \in DOMAIN offset_map' :
          /\ EntryOK(offset_map[g])'
          /\ \E r \in DOMAIN requests' : g = Encode(r[1]) + r[2]
  BY <1>2, <1>3 DEF LedgerInv, LedgerOK, EntryOK, SlotEnd
<1>6. \A r \in DOMAIN requests' : requests'[r].size > 0 =>
          LET g == Encode(r[1]) + r[2]
          IN  /\ g \in DOMAIN offset_map'
              /\ offset_map'[g].size >= requests'[r].size
              /\ offset_map'[g].alignment = AtLeast(requests'[r].alignment, minimal_alignment)
  BY <1>2, <1>4 DEF LedgerInv, LedgerOK
<1>7. /\ \A g, h \in DOMAIN offset_map' :
            \/ g = h
            \/ SlotEnd(offset_map'[g]) <= offset_map'[h].offset
            \/ SlotEnd(offset_map'[h]) <= offset_map'[g].offset
      /\ base' = 0 => size_' = 0
  BY <1>2 DEF LedgerInv, LedgerOK
<1> QED BY <1>5, <1>6, <1>7 DEF LedgerOK

\* The global key of a request is new: this is where the prefixes matter.
LEMMA BookSomething ==
    ASSUME LedgerInv, NEW s \in scopes, NEW k \in Keys, NEW z \in Sizes, NEW a \in Alignments,
           Book(s, k, z, a), z # 0
    PROVE  LedgerOK'
<1> DEFINE r0 == <<s.path, k>>
           g0 == Encode(s.path) + k
           sz == RndUp(z, minimal_alignment)
           al == AtLeast(a, minimal_alignment)
           e0 == [offset |-> size_, size |-> sz, alignment |-> al]
<1>1. /\ s.path \in Seq(Prefixes) /\ Len(s.path) <= MAX_LEVELS
      /\ s.prefix = Encode(s.path)
      /\ size_ \in Nat /\ size_ % 64 = 0
  BY DEF LedgerInv, TypeOK, minimal_alignment
<1>2. /\ requests' = Set(requests, r0, [size |-> z, alignment |-> a])
      /\ offset_map' = Set(offset_map, g0, e0)
      /\ size_' = size_ + sz + al - minimal_alignment
      /\ base = -1 /\ base' = -1
      /\ r0 \notin DOMAIN requests
  BY <1>1 DEF Book, book, make_key
<1>3. /\ sz \in Nat /\ sz >= z /\ sz % 64 = 0 /\ z \in Nat
      /\ al \in Nat /\ al >= 64 /\ al % 64 = 0
  BY BookedEntry, Parameters
<1>4. ASSUME NEW r \in DOMAIN requests, g0 = Encode(r[1]) + r[2]
      PROVE  FALSE
  <2>1. r = <<r[1], r[2]>> /\ r[1] \in Seq(Prefixes) /\ Len(r[1]) <= MAX_LEVELS /\ r[2] \in Keys
    BY DEF LedgerInv, TypeOK
  <2>2. s.path = r[1] /\ k = r[2]
    BY <1>1, <1>4, <2>1, GlobalKeysUnique
  <2>3. r = r0
    BY <2>1, <2>2
  <2> QED BY <1>2, <2>3
<1>5. g0 \notin DOMAIN offset_map
  BY <1>4 DEF LedgerInv, LedgerOK
<1>m. /\ DOMAIN offset_map' = DOMAIN offset_map \cup {g0}
      /\ offset_map'[g0] = e0
      /\ \A g \in DOMAIN offset_map' :
            g # g0 => g \in DOMAIN offset_map /\ offset_map'[g] = offset_map[g]
  <2> HIDE DEF e0, g0
  <2> QED BY <1>2 DEF Set
<1>6. /\ DOMAIN offset_map' = DOMAIN offset_map \cup {g0}
      /\ offset_map'[g0] = e0
      /\ \A g \in DOMAIN offset_map : offset_map'[g] = offset_map[g]
  <2> HIDE DEF e0, g0
  <2> QED BY <1>5, <1>m
<1>7. /\ DOMAIN requests' = DOMAIN requests \cup {r0}
      /\ requests'[r0] = [size |-> z, alignment |-> a]
      /\ \A r \in DOMAIN requests : requests'[r] = requests[r]
  <2>1. /\ DOMAIN requests' = DOMAIN requests \cup {r0}
        /\ requests'[r0] = [size |-> z, alignment |-> a]
        /\ \A r \in DOMAIN requests' :
              r # r0 => r \in DOMAIN requests /\ requests'[r] = requests[r]
    <3> HIDE DEF r0
    <3> QED BY <1>2 DEF Set
  <2> QED BY <1>2, <2>1
<1>8. SlotEnd(e0) = size_' /\ size_' >= size_ /\ size_' \in Nat /\ e0.offset = size_
  <2>1. size_' = size_ + sz + al - 64
    BY <1>2 DEF minimal_alignment
  <2>2. /\ size_ + sz + al - 64 \in Nat /\ size_ + sz + al - 64 >= size_
    <3> HIDE DEF sz, al
    <3> QED BY <1>1, <1>3, SumOf64s
  <2>3. e0.offset = size_ /\ SlotEnd(e0) = size_ + sz + al - 64
    BY DEF SlotEnd, minimal_alignment
  <2> QED BY <2>1, <2>2, <2>3
<1>9. ASSUME NEW g \in DOMAIN offset_map
      PROVE  /\ EntryOK(offset_map[g]) /\ SlotEnd(offset_map[g]) <= size_
             /\ SlotEnd(offset_map[g]) \in Int
  BY DEF LedgerInv, LedgerOK, EntryOK, Entries, SlotEnd, minimal_alignment
<1>10. ASSUME NEW g \in DOMAIN offset_map'
       PROVE  /\ EntryOK(offset_map[g])'
              /\ \E r \in DOMAIN requests' : g = Encode(r[1]) + r[2]
  <2>1. CASE g = g0
    <3>1. offset_map'[g] = e0
      BY <1>6, <2>1
    <3>2. /\ e0.offset = size_ /\ e0.size = sz /\ e0.alignment = al /\ SlotEnd(e0) = size_'
      BY <1>8
    <3>3. e0 \in Entries
      BY <1>1, <1>3 DEF Entries
    <3>4. sz > 0
      BY <1>3
    <3>5. /\ offset_map'[g] \in Entries
          /\ offset_map'[g].offset % 64 = 0 /\ offset_map'[g].alignment % 64 = 0
          /\ offset_map'[g].alignment > 0 /\ offset_map'[g].size > 0
          /\ SlotEnd(offset_map'[g]) <= size_'
      <4> HIDE DEF e0, sz, al
      <4> QED BY <1>1, <1>3, <1>8, <3>1, <3>2, <3>3, <3>4
    <3>6. EntryOK(offset_map[g])'
      BY <3>5 DEF EntryOK, SlotEnd, minimal_alignment
    <3>7. g = Encode(r0[1]) + r0[2] /\ r0 \in DOMAIN requests'
      BY <1>7, <2>1
    <3> QED BY <3>6, <3>7
  <2>2. CASE g # g0
    <3>1. g \in DOMAIN offset_map /\ offset_map'[g] = offset_map[g]
      BY <1>6, <2>2
    <3>2. \E r \in DOMAIN requests : g = Encode(r[1]) + r[2]
      BY <3>1 DEF LedgerInv, LedgerOK
    <3>3. EntryOK(offset_map[g]) /\ SlotEnd(offset_map[g]) <= size_'
      BY <1>1, <1>8, <1>9, <3>1
    <3>4. EntryOK(offset_map[g])'
      BY <3>1, <3>3 DEF EntryOK, SlotEnd
    <3>5. \E r \in DOMAIN requests' : g = Encode(r[1]) + r[2]
      <4> HIDE DEF r0
      <4> QED BY <1>7, <3>2
    <3> QED BY <3>4, <3>5
  <2> QED BY <2>1, <2>2
<1>11. ASSUME NEW g \in DOMAIN offset_map', NEW h \in DOMAIN offset_map'
       PROVE  \/ g = h
              \/ SlotEnd(offset_map'[g]) <= offset_map'[h].offset
              \/ SlotEnd(offset_map'[h]) <= offset_map'[g].offset
  <2>1. CASE g = g0 /\ h # g0
    BY <1>6, <1>8, <1>9, <2>1
  <2>2. CASE g # g0 /\ h = g0
    BY <1>6, <1>8, <1>9, <2>2
  <2>3. CASE g # g0 /\ h # g0
    BY <1>6, <2>3 DEF LedgerInv, LedgerOK
  <2> QED BY <2>1, <2>2, <2>3
<1>12. ASSUME NEW r \in DOMAIN requests', requests'[r].size > 0
       PROVE  /\ Encode(r[1]) + r[2] \in DOMAIN offset_map'
              /\ offset_map'[Encode(r[1]) + r[2]].size >= requests'[r].size
              /\ offset_map'[Encode(r[1]) + r[2]].alignment
                   = AtLeast(requests'[r].alignment, minimal_alignment)
  <2>1. CASE r = r0
    <3>1. Encode(r[1]) + r[2] = g0
      BY <2>1
    <3> QED BY <1>3, <1>6, <1>7, <2>1, <3>1
  <2>2. CASE r # r0
    <3>1. r \in DOMAIN requests /\ requests'[r] = requests[r]
      BY <1>7, <2>2
    <3>2. Encode(r[1]) + r[2] \in DOMAIN offset_map
      BY <1>12, <3>1 DEF LedgerInv, LedgerOK
    <3> QED BY <1>6, <1>12, <3>1, <3>2 DEF LedgerInv, LedgerOK
  <2> QED BY <2>1, <2>2
<1> QED BY <1>2, <1>10, <1>11, <1>12 DEF LedgerOK

LEMMA BookStep ==
    ASSUME LedgerInv, NEW s \in scopes, NEW k \in Keys, NEW z \in Sizes, NEW a \in Alignments,
           Book(s, k, z, a)
    PROVE  LedgerInv'
<1>1. CASE z = 0
  <2>1. Book(s, k, 0, a)
    BY <1>1
  <2> QED BY <2>1, BookTypes, BookNothing DEF LedgerInv
<1>2. CASE z # 0
  BY <1>2, BookTypes, BookSomething DEF LedgerInv
<1> QED BY <1>1, <1>2

LEMMA LedgerStep == LedgerInv /\ [Next]_vars => LedgerInv'
<1> SUFFICES ASSUME LedgerInv, [Next]_vars PROVE LedgerInv'
  OBVIOUS
<1>1. CASE \E s \in scopes, p \in Prefixes : Chain(s, p)
  BY <1>1, ChainStep
<1>2. CASE \E s \in scopes, k \in Keys, z \in Sizes, a \in Alignments : Book(s, k, z, a)
  BY <1>2, BookStep
<1>3. CASE \E b \in Bases : Grant(b)
  BY <1>3, GrantStep
<1>4. CASE UNCHANGED vars
  BY <1>4 DEF vars, LedgerInv, TypeOK, LedgerOK, EntryOK, SlotEnd
<1> QED BY <1>1, <1>2, <1>3, <1>4 DEF Next, Run

\* The ledger of every registry: slots are disjoint, inside the booked bytes,
\* and there is one for every request that is not empty (registry_t::book).
THEOREM LedgerHolds == Spec => []LedgerInv
  BY InitLedger, LedgerStep, PTL DEF Spec

-----------------------------------------------------------------------------
(***************************************************************************)
(* What get returns.                                                       *)
(***************************************************************************)
\* A buffer stays inside its slot, whatever its alignment skips.
LEMMA BufferInSlot ==
    ASSUME LedgerInv, base # -1, NEW s \in scopes, NEW k \in Requested(s)
    PROVE  LET e == offset_map[make_key(s.prefix, k)]
               b == RndUp(base, 64)
               r == requests[<<s.path, k>>]
           IN  /\ make_key(s.prefix, k) = Encode(s.path) + k
               /\ make_key(s.prefix, k) \in DOMAIN offset_map
               /\ e.offset \in Nat /\ SlotEnd(e) \in Nat /\ SlotEnd(e) <= size_
               /\ base \in Nat /\ b \in Nat /\ base <= b /\ b <= base + 63
               /\ Ptr(s, k) \in Nat /\ r.size \in Nat
               /\ b + e.offset <= Ptr(s, k)
               /\ Ptr(s, k) + r.size <= b + SlotEnd(e)
               /\ Ptr(s, k) % r.alignment = 0
               /\ size_ > 0
<1> DEFINE g == make_key(s.prefix, k)
           r == requests[<<s.path, k>>]
           e == offset_map[g]
           b == RndUp(base, 64)
<1>1. k \in Keys /\ <<s.path, k>> \in DOMAIN requests /\ r.size > 0
  BY DEF Requested
<1>2. g = Encode(s.path) + k
  BY DEF LedgerInv, TypeOK, make_key
<1>3. <<s.path, k>>[1] = s.path /\ <<s.path, k>>[2] = k
  OBVIOUS
<1>4. /\ g \in DOMAIN offset_map /\ e.size >= r.size
      /\ e.alignment = AtLeast(r.alignment, 64)
  BY <1>1, <1>2, <1>3 DEF LedgerInv, LedgerOK, minimal_alignment
<1>5. PICK off \in Nat, sz \in Nat, al \in Nat :
          /\ off = e.offset /\ sz = e.size /\ al = e.alignment
          /\ off % 64 = 0 /\ al % 64 = 0 /\ al > 0 /\ sz > 0
          /\ SlotEnd(e) = off + sz + al - 64 /\ SlotEnd(e) <= size_
  BY <1>4 DEF LedgerInv, LedgerOK, EntryOK, Entries, SlotEnd, minimal_alignment
<1>6. r.size \in Nat /\ r.alignment \in Nat \ {0} /\ r.alignment \in Alignments
  BY <1>1, Parameters DEF LedgerInv, TypeOK
<1>7. al >= 64 /\ off + sz + al - 64 \in Nat /\ size_ \in Nat /\ size_ > 0
  <2>1. size_ \in Nat
    BY DEF LedgerInv, TypeOK
  <2>2. al >= 64
    BY <1>5
  <2>3. off + sz + al - 64 <= size_
    BY <1>5
  <2> HIDE DEF e
  <2> QED BY <1>5, <2>1, <2>2, <2>3
<1>8. base \in Nat /\ base # 0
  <2>1. base # 0
    BY <1>7 DEF LedgerInv, LedgerOK
  <2> QED BY <2>1, Parameters DEF LedgerInv, TypeOK
<1>9. b \in Nat /\ b % 64 = 0 /\ base <= b /\ b <= base + 63
  BY <1>8, RndUp64
<1>10. PICK n \in Nat : n = b + off /\ n % 64 = 0
  BY <1>5, <1>9
<1>11. Ptr(s, k) = RndUp(n, al)
  BY <1>4, <1>5, <1>8, <1>10 DEF Ptr, get, align_ptr, minimal_alignment
<1>12. PICK p \in Nat : /\ p = Ptr(s, k) /\ n <= p /\ p <= n + al - 64 /\ p % al = 0
                        /\ p % 64 = 0
  <2>0. al \in Nat \ {0}
    BY <1>5
  <2>1. /\ RndUp(n, al) \in Nat /\ n <= RndUp(n, al) /\ RndUp(n, al) % al = 0
        /\ \E q \in Nat : RndUp(n, al) = al * q
    BY <2>0, RndUpBounds
  <2>2. RndUp(n, al) <= n + al - 64
    BY <2>0, <1>5, <1>10, RndUpAligned
  <2>3. RndUp(n, al) % 64 = 0
    <3>1. PICK c \in Nat : al = 64 * c
      BY <1>5, MultipleOf64
    <3>2. PICK q \in Nat : RndUp(n, al) = al * q
      BY <2>1
    <3>3. PICK d \in Nat : d = c * q
      BY <3>1, <3>2
    <3>4. RndUp(n, al) = 64 * d
      BY <3>1, <3>2, <3>3
    <3> QED BY <3>4
  <2> QED BY <1>11, <2>1, <2>2, <2>3
<1>13. p % r.alignment = 0
  <2>1. CASE r.alignment >= 64
    BY <1>4, <1>5, <1>6, <1>12, <2>1 DEF AtLeast
  <2>2. CASE ~ (r.alignment >= 64)
    <3>1. 64 % r.alignment = 0
      BY <1>6, <2>2, AlignmentsAssumption DEF minimal_alignment
    <3> QED BY <1>6, <1>12, <3>1, DividesTrans
  <2> QED BY <2>1, <2>2
<1>14. b + off <= p /\ p + r.size <= b + (off + sz + al - 64)
  BY <1>4, <1>5, <1>6, <1>9, <1>10, <1>12
<1> HIDE DEF g, r, e, b
<1>15. /\ g = Encode(s.path) + k /\ g \in DOMAIN offset_map
       /\ e.offset \in Nat /\ SlotEnd(e) \in Nat /\ SlotEnd(e) <= size_
       /\ base \in Nat /\ b \in Nat /\ base <= b /\ b <= base + 63
       /\ Ptr(s, k) \in Nat /\ r.size \in Nat
       /\ b + e.offset <= Ptr(s, k)
       /\ Ptr(s, k) + r.size <= b + SlotEnd(e)
       /\ Ptr(s, k) % r.alignment = 0
       /\ size_ > 0
  BY <1>2, <1>4, <1>5, <1>6, <1>7, <1>8, <1>9, <1>12, <1>13, <1>14
<1> QED BY <1>15 DEF g, r, e, b

LEMMA ServedFromLedger == LedgerInv => EveryRequestServed
<1> SUFFICES ASSUME LedgerInv, base # -1, NEW s \in scopes, NEW k \in Requested(s)
             PROVE  /\ Ptr(s, k) % requests[<<s.path, k>>].alignment = 0
                    /\ base <= Ptr(s, k)
                    /\ Ptr(s, k) + requests[<<s.path, k>>].size <= base + Size
  BY DEF EveryRequestServed
<1>1. Size = size_ + 63 /\ size_ \in Nat
  <2>1. size_ > 0
    BY BufferInSlot
  <2>2. size_ \in Nat
    BY DEF LedgerInv, TypeOK
  <2> QED BY <2>1, <2>2 DEF Size, minimal_alignment
<1> QED BY <1>1, BufferInSlot

LEMMA DisjointFromLedger == LedgerInv => BuffersDisjoint
<1> SUFFICES ASSUME LedgerInv, base # -1, NEW s \in scopes, NEW t \in scopes,
                    NEW k \in Requested(s), NEW l \in Requested(t), ~ (s.path = t.path /\ k = l)
             PROVE  \/ Ptr(s, k) + requests[<<s.path, k>>].size <= Ptr(t, l)
                    \/ Ptr(t, l) + requests[<<t.path, l>>].size <= Ptr(s, k)
  BY DEF BuffersDisjoint
<1> DEFINE g == make_key(s.prefix, k)
           h == make_key(t.prefix, l)
<1>1. /\ s.path \in Seq(Prefixes) /\ Len(s.path) <= MAX_LEVELS
      /\ t.path \in Seq(Prefixes) /\ Len(t.path) <= MAX_LEVELS
      /\ k \in Keys /\ l \in Keys
  BY DEF LedgerInv, TypeOK, Requested
<1>2. /\ g = Encode(s.path) + k /\ g \in DOMAIN offset_map
      /\ h = Encode(t.path) + l /\ h \in DOMAIN offset_map
  BY BufferInSlot
<1>3. g # h
  BY <1>1, <1>2, GlobalKeysUnique
<1>4. \/ SlotEnd(offset_map[g]) <= offset_map[h].offset
      \/ SlotEnd(offset_map[h]) <= offset_map[g].offset
  BY <1>2, <1>3 DEF LedgerInv, LedgerOK
<1>5. /\ offset_map[g].offset \in Nat /\ SlotEnd(offset_map[g]) \in Nat
      /\ RndUp(base, 64) \in Nat /\ Ptr(s, k) \in Nat /\ requests[<<s.path, k>>].size \in Nat
      /\ RndUp(base, 64) + offset_map[g].offset <= Ptr(s, k)
      /\ Ptr(s, k) + requests[<<s.path, k>>].size <= RndUp(base, 64) + SlotEnd(offset_map[g])
  BY BufferInSlot
<1>6. /\ offset_map[h].offset \in Nat /\ SlotEnd(offset_map[h]) \in Nat
      /\ Ptr(t, l) \in Nat /\ requests[<<t.path, l>>].size \in Nat
      /\ RndUp(base, 64) + offset_map[h].offset <= Ptr(t, l)
      /\ Ptr(t, l) + requests[<<t.path, l>>].size <= RndUp(base, 64) + SlotEnd(offset_map[h])
  BY BufferInSlot
<1> QED BY <1>4, <1>5, <1>6

\* Every block finds its buffers inside the scratchpad and aligned, wherever
\* the scratchpad starts (registry_t::get, registry_t::size).
THEOREM RequestsServed == Spec => []EveryRequestServed
  BY LedgerHolds, ServedFromLedger, PTL

\* No two blocks, and no two keys of a block, share a byte.
THEOREM NoOverlap == Spec => []BuffersDisjoint
  BY LedgerHolds, DisjointFromLedger, PTL
=============================================================================

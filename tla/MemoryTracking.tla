--------------------------- MODULE MemoryTracking ---------------------------
(***************************************************************************)
(* The ledger of a scratchpad: src/common/memory_tracking.hpp.             *)
(*                                                                         *)
(* When a primitive descriptor is created, the implementation and the      *)
(* blocks it is built from (reducers) book the buffers they need.  Sizes   *)
(* and offsets are fixed then, without any address.  When the primitive    *)
(* runs, it gets one base address and every block asks for its buffers.    *)
(*                                                                         *)
(* A scope stands for a registrar_t, and after Grant for the grantor_t     *)
(* with the same chain of prefixes: both compute the same prefix_.  An     *)
(* address is a number; 0 is the null pointer.                             *)
(***************************************************************************)
EXTENDS Integers, Sequences, FiniteSets

CONSTANTS
    Keys,          \* local keys that are booked
    Prefixes,      \* prefixes by which scopes are chained
    Sizes,         \* sizes in bytes that are asked for
    Alignments,    \* alignments that are asked for
    Bases,         \* addresses at which a scratchpad may start
    MaxBooked,     \* bound: number of calls of book
    MaxScopes      \* bound: number of scopes

MAX_KEY == 1024
MAX_PREFIX == 128
MAX_LEVELS == 3         \* "max # of levels: 3 + 1 (base_level)"
minimal_alignment == 64

\* What the code relies on without checking it: keys and prefixes fit their
\* fields (0 is key_none and prefix_none), alignments are powers of two.
ASSUME FieldsAssumption ==
    /\ Keys \subseteq 1 .. MAX_KEY - 1
    /\ Prefixes \subseteq 1 .. MAX_PREFIX - 1
ASSUME SizesAssumption ==
    /\ Sizes \subseteq Nat
    /\ Bases \subseteq Nat \ {0}
    /\ MaxBooked \in Nat /\ MaxScopes \in Nat
ASSUME AlignmentsAssumption ==
    \A a \in Alignments : /\ a \in Nat \ {0}
                          /\ minimal_alignment % a = 0 \/ a % minimal_alignment = 0

VARIABLES
    offset_map,    \* global key -> [offset, size, alignment]
    size_,         \* bytes booked, without the slack for the base
    scopes,        \* scopes made so far: [path, prefix]
    base,          \* base address; -1 while buffers are booked
    requests       \* history: <<path, key>> -> [size, alignment] as asked for

vars == <<offset_map, size_, scopes, base, requests>>

-----------------------------------------------------------------------------
RndUp(a, b) == ((a + b - 1) \div b) * b
AtLeast(a, b) == IF a >= b THEN a ELSE b

\* For powers of two the mask of align_ptr is a round-up.
align_ptr(ptr, alignment) == RndUp(ptr, alignment)

make_key(prefix, key) == prefix + key

\* Mutant: the prefixes of all levels share one field.
FlatPrefix(parent, prefix) == parent + MAX_KEY * prefix

\* At most MAX_LEVELS levels: the result fits the 32 bits of key_t.
make_prefix(parent, prefix) == MAX_PREFIX * parent + MAX_KEY * prefix

\* Mutant: no slack for the base.
SizeNoSlack == size_

Size == IF size_ > 0 THEN size_ + minimal_alignment - 1 ELSE 0

get(key, base_ptr) ==
    IF base_ptr = 0 \/ key \notin DOMAIN offset_map THEN 0
    ELSE align_ptr(align_ptr(base_ptr, minimal_alignment) + offset_map[key].offset,
                   offset_map[key].alignment)

-----------------------------------------------------------------------------
Init ==
    /\ offset_map = << >>
    /\ size_ = 0
    /\ scopes = {[path |-> << >>, prefix |-> 0]}
    /\ base = -1
    /\ requests = << >>

\* A block gets a scope of its own.
Chain(s, p) ==
    /\ base = -1
    /\ Len(s.path) < MAX_LEVELS
    /\ Cardinality(scopes) < MaxScopes
    /\ scopes' = scopes \cup {[path |-> Append(s.path, p),
                               prefix |-> make_prefix(s.prefix, p)]}
    /\ UNCHANGED <<offset_map, size_, base, requests>>

Set(f, x, v) == [y \in DOMAIN f \cup {x} |-> IF y = x THEN v ELSE f[y]]

\* Mutant: the bytes that alignment may skip are not booked.
BookNoSlack(key, size, alignment) ==
    IF size = 0 THEN UNCHANGED <<offset_map, size_>>
    ELSE LET sz == RndUp(size, minimal_alignment)
             al == AtLeast(alignment, minimal_alignment)
         IN  /\ offset_map' = Set(offset_map, key,
                                  [offset |-> size_, size |-> sz, alignment |-> al])
             /\ size_' = size_ + sz

\* An entry for a key that is booked already would be replaced: only an
\* assertion speaks against it.
book(key, size, alignment) ==
    IF size = 0 THEN UNCHANGED <<offset_map, size_>>
    ELSE LET sz == RndUp(size, minimal_alignment)
             al == AtLeast(alignment, minimal_alignment)
         IN  /\ offset_map' = Set(offset_map, key,
                                  [offset |-> size_, size |-> sz, alignment |-> al])
             /\ size_' = size_ + sz + al - minimal_alignment

\* Every block books each of its keys at most once.
Book(s, k, size, alignment) ==
    /\ base = -1
    /\ Cardinality(DOMAIN requests) < MaxBooked
    /\ <<s.path, k>> \notin DOMAIN requests
    /\ book(make_key(s.prefix, k), size, alignment)
    /\ requests' = Set(requests, <<s.path, k>>, [size |-> size, alignment |-> alignment])
    /\ UNCHANGED <<scopes, base>>

\* The scratchpad is allocated, by the library or the user, if one is needed.
Grant(b) ==
    /\ base = -1
    /\ base' = IF Size = 0 THEN 0 ELSE b
    /\ UNCHANGED <<offset_map, size_, scopes, requests>>

\* The primitive runs as often as the user likes; nothing is booked any more.
Run == base # -1 /\ UNCHANGED vars

Next ==
    \/ \E s \in scopes :
          \/ \E p \in Prefixes : Chain(s, p)
          \/ \E k \in Keys, size \in Sizes, a \in Alignments : Book(s, k, size, a)
    \/ \E b \in Bases : Grant(b)
    \/ Run

Spec == Init /\ [][Next]_vars

-----------------------------------------------------------------------------
\* What the block of scope s gets for key k, and the bytes it may use there.
Ptr(s, k) == get(make_key(s.prefix, k), base)
Requested(s) == {k \in Keys : /\ <<s.path, k>> \in DOMAIN requests
                              /\ requests[<<s.path, k>>].size > 0}

\* Every buffer lies inside the scratchpad, at the alignment that was asked
\* for, wherever the scratchpad starts (registry_t::book, get, size).
EveryRequestServed ==
    base # -1 => \A s \in scopes : \A k \in Requested(s) :
        LET r == requests[<<s.path, k>>]
        IN  /\ Ptr(s, k) % r.alignment = 0
            /\ base <= Ptr(s, k)
            /\ Ptr(s, k) + r.size <= base + Size

\* No two buffers overlap, whichever blocks booked them: prefixes keep keys
\* apart, and alignment moves no buffer onto its neighbour.
BuffersDisjoint ==
    base # -1 => \A s, t \in scopes : \A k \in Requested(s), l \in Requested(t) :
        \/ s.path = t.path /\ k = l
        \/ Ptr(s, k) + requests[<<s.path, k>>].size <= Ptr(t, l)
        \/ Ptr(t, l) + requests[<<t.path, l>>].size <= Ptr(s, k)

-----------------------------------------------------------------------------
(***************************************************************************)
(* The inductive invariant.                                                *)
(***************************************************************************)
\* The i-th prefix of a path counted from its end; 0 beyond its start.
Field(path, i) == IF i <= Len(path) THEN path[Len(path) + 1 - i] ELSE 0

\* The prefix of a scope, field by field.
Encode(path) == MAX_KEY * (MAX_PREFIX * (MAX_PREFIX * Field(path, 3) + Field(path, 2))
                             + Field(path, 1))

Entries == [offset : Nat, size : Nat, alignment : Nat]

\* A slot holds an entry with all that alignment may skip.
SlotEnd(e) == e.offset + e.size + e.alignment - minimal_alignment

EntryOK(e) ==
    /\ e \in Entries
    /\ e.offset % minimal_alignment = 0
    /\ e.alignment % minimal_alignment = 0
    /\ e.alignment > 0 /\ e.size > 0
    /\ SlotEnd(e) <= size_

\* Scopes carry the prefix of their path; size_ stays a multiple of 64.
TypeOK ==
    /\ size_ \in Nat /\ size_ % minimal_alignment = 0
    /\ base \in Bases \cup {-1, 0}
    /\ \A s \in scopes : /\ s.path \in Seq(Prefixes) /\ Len(s.path) <= MAX_LEVELS
                         /\ s.prefix = Encode(s.path)
    /\ \A r \in DOMAIN requests :
          /\ r = <<r[1], r[2]>>
          /\ r[1] \in Seq(Prefixes) /\ Len(r[1]) <= MAX_LEVELS /\ r[2] \in Keys
          /\ requests[r] \in [size : Sizes, alignment : Alignments]

\* Slots are inside the booked bytes and disjoint, and there is one for every
\* request and no other.
LedgerOK ==
    /\ \A g \in DOMAIN offset_map :
          /\ EntryOK(offset_map[g])
          /\ \E r \in DOMAIN requests : g = Encode(r[1]) + r[2]
    /\ \A g, h \in DOMAIN offset_map :
          \/ g = h
          \/ SlotEnd(offset_map[g]) <= offset_map[h].offset
          \/ SlotEnd(offset_map[h]) <= offset_map[g].offset
    /\ \A r \in DOMAIN requests : requests[r].size > 0 =>
          LET g == Encode(r[1]) + r[2]
          IN  /\ g \in DOMAIN offset_map
              /\ offset_map[g].size >= requests[r].size
              /\ offset_map[g].alignment = AtLeast(requests[r].alignment, minimal_alignment)
    /\ base = 0 => size_ = 0

\* The invariant from which the two properties follow (registry_t as a whole).
LedgerInv == TypeOK /\ LedgerOK
=============================================================================

---------------------------- MODULE PrimitiveCache ----------------------------
(***************************************************************************)
(* Creating, running and destroying primitives: dnnl_engine::get_primitive *)
(* (common/engine.hpp) with the LRU cache (common/primitive_cache.hpp),    *)
(* the wrapper dnnl_primitive (common/primitive.cpp) and the scratchpads   *)
(* of the library mode (common/scratchpad.cpp).                            *)
(*                                                                         *)
(* An implementation (primitive_impl_t) is shared by the cache and by all  *)
(* wrappers that were created from equal descriptors; it may own wrappers  *)
(* itself: the constructor of a deconvolution creates a convolution, that  *)
(* of a sum its reorders.  A wrapper has a scratchpad: a buffer of its own *)
(* or a reference to the global scratchpad, whose pointer, size and        *)
(* reference count are thread-local.                                       *)
(*                                                                         *)
(* Users are well-behaved: each thread executes and destroys the           *)
(* primitives it created, and none while it is running.                    *)
(***************************************************************************)
EXTENDS Integers, SequencesExt, TLC

CONSTANTS Threads,     \* user threads, numbered from 1
          Keys,        \* primitive_hashing::key_t, up to equality
          Nested,      \* Nested[k]: what the constructor of k creates
          Need,        \* Need[k]: scratchpad_size(scratchpad_mode::library)
          Global,      \* keys declared with USE_GLOBAL_SCRATCHPAD
          Failing,     \* keys whose init() fails
          Concurrent,  \* DNNL_ENABLE_CONCURRENT_EXEC
          Programs,    \* records: the threads of a program, the keys it uses, its
                       \* DNNL_CACHE_CAPACITY, and as a bound how many primitives
                       \* a thread has at a time
          MaxIds       \* bound: objects alive at a time

ASSUME ThreadsAssumption == Threads \subseteq Nat \ {0}
ASSUME KeyAssumption == Global \subseteq Keys /\ Failing \subseteq Keys
ASSUME NeedAssumption == Need \in [Keys -> Nat]
ASSUME BoundAssumption == MaxIds \in Nat
ASSUME ProgramAssumption ==
    \A p \in Programs : /\ p.threads \subseteq Threads /\ p.keys \subseteq Keys
                        /\ p.capacity \in Nat /\ p.owned \in Nat

\* Nested primitives own none, and do not fail: the constructors that create
\* them ignore the status.
ASSUME NestedAssumption ==
    /\ Nested \in [Keys -> Seq(Keys)]
    /\ \A k \in Keys : \A i \in DOMAIN Nested[k] :
          Nested[Nested[k][i]] = <<>> /\ Nested[k][i] \notin Failing

VARIABLES program,   \* the program under way
          owner,     \* thread that holds recursive_mutex_, or None
          depth,     \* how many times it holds it
          list,      \* cache_list_, most recently used first
          mapper,    \* cache_mapper_: key to implementation
          impls,     \* impls[i]: key and nested wrappers of implementation i
          prims,     \* prims[p]: implementation and scratchpad of wrapper p, and
                     \* the thread that created it
          mine,      \* mine[t]: wrappers that user thread t has
          stack,     \* stack[t]: calls of get_primitive, innermost first
          running,   \* running[t]: the wrapper thread t executes, or None
          size,      \* size[t]: size_ of the global scratchpad of thread t
          count      \* count[t]: reference_count_, modulo 2^32

cache == <<list, mapper>>
lock == <<owner, depth>>
objects == <<impls, prims>>
scratchpad == <<size, count>>
vars == <<program, lock, cache, objects, mine, stack, running, scratchpad>>

Capacity == program.capacity

None == 0
Ids == 1 .. MaxIds
Top(t) == Head(stack[t])
At(t, place) == stack[t] # <<>> /\ Top(t).at = place
Goto(t, frame) == stack' = [stack EXCEPT ![t] = <<frame>> \o Tail(@)]

\* A new object i of record r.
Added(f, i, r) == [x \in DOMAIN f \cup {i} |-> IF x = i THEN r ELSE f[x]]

SmallestOf(S) == CHOOSE i \in S : \A j \in S : i <= j

Frame(k) == [key |-> k, at |-> "lock", hit |-> FALSE, impl |-> None,
             made |-> <<>>, prim |-> None]

Key(p) == impls[prims[p].impl].key

Init == /\ program \in Programs
        /\ owner = None /\ depth = 0
        /\ list = <<>> /\ mapper = <<>>
        /\ impls = <<>> /\ prims = <<>>
        /\ mine = [t \in Threads |-> {}]
        /\ stack = [t \in Threads |-> <<>>]
        /\ running = [t \in Threads |-> None]
        /\ size = [t \in Threads |-> 0]
        /\ count = [t \in Threads |-> 0]

------------------------------------------------------------------------------
(* The mutex, the objects and the scratchpads.                             *)

\* Mutant: no mutex.
CanAlwaysLock(t) == TRUE

\* std::recursive_mutex
CanLock(t) == owner \in {None, t}

Unlock(t) == /\ depth' = depth - 1
             /\ owner' = IF depth = 1 THEN None ELSE t

\* What the users, the calls under way and the cache refer to.
Frames(stk) == UNION { ToSet(stk[u]) : u \in Threads }

HeldPrims(stk, mn) ==
    (UNION { mn[u] \cup ({running[u]} \ {None}) : u \in Threads })
    \cup UNION { ToSet(f.made) \cup ({f.prim} \ {None}) : f \in Frames(stk) }

HeldImpls(lst, stk) ==
    { e.impl : e \in ToSet(lst) } \cup ({ f.impl : f \in Frames(stk) } \ {None})

\* What is reachable from the wrappers ps and the implementations is.
LivePrims(ps, is) ==
    ps \cup UNION { ToSet(impls[i].nested) : i \in is \cup { prims[p].impl : p \in ps } }

\* Mutant: wrappers do not keep their implementation alive.
CachedImpls(ps, is) == is

LiveImpls(ps, is) == is \cup { prims[p].impl : p \in LivePrims(ps, is) }

\* Thread t has dropped references: shared_ptr and delete destroy what is not
\* reachable any more, and ~global_scratchpad_t gives up references of the
\* thread that runs it.  One that reaches zero frees the buffer.
Sweep(t, lst, stk, mn) ==
    LET ps == HeldPrims(stk, mn)
        is == HeldImpls(lst, stk)
        dropped == Cardinality({ p \in DOMAIN prims \ LivePrims(ps, is) :
                                   prims[p].holder = "global" })
    IN  /\ prims' = Restrict(prims, LivePrims(ps, is))
        /\ impls' = Restrict(impls, LiveImpls(ps, is))
        /\ count' = [count EXCEPT ![t] = @ - dropped]
        /\ size' = IF 0 \in count'[t] .. count[t] - 1
                   THEN [size EXCEPT ![t] = 0] ELSE size

\* Mutant: only a buffer that has been allocated anew is counted.
TakeGrown(t, need) ==
    /\ size' = [size EXCEPT ![t] = IF need > @ THEN need ELSE @]
    /\ count' = [count EXCEPT ![t] = IF need > size[t] THEN @ + 1 ELSE @]

\* Mutant: every primitive gets a buffer of its size.
TakeExact(t, need) ==
    /\ size' = [size EXCEPT ![t] = need]
    /\ count' = [count EXCEPT ![t] = @ + 1]

\* global_scratchpad_t(): a larger buffer replaces the one there is.
Take(t, need) ==
    /\ size' = [size EXCEPT ![t] = IF need > @ THEN need ELSE @]
    /\ count' = [count EXCEPT ![t] = @ + 1]

------------------------------------------------------------------------------
(* get_primitive                                                           *)

\* dnnl_primitive_create for key k.
Call(t, k) ==
    /\ stack[t] = <<>> /\ running[t] = None
    /\ Cardinality(mine[t]) < program.owned
    /\ stack' = [stack EXCEPT ![t] = <<Frame(k)>>]
    /\ UNCHANGED <<lock, cache, objects, mine, running, scratchpad>>

Lock(t) ==
    /\ At(t, "lock") /\ CanLock(t)
    /\ owner' = t /\ depth' = depth + 1
    /\ Goto(t, [Top(t) EXCEPT !.at = "lookup"])
    /\ UNCHANGED <<cache, objects, mine, running, scratchpad>>

\* A turn of waiting for the mutex.
Wait(t) == At(t, "lock") /\ ~CanLock(t) /\ UNCHANGED vars

\* splice(): the node of key k moves to the front.
ToFront(l, k) == LET i == CHOOSE i \in DOMAIN l : l[i].key = k
                 IN  <<l[i]>> \o RemoveAt(l, i)

\* get() of the cache.  A hit is moved to the front and the mutex unlocked;
\* the reference to the implementation keeps it alive from here on.
Lookup(t) ==
    /\ At(t, "lookup")
    /\ LET k == Top(t).key IN
       IF Capacity > 0 /\ k \in DOMAIN mapper
       THEN /\ list' = ToFront(list, k)
            /\ Goto(t, [Top(t) EXCEPT !.at = "wrap", !.hit = TRUE,
                                      !.impl = mapper[k]])
            /\ Unlock(t)
       ELSE /\ Goto(t, [Top(t) EXCEPT !.at = "construct"])
            /\ UNCHANGED <<lock, list>>
    /\ UNCHANGED <<mapper, objects, mine, running, scratchpad>>

\* create_primitive_impl(): the constructor first creates what it needs.
Construct(t) ==
    /\ At(t, "construct")
    /\ LET f == Top(t) IN
       IF Len(f.made) < Len(Nested[f.key])
       THEN /\ stack' = [stack EXCEPT ![t] =
                            <<Frame(Nested[f.key][Len(f.made) + 1])>> \o @]
            /\ UNCHANGED impls
       ELSE LET i == SmallestOf(Ids \ DOMAIN impls) IN
            /\ Ids # DOMAIN impls   \* bound
            /\ impls' = Added(impls, i, [key |-> f.key, nested |-> f.made])
            /\ Goto(t, [f EXCEPT !.at = "wrap", !.impl = i, !.made = <<>>])
    /\ UNCHANGED <<lock, cache, prims, mine, running, scratchpad>>

\* dnnl_primitive()
Wrap(t) ==
    /\ At(t, "wrap")
    /\ LET f == Top(t)
           p == SmallestOf(Ids \ DOMAIN prims)
           holder == IF Need[f.key] = 0 THEN "none"
                     ELSE IF f.key \in Global /\ ~Concurrent THEN "global"
                     ELSE "own"
       IN  /\ Ids # DOMAIN prims   \* bound
           /\ prims' = Added(prims, p, [impl |-> f.impl, holder |-> holder, by |-> t])
           /\ IF holder = "global" THEN Take(t, Need[f.key])
              ELSE UNCHANGED scratchpad
           /\ Goto(t, [f EXCEPT !.at = IF f.hit THEN "return" ELSE "init",
                                !.impl = None, !.prim = p])
    /\ UNCHANGED <<lock, cache, impls, mine, running>>

\* Mutant: the error path keeps the mutex.
InitFailsLocked(t) ==
    /\ At(t, "init") /\ Top(t).key \in Failing
    /\ stack' = [stack EXCEPT ![t] = <<>>]
    /\ Sweep(t, list, stack', mine)
    /\ UNCHANGED <<lock, cache, mine, running>>

\* init() fails: the mutex is unlocked, then the wrapper deleted.
InitFails(t) ==
    /\ At(t, "init") /\ Top(t).key \in Failing
    /\ stack' = [stack EXCEPT ![t] = <<>>]
    /\ Unlock(t)
    /\ Sweep(t, list, stack', mine)
    /\ UNCHANGED <<cache, mine, running>>

\* The least recently used entry leaves the list and the mapper.
Evict(l, m) == <<Front(l), Restrict(m, DOMAIN m \ {Last(l).key})>>

\* insert() leaves the mapper alone if the key is in it.
Insert(m, k, i) ==
    [x \in DOMAIN m \cup {k} |-> IF x \in DOMAIN m THEN m[x] ELSE i]

\* init() succeeds, and add() puts the implementation into the cache.
InitAndAdd(t) ==
    /\ At(t, "init") /\ Top(t).key \notin Failing
    /\ LET f == Top(t)
           i == prims[f.prim].impl
           room == IF Len(list) >= Capacity THEN Evict(list, mapper)
                   ELSE <<list, mapper>>
       IN  IF Capacity = 0 THEN UNCHANGED cache
           ELSE /\ list' = <<[key |-> f.key, impl |-> i]>> \o room[1]
                /\ mapper' = Insert(room[2], f.key, i)
    /\ Goto(t, [Top(t) EXCEPT !.at = "return"])
    /\ Unlock(t)
    /\ Sweep(t, list', stack', mine)
    /\ UNCHANGED <<mine, running>>

\* The wrapper goes to the constructor that asked for it or to the user.
Return(t) ==
    /\ At(t, "return")
    /\ LET p == Top(t).prim
           rest == Tail(stack[t])
       IN  IF rest = <<>>
           THEN /\ stack' = [stack EXCEPT ![t] = <<>>]
                /\ mine' = [mine EXCEPT ![t] = @ \cup {p}]
           ELSE /\ stack' = [stack EXCEPT ![t] =
                        <<[Head(rest) EXCEPT !.made = Append(@, p)]>> \o Tail(rest)]
                /\ UNCHANGED mine
    /\ UNCHANGED <<lock, cache, objects, running, scratchpad>>

\* A thread inside get_primitive goes on.
Step(t) == /\ \/ Lock(t) \/ Wait(t) \/ Lookup(t) \/ Construct(t) \/ Wrap(t)
              \/ InitFails(t) \/ InitAndAdd(t) \/ Return(t)
           /\ UNCHANGED program

------------------------------------------------------------------------------
(* What users do with a primitive they have.                               *)

Idle(t) == stack[t] = <<>> /\ running[t] = None

Execute(t, p) ==
    /\ Idle(t) /\ p \in mine[t]
    /\ running' = [running EXCEPT ![t] = p]
    /\ UNCHANGED <<lock, cache, objects, mine, stack, scratchpad>>

Executed(t) ==
    /\ running[t] # None
    /\ running' = [running EXCEPT ![t] = None]
    /\ UNCHANGED <<lock, cache, objects, mine, stack, scratchpad>>

Destroy(t, p) ==
    /\ Idle(t) /\ p \in mine[t]
    /\ mine' = [mine EXCEPT ![t] = @ \ {p}]
    /\ Sweep(t, list, stack, mine')
    /\ UNCHANGED <<lock, cache, stack, running>>

Next == /\ \E t \in program.threads :
              \/ \E k \in program.keys : Call(t, k)
              \/ Step(t)
              \/ Executed(t)
              \/ \E p \in mine[t] : Execute(t, p) \/ Destroy(t, p)
        /\ UNCHANGED program

\* Threads are scheduled; nothing is assumed about who gets the mutex.
Spec == Init /\ [][Next]_vars /\ \A t \in Threads : WF_vars(Step(t))

------------------------------------------------------------------------------
TypeOK ==
    /\ owner \in Threads \cup {None} /\ depth \in 0 .. 2
    /\ (depth = 0) = (owner = None)
    /\ DOMAIN impls \subseteq Ids /\ DOMAIN prims \subseteq Ids
    /\ \A i \in DOMAIN impls : /\ impls[i].key \in Keys
                              /\ ToSet(impls[i].nested) \subseteq DOMAIN prims
    /\ \A p \in DOMAIN prims : /\ prims[p].impl \in DOMAIN impls
                              /\ prims[p].holder \in {"none", "own", "global"}
    /\ \A t \in Threads : /\ mine[t] \subseteq DOMAIN prims
                          /\ running[t] \in mine[t] \cup {None}
                          /\ Len(stack[t]) <= 2
                          /\ \A f \in ToSet(stack[t]) :
                                /\ f.impl \in DOMAIN impls \cup {None}
                                /\ f.prim \in DOMAIN prims \cup {None}
                          /\ size[t] \in Nat /\ count[t] \in Int

(***************************************************************************)
(* The list and the mapper of the cache hold the same entries, no key      *)
(* twice and no more than the capacity, although the mutex is released     *)
(* between get and add for hits and creation nests: with a key twice in    *)
(* the list, eviction of one would leave the mapper without the other, or  *)
(* with an iterator to a node that is gone.                                *)
(***************************************************************************)
CacheConsistent ==
    /\ Len(list) <= Capacity
    /\ \A i, j \in DOMAIN list : list[i].key = list[j].key => i = j
    /\ DOMAIN mapper = { list[i].key : i \in DOMAIN list }
    /\ \A i \in DOMAIN list : mapper[list[i].key] = list[i].impl

\* The wrappers that an execution of p runs: p itself and the nested ones.
Uses(p) == {p} \cup ToSet(impls[prims[p].impl].nested)

(***************************************************************************)
(* A primitive under execution finds a scratchpad that is large enough,    *)
(* also where an implementation from the cache runs nested ones:           *)
(* global_scratchpad_t::get() hands out what the executing thread has.     *)
(***************************************************************************)
ScratchpadFits ==
    \A t \in Threads : running[t] # None =>
        \A p \in Uses(running[t]) :
            prims[p].holder = "global" => Need[Key(p)] <= size[t]

(***************************************************************************)
(* The global scratchpad of a thread is freed when, and not before, the    *)
(* last primitive that the thread created with it is destroyed.            *)
(***************************************************************************)
ScratchpadFreed ==
    \A t \in Threads :
        size[t] = 0 <=> ~\E p \in DOMAIN prims : prims[p].holder = "global"
                                                /\ prims[p].by = t

(***************************************************************************)
(* Whoever holds the mutex of the engine lets it go, also when primitives  *)
(* are created inside the creation of another one.                         *)
(***************************************************************************)
LockReleased == owner # None ~> owner = None
==============================================================================

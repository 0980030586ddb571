----------------------------- MODULE Allocator -----------------------------
(* memory::Allocator of uaii-memory: a MemoryBudget shared by a TensorPool of  *)
(* power-of-two size classes and an ArenaAllocator of chunks.  A session and   *)
(* its backend allocate from the same allocator.                               *)
EXTENDS Naturals, Sequences, FiniteSetsExt

CONSTANTS
    SizeClasses,   \* the classes of round_up_size; a larger block has its own size
    ChunkBytes,    \* AllocatorConfig::arena_chunk_bytes
    Align          \* alignof(std::max_align_t)

ASSUME AllocatorAssumption ==
    /\ SizeClasses \subseteq Nat \ {0} /\ SizeClasses # {}
    /\ ChunkBytes \in Nat \ {0} /\ Align \in Nat \ {0}

VARIABLES
    strategy, limit,   \* AllocatorConfig
    used, peak,        \* MemoryBudget
    live, cached,      \* TensorPool: the blocks in use and in the free lists
    chunks,            \* ArenaAllocator
    bufs               \* what was handed out: who asked, for how much, and the place

allocVars == <<strategy, limit, used, peak, live, cached, chunks, bufs>>

-----------------------------------------------------------------------------
(* MemoryBudget *)
Reserves(n)    == limit = 0 \/ used + n <= limit
Released(n)    == IF n >= used THEN 0 ELSE used - n
PeakWith(n)    == Max({peak, used + n})

-----------------------------------------------------------------------------
(* TensorPool *)
RoundUpSize(n) ==
    LET fitting == {c \in SizeClasses : c >= n}
    IN  IF fitting = {} THEN n ELSE Min(fitting)

Cached(n)  == {b \in cached : b.size = RoundUpSize(n)}
NewAddress == Min({a \in 1 .. (Cardinality(live \cup cached) + 1) :
                      \A b \in live \cup cached : b.at # a})

HandOut(owner, n, place) == bufs' = bufs \cup {[owner |-> owner, bytes |-> n, place |-> place]}

(* Mutant: any cached block will do. *)
PoolReuses_AnyBlock(owner, n) ==
    \E b \in cached :
        /\ cached' = cached \ {b} /\ live' = live \cup {b}
        /\ HandOut(owner, n, <<b.at, 0>>)
        /\ UNCHANGED <<used, peak, chunks>>

PoolReuses(owner, n) ==
    \E b \in Cached(n) :
        /\ cached' = cached \ {b} /\ live' = live \cup {b}
        /\ HandOut(owner, n, <<b.at, 0>>)
        /\ UNCHANGED <<used, peak, chunks>>

PoolGrows(owner, n) ==
    LET size == RoundUpSize(n) IN
    /\ Cached(n) = {} /\ Reserves(size)
    /\ used' = used + size /\ peak' = PeakWith(size)
    /\ live' = live \cup {[at |-> NewAddress, size |-> size]}
    /\ HandOut(owner, n, <<NewAddress, 0>>)
    /\ UNCHANGED <<cached, chunks>>

(* malloc fails after the budget was charged. *)
PoolMallocFails_KeepsCharge(n) ==      \* mutant: the charge is kept
    LET size == RoundUpSize(n) IN
    /\ Cached(n) = {} /\ Reserves(size)
    /\ used' = used + size /\ peak' = PeakWith(size)
    /\ UNCHANGED <<live, cached, chunks, bufs>>

PoolMallocFails(n) ==
    LET size == RoundUpSize(n) IN
    /\ Cached(n) = {} /\ Reserves(size)
    /\ used' = (used + size) - size /\ peak' = PeakWith(size)
    /\ UNCHANGED <<live, cached, chunks, bufs>>

PoolRefuses(n) == Cached(n) = {} /\ ~ Reserves(RoundUpSize(n))

-----------------------------------------------------------------------------
(* ArenaAllocator *)
AlignUp(n) == ((n + Align - 1) \div Align) * Align
Fits(c, n) == AlignUp(c.offset) + n <= c.capacity
HasRoom(n) == chunks # << >> /\ Fits(chunks[Len(chunks)], n)
ChunkFor(n) == Max({ChunkBytes, n + Align})

ArenaBumps(owner, n) ==
    LET k == Len(chunks)  at == AlignUp(chunks[k].offset) IN
    /\ HasRoom(n)
    /\ chunks' = [chunks EXCEPT ![k].offset = at + n]
    /\ HandOut(owner, n, <<k, at>>)
    /\ UNCHANGED <<used, peak, live, cached>>

ArenaGrows(owner, n) ==
    /\ ~ HasRoom(n) /\ Reserves(ChunkFor(n))
    /\ used' = used + ChunkFor(n) /\ peak' = PeakWith(ChunkFor(n))
    /\ chunks' = Append(chunks, [capacity |-> ChunkFor(n), offset |-> n])
    /\ HandOut(owner, n, <<Len(chunks) + 1, 0>>)
    /\ UNCHANGED <<live, cached>>

ArenaRefuses(n) == ~ HasRoom(n) /\ ~ Reserves(ChunkFor(n))

(* new_chunk gets no memory: make_unique throws, with the budget charged. *)
ArenaMallocFails(n) == strategy = "arena" /\ ~ HasRoom(n) /\ Reserves(ChunkFor(n))

-----------------------------------------------------------------------------
(* Allocator: the strategy chooses.                                           *)
NewAllocator(st, budget) ==
    /\ strategy' = st /\ limit' = budget
    /\ used' = 0 /\ peak' = 0
    /\ live' = {} /\ cached' = {} /\ chunks' = << >> /\ bufs' = {}

AllocateBytes(owner, n) ==
    /\ \/ strategy = "pool" /\ (PoolReuses(owner, n) \/ PoolGrows(owner, n))
       \/ strategy = "arena" /\ (ArenaBumps(owner, n) \/ ArenaGrows(owner, n))
    /\ UNCHANGED <<strategy, limit>>

MallocFails(n) == strategy = "pool" /\ PoolMallocFails(n) /\ UNCHANGED <<strategy, limit>>

BudgetRefuses(n) ==
    /\ IF strategy = "pool" THEN PoolRefuses(n) ELSE ArenaRefuses(n)
    /\ UNCHANGED allocVars

(* The pool keeps the block for its class; an arena frees only on reset. *)
DeallocateBytes(b) ==
    LET mine == IF strategy = "pool" THEN {m \in live : m.at = b.place[1]} ELSE {} IN
    /\ live' = live \ mine /\ cached' = cached \cup mine
    /\ bufs' = bufs \ {b}
    /\ UNCHANGED <<strategy, limit, used, peak, chunks>>

SumSizes(S)  == MapThenSumSet(LAMBDA b : b.size, S)
SumChunks    == MapThenSumSet(LAMBDA k : chunks[k].capacity, DOMAIN chunks)

(* reset(): the pool clears its live blocks and its free lists, the arena its  *)
(* chunks; then the allocator is dropped.                                      *)
ResetAllocator ==
    /\ used' = Released(IF strategy = "pool" THEN SumSizes(live) + SumSizes(cached) ELSE SumChunks)
    /\ live' = {} /\ cached' = {} /\ chunks' = << >> /\ bufs' = {}
    /\ strategy' = "pool" /\ limit' = 0 /\ peak' = 0

-----------------------------------------------------------------------------
(* The budget is charged with the memory the allocator really holds, whatever *)
(* was reused, refused, not given by malloc or returned, and never more than  *)
(* its limit: budget_.used() of stats() is the truth.                         *)
BudgetIsTrue ==
    /\ used = SumSizes(live) + SumSizes(cached) + SumChunks
    /\ limit > 0 => used <= limit
    /\ used <= peak

Holds(b) ==
    IF strategy = "pool"
    THEN \E m \in live : m.at = b.place[1] /\ b.bytes <= m.size
    ELSE /\ b.place[1] \in DOMAIN chunks
         /\ b.place[2] + b.bytes <= chunks[b.place[1]].offset
         /\ chunks[b.place[1]].offset <= chunks[b.place[1]].capacity

(* Every buffer in use lies within memory of its own: no two overlap, and     *)
(* none is larger than the block or chunk it is in, after any sequence of     *)
(* allocations and frees.                                                     *)
BuffersApart ==
    /\ \A b \in bufs : Holds(b)
    /\ \A a, b \in bufs : a # b =>
          \/ a.place[1] # b.place[1]
          \/ a.place[2] + a.bytes <= b.place[2] \/ b.place[2] + b.bytes <= a.place[2]

(* What makes the two inductive: the types; no two blocks of the pool share an *)
(* address or are both in use and free; each strategy has its own memory; no   *)
(* two buffers share a block; no chunk is filled beyond its capacity.          *)
Blocks == [at : Nat, size : Nat]
Chunks == [capacity : Nat, offset : Nat]
AllocTypeOK ==
    /\ strategy \in {"pool", "arena"} /\ limit \in Nat /\ used \in Nat /\ peak \in Nat
    /\ live \in SUBSET Blocks /\ cached \in SUBSET Blocks
    /\ IsFiniteSet(live) /\ IsFiniteSet(cached)
    /\ chunks \in Seq(Chunks)
    /\ bufs \in SUBSET [owner : Nat, bytes : Nat, place : Nat \X Nat]
BlocksApart ==
    /\ live \cap cached = {}
    /\ \A a, b \in live \cup cached : a.at = b.at => a = b
    /\ strategy = "pool" => chunks = << >>
    /\ strategy = "arena" => live = {} /\ cached = {}
    /\ \A k \in DOMAIN chunks : chunks[k].offset <= chunks[k].capacity
OneBufferEach ==
    strategy = "pool" => \A a, b \in bufs : a # b => a.place[1] # b.place[1]
AllocInv == AllocTypeOK /\ BlocksApart /\ OneBufferEach /\ BudgetIsTrue /\ BuffersApart
=============================================================================

------------------------ MODULE StreamingWeightStore ------------------------
(***************************************************************************)
(* uaii::storage::StreamingWeightStore: weights that do not fit in memory  *)
(* are loaded on demand into one or two staging buffers; routed experts    *)
(* are also kept in an LRU cache.  One compute thread calls stage(),       *)
(* prefetch() and try_peek_prefetched(); prefetch() starts at most one     *)
(* std::async thread that fills the inactive buffer without holding mu_.   *)
(*                                                                         *)
(* The bytes of a buffer are abstracted to the weight they are, to         *)
(* NoWeight (zero filled) or to Torn (partly overwritten).                 *)
(***************************************************************************)
EXTENDS Integers, Sequences, FiniteSets

CONSTANTS
    Weights,        \* ids of the tensors whose placement says stream
    Experts,        \* the streamed tensors marked expert
    NoWeight,       \* TensorId 0: nothing resident, nothing cached
    Torn,           \* contents of a buffer a load is overwriting, or has left half written
    Bytes,          \* Bytes[w]: StoragePlacement::bytes
    TotalBytes,     \* TotalBytes[S]: the sum of Bytes over a set S of experts
    StagingBytes,   \* StoragePlan::staging_bytes
    StagingSlots,   \* StoragePlan::staging_slots, 1 or 2
    ExpertCacheBytes, \* StoragePlan::expert_cache_bytes
    MinExpertBudget,  \* the 64 MiB floor expert_put gives a zero budget
    MaxHot,           \* kMaxHot
    Failures        \* how a load may fail: "clean" before it writes, "torn" after

ASSUME StoreAssumption ==
    /\ IsFiniteSet(Weights) /\ Experts \subseteq Weights
    /\ NoWeight \notin Weights /\ Torn \notin Weights /\ Torn # NoWeight
    /\ Bytes \in [Weights -> Nat \ {0}]
    /\ TotalBytes \in [SUBSET Experts -> Nat]
    /\ \A e \in Experts : TotalBytes[{e}] = Bytes[e]
    /\ \A S, T \in SUBSET Experts :
          S \cap T = {} => TotalBytes[S \cup T] = TotalBytes[S] + TotalBytes[T]
    /\ StagingBytes \in Nat /\ StagingSlots \in {1, 2}
    /\ ExpertCacheBytes \in Nat /\ MinExpertBudget \in Nat \ {0}
    /\ MaxHot \in Nat \ {0}
    /\ Failures \subseteq {"clean", "torn"}

VARIABLES
    buffers,      \* buffers_[s]: what the bytes of slot s are
    resident,     \* resident_[s]: the weight slot s is believed to hold
    active,       \* active_
    future,       \* prefetch_fut_: none, or a task that is running or finished
    prefetch_id,  \* prefetch_id_
    task,         \* the slot and weight the asynchronous task captured
    expert_store, \* expert_store_[e], NoWeight when e is not cached
    expert_lru,   \* expert_lru_ as the pairs <<less recent, more recent>>
    expert_hot,   \* expert_hot_, oldest first
    expert_used,  \* expert_used_
    expert_budget,\* expert_budget_
    out           \* what the last stage() returned: the weight, and where *out_data points

storeVars == <<buffers, resident, active, future, prefetch_id, task,
               expert_store, expert_lru, expert_hot, expert_used, expert_budget, out>>

slotVars  == <<buffers, resident, active>>
cacheVars == <<expert_store, expert_lru, expert_hot, expert_used, expert_budget>>

Slot     == {0, 1}
InStore  == 2                                \* *out_data points into expert_store_
Content  == Weights \cup {NoWeight, Torn}
Id       == Weights \cup {NoWeight}
Nothing  == [id |-> NoWeight, at |-> InStore]
Cached   == {e \in Experts : expert_store[e] # NoWeight}
HotSet   == {expert_hot[i] : i \in DOMAIN expert_hot}
TaskAlive == future \in {"running", "writing"}
HasSlot(s) == s < StagingSlots               \* !buffers_[s].empty()

(* What a pointer handed out by stage() reads now. *)
ReadsFrom(bufs, store, p) == IF p.at = InStore THEN store[p.id] ELSE bufs[p.at]
Reads(p) == ReadsFrom(buffers, expert_store, p)

-----------------------------------------------------------------------------
(* The state configure() leaves on a fresh store. *)
Init ==
    /\ buffers = [s \in Slot |-> NoWeight]
    /\ resident = [s \in Slot |-> NoWeight]
    /\ active = 0
    /\ future = "none"
    /\ prefetch_id = NoWeight
    /\ task = [slot |-> 1, id |-> NoWeight]
    /\ expert_store = [e \in Experts |-> NoWeight]
    /\ expert_lru = {}
    /\ expert_hot = << >>
    /\ expert_used = 0
    /\ expert_budget = ExpertCacheBytes
    /\ out = Nothing

(* A later configure() waits for the task but never gets its result, so    *)
(* prefetch_fut_ stays valid until the next stage().                        *)
Configure ==
    /\ ~ TaskAlive
    /\ buffers' = [s \in Slot |-> NoWeight]
    /\ resident' = [s \in Slot |-> NoWeight]
    /\ active' = 0
    /\ prefetch_id' = NoWeight
    /\ expert_store' = [e \in Experts |-> NoWeight]
    /\ expert_lru' = {}
    /\ expert_hot' = << >>
    /\ expert_used' = 0
    /\ expert_budget' = ExpertCacheBytes
    /\ out' = Nothing
    /\ UNCHANGED <<future, task>>

-----------------------------------------------------------------------------
(* The expert cache *)

(* s without x; x occurs at most once in the sequences this is used on. *)
Without(s, x) ==
    IF \E i \in DOMAIN s : s[i] = x
    THEN LET i == CHOOSE i \in DOMAIN s : s[i] = x
         IN  SubSeq(s, 1, i - 1) \o SubSeq(s, i + 1, Len(s))
    ELSE s

(* Mutant: a hit is listed twice. *)
Touched_Twice(lru, cached, id) == lru \cup {<<e, id>> : e \in cached}

(* expert_lru_.remove(id); expert_lru_.push_front(id) *)
Touched(lru, cached, id) ==
    {p \in lru : id \notin {p[1], p[2]}} \cup {<<e, id>> : e \in cached \ {id}}

(* expert_mark_hot: id becomes the newest of the last MaxHot marked ids. *)
MarkedHot(hot, id) ==
    LET all == Append(Without(hot, id), id)
    IN  SubSeq(all, IF Len(all) > MaxHot THEN Len(all) - MaxHot + 1 ELSE 1, Len(all))

(* Mutants: eviction spares nothing; eviction never happens. *)
Evicted_EvenHot(incoming, budget) ==
    {e \in Cached : expert_used + incoming > budget}
Evicted_Never(incoming, budget) == {}
(* expert_evict_to_fit: from the least recent on, an expert that is not hot *)
(* goes if the cache would still be too large without the ones before it.   *)
Evicted(incoming, budget) ==
    LET cold == Cached \ HotSet
        before(e) == {c \in cold : <<c, e>> \in expert_lru}
    IN  {e \in cold : expert_used - TotalBytes[before(e)] + incoming > budget}

(* expert_put(id, bytes) *)
ExpertPut(id, bytes) ==
    LET budget == IF expert_budget # 0 THEN expert_budget
                  ELSE IF 4 * Bytes[id] > MinExpertBudget THEN 4 * Bytes[id]
                  ELSE MinExpertBudget
        gone   == Evicted(Bytes[id], budget)
        kept   == Cached \ (gone \cup {id})
    IN  /\ expert_budget' = budget
        /\ expert_store' = [e \in Experts |-> IF e = id THEN bytes
                                              ELSE IF e \in kept THEN expert_store[e]
                                              ELSE NoWeight]
        /\ expert_used' = expert_used - TotalBytes[gone \cup (Cached \cap {id})] + Bytes[id]
        /\ expert_lru' = {p \in expert_lru : p[1] \in kept /\ p[2] \in kept}
                           \cup {<<e, id>> : e \in kept}

(* expert_get(id, dst): a hit is copied to the slot and becomes most recent. *)
ExpertGet(id) ==
    /\ expert_lru' = Touched(expert_lru, Cached, id)
    /\ UNCHANGED <<expert_store, expert_used, expert_budget>>

-----------------------------------------------------------------------------
(* stage_into(slot, id) *)

TooLarge(id) == Bytes[id] > StagingBytes
IsHit(id)    == id \in Cached

(* It succeeds: the slot holds id, and an expert is in the cache.  Only an  *)
(* expert_put marks its id hot: expert_hot_ then is HotAfter(id).            *)
StagedInto(slot, id) ==
    /\ ~ TooLarge(id)
    /\ buffers' = [buffers EXCEPT ![slot] = IF IsHit(id) THEN expert_store[id] ELSE id]
    /\ resident' = [resident EXCEPT ![slot] = id]
    /\ \/ IsHit(id) /\ ExpertGet(id)
       \/ ~ IsHit(id) /\ id \in Experts /\ ExpertPut(id, id)
       \/ /\ id \notin Experts
          /\ UNCHANGED <<expert_store, expert_lru, expert_used, expert_budget>>

HotAfter(id) == IF id \in Experts /\ ~ IsHit(id) THEN MarkedHot(expert_hot, id)
                ELSE expert_hot

(* It fails before or after it wrote to the slot; a cache hit cannot fail. *)
FailsClean(id) == TooLarge(id) \/ (~ IsHit(id) /\ "clean" \in Failures)
FailsTorn(id)  == ~ TooLarge(id) /\ ~ IsHit(id) /\ "torn" \in Failures

(* Mutant: a failed load is taken for a load. *)
StageIntoFailed_Resident(slot, id) ==
    /\ FailsClean(id) \/ FailsTorn(id)
    /\ resident' = [resident EXCEPT ![slot] = id]
    /\ UNCHANGED <<buffers, cacheVars>>

(* Either way resident_ still names the weight that was there before. *)
StageIntoFailed(slot, id) ==
    /\ \/ FailsClean(id) /\ UNCHANGED buffers
       \/ FailsTorn(id) /\ buffers' = [buffers EXCEPT ![slot] = Torn]
    /\ UNCHANGED <<resident, cacheVars>>

-----------------------------------------------------------------------------
(* prefetch(id) returns early unless there is a second slot, id is resident *)
(* in neither, and no task is outstanding.                                   *)
CanPrefetch(id) ==
    /\ HasSlot(1)
    /\ resident[active] # id /\ resident[1 - active] # id
    /\ future = "none"

Prefetch(id) ==
    /\ CanPrefetch(id)
    /\ future' = "running"
    /\ prefetch_id' = id
    /\ task' = [slot |-> 1 - active, id |-> id]
    /\ UNCHANGED <<slotVars, cacheVars, out>>

(* The asynchronous thread starts to overwrite its slot ... *)
TaskWrites ==
    /\ future = "running" /\ ~ TooLarge(task.id)
    /\ future' = "writing"
    /\ buffers' = [buffers EXCEPT ![task.slot] = Torn]
    /\ UNCHANGED <<resident, active, prefetch_id, task, cacheVars, out>>

(* ... and its promise becomes ready. *)
TaskDone ==
    /\ future = "writing"
    /\ StagedInto(task.slot, task.id)
    /\ expert_hot' = HotAfter(task.id)
    /\ future' = "ok"
    /\ UNCHANGED <<active, prefetch_id, task, out>>

TaskFailed ==
    /\ \/ future = "running" /\ FailsClean(task.id)
       \/ future = "writing" /\ FailsTorn(task.id)
    /\ future' = "failed"
    /\ UNCHANGED <<slotVars, prefetch_id, task, cacheVars, out>>

-----------------------------------------------------------------------------
(* stage(id) holds mu_ throughout and first waits for the outstanding task. *)

(* The end of stage(): an expert found in the cache is handed out from     *)
(* there and marked hot, anything else from the active slot.                *)
HandOut(id, hot) ==
    IF id \in Experts /\ expert_store'[id] # NoWeight
    THEN expert_hot' = MarkedHot(hot, id) /\ out' = [id |-> id, at |-> InStore]
    ELSE expert_hot' = hot /\ out' = [id |-> id, at |-> active']

FutureConsumed == /\ ~ TaskAlive
                  /\ future' = "none"
                  /\ prefetch_id' = IF future = "none" THEN prefetch_id ELSE NoWeight
                  /\ UNCHANGED task

IsPrefetched(id) == future # "none" /\ prefetch_id = id

StagePrefetched(id) ==
    /\ IsPrefetched(id) /\ future = "ok"
    /\ FutureConsumed
    /\ active' = 1 - active
    /\ UNCHANGED <<buffers, resident, expert_store, expert_lru, expert_used, expert_budget>>
    /\ HandOut(id, expert_hot)

StagePrefetchFailed(id) ==
    /\ IsPrefetched(id) /\ future = "failed"
    /\ FutureConsumed
    /\ out' = Nothing
    /\ UNCHANGED <<slotVars, cacheVars>>

StageResident(id) ==
    /\ ~ IsPrefetched(id)
    /\ FutureConsumed
    /\ \/ resident[active] = id /\ UNCHANGED active
       \/ /\ resident[active] # id /\ HasSlot(1) /\ resident[1 - active] = id
          /\ active' = 1 - active
    /\ UNCHANGED <<buffers, resident, expert_store, expert_lru, expert_used, expert_budget>>
    /\ HandOut(id, expert_hot)

MustLoad(id) ==
    /\ ~ IsPrefetched(id)
    /\ resident[active] # id
    /\ ~ (HasSlot(1) /\ resident[1 - active] = id)

StageLoad(id) ==
    /\ MustLoad(id)
    /\ FutureConsumed
    /\ StagedInto(active, id)
    /\ UNCHANGED active
    /\ HandOut(id, HotAfter(id))

StageLoadFailed(id) ==
    /\ MustLoad(id)
    /\ FutureConsumed
    /\ StageIntoFailed(active, id)
    /\ out' = Nothing
    /\ UNCHANGED active

Stage(id) == \/ StagePrefetched(id) \/ StagePrefetchFailed(id)
             \/ StageResident(id)
             \/ StageLoad(id) \/ StageLoadFailed(id)

(* try_peek_prefetched(id) returns true; it changes nothing. *)
CanPeek(id) ==
    /\ ~ (prefetch_id = id /\ TaskAlive)
    /\ HasSlot(1)
    /\ resident[1 - active] = id

-----------------------------------------------------------------------------
Next == \/ Configure
        \/ \E id \in Weights : Prefetch(id) \/ Stage(id)
        \/ TaskWrites \/ TaskDone \/ TaskFailed

Spec == Init /\ [][Next]_storeVars

-----------------------------------------------------------------------------
(* Properties *)

(* The types of the store's fields; expert_used_ in particular never wraps. *)
TypeOK ==
    /\ buffers \in [Slot -> Content]
    /\ resident \in [Slot -> Id]
    /\ active \in Slot
    /\ future \in {"none", "running", "writing", "ok", "failed"}
    /\ prefetch_id \in Id
    /\ task \in [slot : Slot, id : Id]
    /\ expert_store \in [Experts -> Content]
    /\ expert_lru \subseteq Experts \X Experts
    /\ expert_hot \in Seq(Experts)
    /\ expert_used \in Nat
    /\ expert_budget \in Nat
    /\ out \in [id : Id, at : {0, 1, InStore}]

(* A slot that no task is overwriting never holds the bytes of a weight     *)
(* other than the one resident_ names; unless a load can fail half way, it  *)
(* holds exactly those bytes.  stage() hands out a slot on the word of       *)
(* resident_ alone, without looking at the bytes.                            *)
SlotHoldsItsResident ==
    \A s \in Slot :
        \/ future = "writing" /\ task.slot = s
        \/ buffers[s] = resident[s]
        \/ buffers[s] = Torn /\ "torn" \in Failures

(* The asynchronous thread writes without mu_: it must never be given the   *)
(* slot compute reads from, and the weight it loads is resident nowhere, so  *)
(* no weight ever occupies both staging buffers.                             *)
TaskOwnsInactiveSlot ==
    /\ TaskAlive => /\ task.slot = 1 - active
                    /\ task.id \notin {resident[0], resident[1]}
    /\ resident[0] = resident[1] => resident[0] = NoWeight

(* The pointer stage() returned reads the weight that was asked for, and    *)
(* keeps doing so through prefetches and evictions until the next stage().   *)
StagedIntact == out.id # NoWeight => Reads(out) = out.id

(* The byte counter of the expert cache is the size of what is cached, the  *)
(* LRU list is a strict order on exactly the cached experts, every hot       *)
(* expert is cached, and a cached copy is the expert's own bytes.            *)
ExpertAccounting ==
    /\ expert_used = TotalBytes[Cached]
    /\ \A e \in Cached : expert_store[e] = e
    /\ HotSet \subseteq Cached
    /\ \A p \in expert_lru : p[1] \in Cached /\ p[2] \in Cached /\ p[1] # p[2]
    /\ \A d, e \in Cached : d # e => (<<d, e>> \in expert_lru <=> <<e, d>> \notin expert_lru)

(* The cache exceeds its budget only while it holds no more than the hot    *)
(* window and the expert that came last: the eviction loop spares hot        *)
(* experts, and makes room before it knows that the new one is hot too.      *)
ExpertCacheBounded ==
    \/ expert_used <= expert_budget
    \/ Cardinality(Cached) <= MaxHot + 1

(* What makes the slot invariants inductive: a live task is the one that    *)
(* prefetch_id_ names, a buffer being overwritten is torn, a finished        *)
(* prefetch has its weight in the inactive slot until stage() takes it, and  *)
(* with a single staging buffer the second slot is never used.               *)
FetchConsistent ==
    /\ ~ HasSlot(1) => active = 0 /\ resident[1] = NoWeight /\ future = "none"
    /\ TaskAlive => task.id = prefetch_id /\ prefetch_id \in Weights
    /\ future = "writing" => buffers[task.slot] = Torn
    /\ future = "ok" /\ prefetch_id # NoWeight => resident[1 - active] = prefetch_id

(* A pointer handed out from a slot is to the active slot; one handed out    *)
(* from the cache stays hot as long as a task may still evict.                *)
OutConsistent ==
    out.id # NoWeight =>
        IF out.at = InStore
        THEN /\ out.id \in Cached
             /\ future \in {"none", "running", "writing"} => out.id \in HotSet
        ELSE out.at = active /\ resident[active] = out.id

StoreInv == /\ TypeOK
            /\ SlotHoldsItsResident /\ TaskOwnsInactiveSlot /\ FetchConsistent
            /\ OutConsistent /\ ExpertAccounting

(* What the eviction loop relies on: it walks the list from its end, so the  *)
(* list is transitive, and the hot window is never longer than it is wide.    *)
EvictionInv ==
    /\ \A c, d, e \in Cached :
          <<c, d>> \in expert_lru /\ <<d, e>> \in expert_lru => <<c, e>> \in expert_lru
    /\ Len(expert_hot) <= MaxHot
    /\ ExpertCacheBounded

=============================================================================

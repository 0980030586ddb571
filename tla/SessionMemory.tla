--------------------------- MODULE SessionMemory ---------------------------
(* The memory of a session: Session::create resolves a preset against the free *)
(* memory, lets the storage planner turn its dial, opens an allocator with the *)
(* budget of the preset and allocates what is not streamed; the backend then   *)
(* allocates from the same allocator; destroy() gives everything back.         *)
EXTENDS Allocator, StoragePlan

CONSTANTS
    Models,        \* graphs: [weights, acts], see StoragePlan
    Args,          \* the options of the command line: [preset, ram_gb, stream, pin]
    Avail,         \* what system_available_bytes may answer (0: unknown)
    Reuse,         \* enable_memory_reuse
    Strategies,    \* AllocatorConfig::strategy
    Orphans,       \* the buffers a backend may ask for: [id, bytes]
    MaxChunks      \* bound: the backend asks for no more once an arena has these

(* No system answers that a single byte is free. *)
ASSUME MemoryAssumption ==
    /\ MaxChunks \in Nat /\ Strategies \subseteq {"pool", "arena"} /\ Reuse \subseteq BOOLEAN
    /\ \A m \in Models : /\ m.weights \subseteq WeightTypes /\ IsFiniteSet(m.weights)
                         /\ m.acts \subseteq [id : Nat, bytes : Nat]
    /\ Args \subseteq ArgTypes /\ Avail \subseteq Nat \ {1}
    /\ Orphans \subseteq [id : Nat, bytes : Nat]

VARIABLES phase, model, cfg, available, reuse, dial, turns, plan, todo, result

ownVars == <<phase, model, cfg, available, reuse, dial, turns, plan, todo, result>>
memoryVars == <<allocVars, ownVars>>

NoPlan == [streaming |-> FALSE, streamed |-> {}, staging |-> 0, slots |-> 0, expert_cache |-> 0]

Init ==
    /\ phase = "idle" /\ result = "none" /\ model \in Models /\ reuse = TRUE
    /\ cfg = PresetConfig("none") /\ available = 0
    /\ dial = FullDial(cfg) /\ turns = 0 /\ plan = NoPlan /\ todo = {}
    /\ strategy = "pool" /\ limit = 0 /\ used = 0 /\ peak = 0
    /\ live = {} /\ cached = {} /\ chunks = << >> /\ bufs = {}

-----------------------------------------------------------------------------
(* What allocate_all_tensors asks for.  With memory reuse every slot has the   *)
(* bytes of the dtype of the graph, so a quantized weight is widened; without  *)
(* it a quantized weight stays packed.  Streamed weights get nothing.          *)
Asked(m, streamed, ru) ==
    {[id |-> w.id, bytes |-> IF ru \/ ~ w.quant THEN w.full ELSE w.packed] :
        w \in m.weights \ streamed} \cup m.acts

(* create(): the preset and the options are applied, and build_storage_plan     *)
(* begins.                                                                     *)
Create ==
    /\ phase = "idle"
    /\ \E m \in Models, args \in Args, a \in Avail, ru \in Reuse :
          LET c == ParseMemoryArgs(args, a) IN
          /\ model' = m /\ cfg' = c /\ available' = a /\ reuse' = ru
          /\ dial' = FullDial(c)
          /\ phase' = IF Streams(m.weights, c) /\ TightBudget(c) THEN "dial" ELSE "planned"
    /\ turns' = 0 /\ plan' = NoPlan /\ todo' = {} /\ result' = "none"
    /\ UNCHANGED allocVars

DialTurns ==
    /\ phase = "dial" /\ ~ DialStops(model.weights, cfg, dial, turns)
    /\ dial' = DialTurned(dial) /\ turns' = turns + 1
    /\ UNCHANGED <<allocVars, phase, model, cfg, available, reuse, plan, todo, result>>

DialEnds ==
    /\ phase = "dial" /\ DialStops(model.weights, cfg, dial, turns)
    /\ IF PlanRefused(model.weights, cfg, dial)
       THEN phase' = "idle" /\ result' = "refused"
       ELSE phase' = "planned" /\ UNCHANGED result
    /\ UNCHANGED <<allocVars, model, cfg, available, reuse, dial, turns, plan, todo>>

(* The placements are marked, the allocator opened with the budget.            *)
Place ==
    LET pl == PlanFor(model.weights, cfg, dial) IN
    /\ phase = "planned"
    /\ plan' = pl /\ todo' = Asked(model, pl.streamed, reuse)
    /\ \E st \in Strategies : NewAllocator(st, cfg.budget)
    /\ phase' = "allocating"
    /\ UNCHANGED <<model, cfg, available, reuse, dial, turns, result>>

NextAsked == CHOOSE t \in todo : \A u \in todo : t.id <= u.id

AllocateSlot ==
    /\ phase = "allocating" /\ todo # {}
    /\ AllocateBytes(NextAsked.id, NextAsked.bytes)
    /\ todo' = todo \ {NextAsked}
    /\ UNCHANGED <<phase, model, cfg, available, reuse, dial, turns, plan, result>>

(* An error of create() calls destroy(). *)
AllocateFails ==
    /\ phase = "allocating" /\ todo # {}
    /\ \/ BudgetRefuses(NextAsked.bytes) /\ result' = "no memory"
       \/ MallocFails(NextAsked.bytes) /\ result' = "malloc"
    /\ phase' = "destroying"
    /\ UNCHANGED <<model, cfg, available, reuse, dial, turns, plan, todo>>

(* load_or_init_weights ends, one way or the other. *)
WeightsLoaded ==
    /\ phase = "allocating" /\ todo = {}
    /\ \/ phase' = "ready" /\ result' = "ok"
       \/ phase' = "destroying" /\ result' = "load"
    /\ UNCHANGED <<allocVars, model, cfg, available, reuse, dial, turns, plan, todo>>

-----------------------------------------------------------------------------
(* HostExecutableBackend::allocate and free, with the allocator of the session *)
Owned(id) == {b \in bufs : b.owner = id}

(* A refusal, or a malloc that fails, is an error of allocate() alone. *)
BackendAllocate ==
    /\ phase = "ready" /\ Len(chunks) < MaxChunks
    /\ \E o \in Orphans :
          /\ Owned(o.id) = {}
          /\ AllocateBytes(o.id, o.bytes) \/ BudgetRefuses(o.bytes) \/ MallocFails(o.bytes)
    /\ UNCHANGED ownVars

BackendFree ==
    /\ phase = "ready"
    /\ \E o \in Orphans : \E b \in Owned(o.id) : DeallocateBytes(b)
    /\ UNCHANGED ownVars

(* An arena that gets no memory throws std::bad_alloc instead of returning an  *)
(* error, and nothing between it and the caller of the library catches it: the *)
(* session, its allocator and the charge end with the unwinding of create(),   *)
(* or with the process.                                                        *)
ArenaThrows ==
    /\ \/ phase = "allocating" /\ todo # {} /\ ArenaMallocFails(NextAsked.bytes)
       \/ phase = "ready" /\ Len(chunks) < MaxChunks
             /\ \E o \in Orphans : Owned(o.id) = {} /\ ArenaMallocFails(o.bytes)
    /\ NewAllocator("pool", 0)
    /\ phase' = "idle" /\ plan' = NoPlan /\ todo' = {} /\ result' = "bad_alloc"
    /\ UNCHANGED <<model, cfg, available, reuse, dial, turns>>

-----------------------------------------------------------------------------
Destroy ==
    /\ phase = "ready" /\ phase' = "destroying"
    /\ UNCHANGED <<allocVars, model, cfg, available, reuse, dial, turns, plan, todo, result>>

(* destroy(): the slots and buffers in the order of their maps, then what the  *)
(* backend still owns.                                                         *)
IsOrphan(b) == \E o \in Orphans : b.owner = o.id

DestroyFrees ==
    /\ phase = "destroying"
    /\ \E b \in bufs :
          /\ IsOrphan(b) => \A c \in bufs : IsOrphan(c)
          /\ DeallocateBytes(b)
    /\ UNCHANGED ownVars

DestroyEnds ==
    /\ phase = "destroying" /\ bufs = {}
    /\ ResetAllocator
    /\ phase' = "idle" /\ plan' = NoPlan /\ todo' = {}
    /\ UNCHANGED <<model, cfg, available, reuse, dial, turns, result>>

Next ==
    \/ Create \/ DialTurns \/ DialEnds \/ Place \/ AllocateSlot \/ AllocateFails
    \/ WeightsLoaded \/ BackendAllocate \/ BackendFree \/ ArenaThrows
    \/ Destroy \/ DestroyFrees \/ DestroyEnds

Spec == Init /\ [][Next]_memoryVars

-----------------------------------------------------------------------------
(* What the streaming store keeps beside the allocator; a cache of 0 bytes is  *)
(* taken for "not set" and replaced by four times the first expert put in it.  *)
ExpertCacheLimit ==
    IF plan.expert_cache # 0 THEN plan.expert_cache ELSE 4 * Largest(Experts(plan.streamed))

StoreBytes == IF plan.streaming THEN plan.slots * plan.staging + ExpertCacheLimit ELSE 0

(* A plan that streams is carried out in its budget: every streamed weight     *)
(* fits a staging buffer, no expert is kept in memory, and the kept weights,   *)
(* all staging buffers and the expert cache are together within the budget,    *)
(* wherever the dial of build_storage_plan stopped.                            *)
PlanKeepsBudget ==
    plan.streaming =>
        /\ \A w \in plan.streamed : ResidentBytes(w) <= plan.staging
        /\ Experts(model.weights) \subseteq plan.streamed
        /\ cfg.budget > 0 =>
              SumBytes(model.weights \ plan.streamed) + plan.slots * plan.staging
                  + plan.expert_cache <= cfg.budget

(* The places of the dial, from everything to nothing: layers are given up     *)
(* first, then the output head, then the embedding.                            *)
Places(c) ==
    {[layers |-> k, lm |-> TRUE, embed |-> TRUE] : k \in 0 .. c.pin_layers}
        \cup {[layers |-> 0, lm |-> FALSE, embed |-> e] : e \in BOOLEAN}

KeepsMore(d, e) == d # e /\ d.layers >= e.layers /\ (e.lm => d.lm) /\ (e.embed => d.embed)

TooMuch(d) ==
    SumBytes(Pinned(model.weights, d)) + Slots(cfg) * Largest(Streamed(model.weights, d)) > cfg.budget

(* build_storage_plan gives up no layer, head or embedding that would have     *)
(* fitted, and refuses a model only when no place of its dial fits.            *)
TrunkIsLargest ==
    /\ dial \in Places(cfg)
    /\ phase \in {"planned", "allocating", "ready"} =>
          \A d \in Places(cfg) : KeepsMore(d, dial) => TooMuch(d)
    /\ result = "refused" => \A d \in Places(cfg) : TooMuch(d)

(* The phone preset leaves the session within the memory that was free when it *)
(* was created: what the allocator holds, the staging buffer and the expert    *)
(* cache together.  (A plan whose cache is squeezed to 0 bytes is left out:    *)
(* the store takes 0 for "not set".)                                           *)
PhoneFitsFreeMemory ==
    (cfg.preset = "phone" /\ available > 0
        /\ (plan.expert_cache > 0 \/ Experts(plan.streamed) = {}))
        => used + StoreBytes <= available

(* What makes the three inductive.  The allocator is empty outside of a        *)
(* session, the plan is what the dial left, and the dial has come through every *)
(* place that keeps more than it does now, one turn each.                      *)
Configs == [preset : PresetNames, budget : Nat, pin_layers : Nat, expert_cache : Nat,
            kv_window : Nat, streaming : BOOLEAN, single : BOOLEAN]
Planless == {"idle", "dial", "planned"}
OwnTypeOK ==
    /\ phase \in Planless \cup {"allocating", "ready", "destroying"}
    /\ model \in Models /\ cfg \in Configs /\ available \in Avail \cup {0}
    /\ dial \in [layers : Nat, lm : BOOLEAN, embed : BOOLEAN] /\ turns \in Nat
    /\ todo \in SUBSET [id : Nat, bytes : Nat]
PhaseConsistent ==
    /\ phase \in Planless => used = 0 /\ limit = 0 /\ plan = NoPlan
    /\ phase \notin Planless => limit = cfg.budget /\ plan = PlanFor(model.weights, cfg, dial)
    /\ phase = "dial" => TightBudget(cfg)
    /\ phase \in {"planned", "allocating", "ready", "destroying"} =>
          (Streams(model.weights, cfg) /\ TightBudget(cfg)
              => /\ DialStops(model.weights, cfg, dial, turns)
                 /\ ~ PlanRefused(model.weights, cfg, dial))
    /\ cfg.preset = "phone" /\ available > 0 => 0 < cfg.budget /\ 2 * cfg.budget <= available
    /\ \/ phase = "idle" /\ result = "none"
       \/ \E args \in Args : cfg = ParseMemoryArgs(args, available)
DialConsistent ==
    /\ dial \in Places(cfg)
    /\ turns = (cfg.pin_layers - dial.layers)
                  + (IF dial.lm THEN 0 ELSE 1) + (IF dial.embed THEN 0 ELSE 1)
    /\ \A d \in Places(cfg) : KeepsMore(d, dial) => TooMuch(d)
    /\ result = "refused" => phase = "idle" /\ TooMuch(dial) /\ (DialAtEnd(dial) \/ turns = DialSteps)
MemoryInv == OwnTypeOK /\ PhaseConsistent /\ DialConsistent

(* The dial has as many turns as it has places to go, 62 layers in the code:   *)
(* with more pinned layers build_storage_plan stops half-way.                  *)
EnoughTurns == \A args \in Args, a \in Avail \cup {0} : ParseMemoryArgs(args, a).pin_layers + 2 <= DialSteps
(* Every model has a weight that is no norm: its embedding, for one. *)
SomethingToStream ==
    \A m \in Models : \E w \in m.weights : (w.expert \/ ~ w.norm) /\ ResidentBytes(w) > 0

(* docs/huggingface_support.md: the session pins a trunk that fits the budget. *)
(* So the budget never refuses what the plan of the session keeps in memory.   *)
TrunkFits == result # "no memory"
=============================================================================

---------------------------- MODULE StoragePlan ----------------------------
(* planner::build_storage_plan and the memory presets: which weights a session *)
(* keeps in memory, which it streams, and in what budget.  A weight is what    *)
(* its name says of it (the tests of storage_plan.cpp on names), its bytes as  *)
(* stored and as 32-bit floats.  layer is NoLayer outside of the layers.       *)
EXTENDS Naturals, FiniteSetsExt

CONSTANTS
    GiB,          \* how many units of memory make 2^30 bytes
    DialSteps     \* turns of the dial that build_storage_plan tries

ASSUME PlanAssumption == GiB \in Nat \ {0} /\ DialSteps \in Nat

NoLayer == 99

(* Weights and options, as the two parts below take them. *)
WeightTypes == [id : Nat, embed : BOOLEAN, lm : BOOLEAN, norm : BOOLEAN, layer : Nat,
                expert : BOOLEAN, quant : BOOLEAN, packed : Nat, full : Nat]
PresetNames == {"none", "phone", "laptop", "desktop", "server"}
ArgTypes == [preset : PresetNames, ram_gb : Nat, stream : BOOLEAN, pin : Nat]

-----------------------------------------------------------------------------
(* memory_preset.cpp *)
PresetConfig(p) ==
    LET c(ram, pin, cache, kv, single) ==
            [preset |-> p, budget |-> ram, pin_layers |-> pin, expert_cache |-> cache,
             kv_window |-> kv, streaming |-> TRUE, single |-> single]
    IN  CASE p = "laptop"  -> c(8 * GiB, 2, GiB, 2048, FALSE)
          [] p = "desktop" -> c(32 * GiB, 16, 4 * GiB, 4096, FALSE)
          [] p = "server"  -> c(128 * GiB, 0, 32 * GiB, 8192, FALSE)
          [] p = "phone"   -> c(2 * GiB, 0, GiB \div 4, 512, TRUE)
          [] p = "none"    -> [c(0, 0, 0, 0, FALSE) EXCEPT !.streaming = FALSE]

Overridden(c, gb) == IF gb = 0 THEN c ELSE [c EXCEPT !.budget = gb * GiB, !.streaming = TRUE]

(* Mutant: the phone may take all that is free. *)
ClampBudgetToAvailable_All(requested, available) == Min({requested, available})

ClampBudgetToAvailable(requested, available) == Min({requested, available \div 2})

ClampedWindow(kv, cap) ==
    IF cap < GiB THEN Min({kv, 128})
    ELSE IF 2 * cap < 3 * GiB THEN Min({kv, 256}) ELSE kv

(* apply_available_memory_clamp; 0 is "unknown" or "no budget". *)
Clamped(c, available) ==
    LET cap == IF c.preset = "phone" THEN ClampBudgetToAvailable(c.budget, available)
               ELSE Min({c.budget, available})
    IN  IF available = 0 \/ c.budget = 0 \/ c.budget <= cap THEN c
        ELSE [c EXCEPT !.budget = cap, !.kv_window = ClampedWindow(@, cap),
                       !.expert_cache = Min({@, cap \div 8})]

ResolveMemoryPreset(p, gb, available) == Clamped(Overridden(PresetConfig(p), gb), available)

(* The options of the command line: --stream-weights and --pin-layers come     *)
(* after the clamp.  pin is NoLayer when it is not given.                      *)
ParseMemoryArgs(args, available) ==
    LET c == ResolveMemoryPreset(args.preset, args.ram_gb, available)
    IN  [c EXCEPT !.streaming = @ \/ args.stream,
                  !.pin_layers = IF args.pin = NoLayer THEN @ ELSE args.pin]

-----------------------------------------------------------------------------
(* storage_plan.cpp *)
ResidentBytes(w) == IF w.quant THEN w.packed ELSE w.full
SumBytes(W) == MapThenSumSet(ResidentBytes, W)
Largest(W) == IF W = {} THEN 0 ELSE Max({ResidentBytes(w) : w \in W})
Experts(W) == {w \in W : w.expert}

Slots(c) == IF c.single THEN 1 ELSE 2

Pressure(W, c) == c.streaming /\ c.budget > 0 /\ SumBytes(W) > c.budget
ExpertPage(W, c) == c.streaming /\ SumBytes(Experts(W)) > 0 /\ (Pressure(W, c) \/ c.expert_cache > 0)
Streams(W, c) == Pressure(W, c) \/ ExpertPage(W, c)

(* A budget of at least 1 MiB; in these units, any budget. *)
TightBudget(c) == c.budget > 0

FullDial(c) == [layers |-> c.pin_layers, lm |-> TRUE, embed |-> TRUE]

WouldPin(w, d) ==
    /\ ~ w.expert
    /\ w.norm \/ (d.embed /\ w.embed) \/ (d.lm /\ w.lm) \/ w.layer < d.layers

Pinned(W, d) == {w \in W : WouldPin(w, d)}
Streamed(W, d) == W \ Pinned(W, d)

(* pin_and_staging *)
Need_OneSlot(W, c, d) == SumBytes(Pinned(W, d)) + Largest(Streamed(W, d))   \* mutant

Need(W, c, d) == SumBytes(Pinned(W, d)) + Largest(Streamed(W, d)) * Slots(c)

DialAtEnd(d) == d.layers = 0 /\ ~ d.lm /\ ~ d.embed

(* Mutant: the head and the embedding go before the layers. *)
DialTurned_TrunkFirst(d) ==
    IF d.lm THEN [d EXCEPT !.lm = FALSE]
    ELSE IF d.embed THEN [d EXCEPT !.embed = FALSE]
    ELSE [d EXCEPT !.layers = @ - 1]

DialTurned(d) ==
    IF d.layers > 0 THEN [d EXCEPT !.layers = @ - 1]
    ELSE IF d.lm THEN [d EXCEPT !.lm = FALSE]
    ELSE [d EXCEPT !.embed = FALSE]

(* No place of the dial is left to be tried, or the need fits. *)
DialStops(W, c, d, turns) ==
    Need(W, c, d) <= c.budget \/ DialAtEnd(d) \/ turns = DialSteps

PlanRefused(W, c, d) == Largest(Streamed(W, d)) > 0 /\ Need(W, c, d) > c.budget

ExpertCacheFor(W, c, d) ==
    IF TightBudget(c) /\ Streams(W, c)
    THEN Min({c.expert_cache, IF c.budget > Need(W, c, d) THEN c.budget - Need(W, c, d) ELSE 0})
    ELSE c.expert_cache

(* The plan for a place of the dial: nothing is streamed without pressure or   *)
(* experts to page, and then the staging buffers are never used.               *)
PlanFor(W, c, d) ==
    LET streamed == IF Streams(W, c) THEN Streamed(W, d) ELSE {} IN
    [streaming |-> Streams(W, c), streamed |-> streamed,
     staging |-> IF streamed = {} THEN Largest(W) ELSE Largest(streamed),
     slots |-> Slots(c), expert_cache |-> ExpertCacheFor(W, c, d)]
=============================================================================

# A TLA+ model of UAII (Universal AI Inference)

UAII is an inference runtime in C++ (`libs/`, `include/`): loaders turn model
files into one graph format, a planner rewrites and orders the graph and decides
which tensors share memory and which weights are streamed from disk, and a
session executes it on a backend, token by token for language models. Around it
are a CLI, a C API, a Python binding and a Node dashboard that keeps `uaii chat`
processes warm. This project models the parts in which state, threads, failures
and order matter, and the conventions on which parts that never see each other's
code rely. All paths below are relative to the root of the repository;
`PROJECT.json` gives the lines each definition stands for.

How to run it: `tlc -config <cfg> <MC module>` in this directory for a run, and
`tlapm <X>Proofs.tla` for the proofs.

## 1. Inventory

| Component | State | Operations | What makes it correct |
|---|---|---|---|
| Streaming weight store (`uaii-storage/src/streaming.cpp`) | two staging buffers, `resident_`, `active_`, one `std::future`, expert LRU with byte counter and hot window | `configure`, `prefetch` and its task, `try_peek_prefetched`, `stage` | a pointer handed out reads the weight asked for; the LRU's bookkeeping agrees with its contents |
| Session, streaming in `run()` (`session.cpp`) | data pointers of the weights, device copies, copies in flight | stage, upload, prefetch, peek, dispatch | a kernel reads its own weights; `run()` returns |
| KV cache (`kv_cache.hpp`, `dispatch.cpp`, `transformer.cpp`) | rows per layer, `past_len_`, `abs_pos_`, `pending_seq_`, scale length | `configure`, `reset`, `append_layer`, `commit_step`; masks and positions of Attention | the window is the sink and the latest tokens in order; no write past its end; masks mean positions |
| Session, `generate()` and lifecycle | flags, lock, token counts | `generate`, `run`, `request_cancel`, `set_background`, `on_memory_warning` | positions follow tokens; stop within one step; no drop under an op; every call returns |
| Session, `create()`/`destroy()`, planner, plan cache, IR | graph, plan, slots, cached plans in memory and on disk | fusion passes, topological sort, `get`/`put`, slot reuse, validation, allocation | the outputs are what the caller's graph means; order respects dependencies; live tensors do not share |
| Memory presets and storage planner (`memory_preset.cpp`, `storage_plan.cpp`) | budget, dial, placements | preset, override, clamp; the dial that unpins layers, head, embedding | what is kept and staged fits the budget, and no more is given up than has to be |
| Memory pool, arena, budget (`uaii-memory`) | live map, free lists, chunks, counters | allocate, deallocate, reset | the budget is charged with what is held; buffers do not overlap |
| Native runtimes and backends (`uaii-backends`) | driver handles, tables of buffers, flags | init, allocate, free, copy, dispatch, shutdown, fall back to the host | nothing leaks on a failed path; flags are never ahead of handles; the result is that of the CPU kernel |
| Loaders (`uaii-loaders`), validator, weight loading | the graph being built, its metadata | a layer at a time; `validate_graph`; `load_or_init_weights`; `ensure_kv_cache` | kernels accept what was built; whole files load; query and key are rotated alike |
| Quantization (`gguf_dequant.cpp`, `gguf.cpp`) | – | decode a row | an element is made of the bits its format assigns to it |
| Dashboard chat worker (`chat_worker.mjs`, `index.mjs`) | `Map` of workers, queue, pending table, `busy`, `ready`, child process | HTTP requests, events of the child, timers, stop | no forgotten promise, no lost wake-up, no stray process, every request settles |
| Thread pool, plugins, C API, Python, tokenizers, sampling, scheduler | little or none | – | not modelled, see section 5 |

**Interactions.** A loader builds a graph; `Session::create` validates, plans
and allocates it and reads its weights; `generate` calls `run` per token; `run`
calls the store and the backend per op, and Attention kernels call the KV cache
through a thread-local binding. Beside the compute thread run the store's
`std::async` task, the device's copy engine, and the UI thread, which may
cancel, pause or drop the cache at any moment. The session and its backend share
one allocator. The dashboard talks to a child process over lines of JSON.

**What is hard to test**: the task that fills a buffer while a kernel reads the
other; copies issued ahead of their op; a memory warning between two layers or
two assignments of `generate()`; layers of one step that see different pasts; a
plan read back after a crash; a vendor call that fails in the middle of an
initialisation; a fallback that repeats half of the work; a budget kept in three
places; a model file that lacks one tensor; a late answer to a request that
timed out. `PROJECT.json` lists these hazards at their lines with the properties
that would catch them.

## 2. Modules and the code

| Module | Models | Depends on |
|---|---|---|
| `StreamingWeightStore` | the store and its asynchronous task | – |
| `SessionStreaming` | the op loop of `run()` with streamed weights, uploads and the copy engine | extends `StreamingWeightStore` |
| `TokenWindow` | abstract: the tokens a cache may forget and must keep | – |
| `KvCache` | the cache, Attention's use of it, and the caller it expects | implements `TokenWindow` |
| `Session` | `generate()`, `run()`, the UI thread, `lifecycle_mu_` | extends `KvCache` and implements it |
| `GraphPlanner` | `create()`, fusion, plan cache, sort, slot reuse, validation, execution with symbolic values, crash | – |
| `Allocator` | `MemoryBudget`, `TensorPool`, `ArenaAllocator`, `Allocator` | – |
| `StoragePlan` | memory options, presets, clamp, `build_storage_plan` | – |
| `SessionMemory` | the memory of a session from `create()` to `destroy()` | extends both |
| `DeviceRuntime` | the five `*_runtime_api` files as programs of vendor calls | – |
| `Backend` | the backends over a runtime: life cycle, buffers, copies, dispatch | extends `DeviceRuntime` |
| `ModelGraph` | the graph builder, and what each kernel demands of its operands | – |
| `GgufImport`, `HfImport` | the two loaders of language models | extend `ModelGraph` |
| `QuantCodec` | the bit layouts of the GGUF block formats | – |
| `ModelImport` | a model file on its way to a ready session | extends the three above |
| `ChatWorker` | requests, worker map, queue, timers, child processes | – |
| `SessionStreamingProofs`, `SessionProofs`, `GraphPlannerProofs`, `SessionMemoryProofs`, `BackendProofs`, `ChatWorkerProofs`, `ModelImportProofs` | theorems about the module they are named after (`SessionStreamingProofs` also about `StreamingWeightStore`, `SessionProofs` about `KvCache`, `SessionMemoryProofs` about `Allocator` and `StoragePlan`, `BackendProofs` about `DeviceRuntime`, `ModelImportProofs` about the two loaders) | extend their module |
| `PlannerRunProofs` | theorems about fusion and `run()` in `GraphPlanner` | extends `GraphPlannerProofs` |
| `MC…` | small instances | extend the module they are named after |

**StreamingWeightStore.** The bytes of a buffer are the name of the weight they
are, nothing, or `Torn`. `stage()` and `prefetch()` hold `mu_` throughout and
are one action each; `stage()` has one alternative per path (prefetch consumed,
resident, loaded, failed). The task takes three steps (captured, writing, done
or failed) and takes no lock for its write. `expert_lru` is kept as an order, so
that it can be proved about; `TotalBytes` is an additive function so that no
recursive sum is needed. `kMaxHot` is 32 in the code; at most `3 * top_k` tensors
of one op are hot, so a model of more than ten routed experts leaves the window.

**SessionStreaming.** One action per step of the loop. `data` is where a kernel
will read a weight (a slot, the expert store, the device), `copies` the queue of
the copy engine, which reads host bytes when it gets to them. Three kinds of
backend: kernels on host memory, asynchronous uploads, blocking uploads.
`stage()` waits in `future::get()` with `mu_` held (`StageWaits`), and the task
goes on since it takes no lock. A task that took it (`Task_UnderLock`) would
leave both waiting for ever.

**TokenWindow, KvCache.** A row is the absolute position of its token; FP32 and
INT8 storage are therefore one model. Layer 0 attends before its append
compacts. A refused append may or may not have compacted; a step may be
abandoned at any layer. `TokenWindow` knows neither layers nor rows: tokens
arrive in order, and only the oldest behind the head may be forgotten; under the
refinement mapping its tokens are those every layer still holds. The masks of
`attention_kv_f32` compare places in the cache. After a slide the sink tokens are
nearer in places than in positions; that they then count as near is the one
thing `AttendsItsWindow` allows beyond a mask on positions.

**Session.** The program counter follows `generate()` and `run()` between the
points where another thread can intervene. `MemoryWarning` holds the lock over
three steps (save the scale length, reset, restore), as the code does.
A warning may come at every point, also between the accesses that `generate()`
makes to `kv_` without the lock (`session.cpp:1142`); the data race is modelled
as an interleaving of whole member functions. Such a warning can lose the scale
length (`Session_ScaleLost.cfg`). The history variable `raced` says that one was in
progress when `generate()` last set it, and `ScaleLostOnlyByOverlap` that it is
lost in no other way. The `max_ctx` checks inside the decode loop cannot fire after the check
of the arguments, and the drop applied on entry of the guard is defensive.

**GraphPlanner.** A node is its id, operator, inputs and outputs; the contents
of a buffer is the term computed into it. An op takes two steps, so that an
output that shares a slot with an input of the same op is seen. The nodes that
wait for nothing are queued in any order (a hash map); the rest of Kahn's
algorithm is deterministic. A plan file is complete or torn; a torn one is
refused by `read_plan` (only a cut inside the very last number, which nothing
reads back, would pass). Collisions of `std::hash` are ignored. `validate` is
on, as by default. Sizes are in elements.

**Allocator, StoragePlan, SessionMemory.** A weight is what its name says of it
(the tests of `storage_plan.cpp`; `blk.N.attn_output.weight` also counts as the
output head there), its packed and its f32 size. `create()` turns the dial one
place per step, then allocates one buffer per step from a pool or an arena whose
`malloc` may fail. With memory reuse a slot is as large as the tensor in the
dtype of the graph; without it a quantized weight stays packed. Cached blocks of
the pool keep their charge, so a request of another size may be refused while
memory lies idle. When the `malloc` of an arena's chunk fails, the constructor
throws after the budget has been charged (`arena.cpp:30`); no caller catches it,
so `ArenaThrows` ends the session and its allocator with it. An embedder that
kept the allocator would keep the charge. The backend asks for orphan buffers from the same allocator.

**DeviceRuntime, Backend.** A function of a runtime is a sequence of vendor
calls, each with what it acquires and what the code releases if it fails; the
vendor's answers are the model's choices. `webgpu_init` cannot succeed
(`webgpu_runtime_api.cpp:126`). A dispatch is its operator, the properties of
its arguments the kernels test, where the tensors are and whether the vendor
calls succeed; its outcome is a code, whether the result is right, and how often
the KV cache was appended to. One backend exists per process: the runtimes are
not reference-counted, so `gpu_native_ready` (`factory.cpp:70`) or a second
backend that shuts its runtime down takes it away from the first. `Routed`
selects the runtimes whose dispatch is examined. ROCm is left out, since its
kernels and `hipMemcpy` take pointers as they come, and Metal, whose RMSNorm
kernel does not read the `offset` attribute (`Backend_Metal.cfg`). CUDA scales
all rows of a rotation for the length of the last one
(`cuda_runtime_api.cpp:556`), the CPU kernel each row for its own
(`transformer.cpp:322`): where that matters (`per_row`) the result differs, and
`BackendParity` names this one exception (`ScaledByLastRow`).

**ModelGraph, GgufImport, HfImport, ModelImport.** A file is its tensors with
shapes and the metadata the loader reads, 0 where a key is absent. The loader
adds a layer per step; a tensor is `<<layer, name>>`, an activation its width.
`ModelImport` then validates the graph, reads each weight into a slot of the
memory plan, a buffer of its own or a staging buffer, and sizes the KV cache
from the loader's metadata, with its fallbacks. A GGUF layer without a norm or
output projection ends the import silently (`gguf.cpp:1285`); only the number of
elements of a weight is compared with the file. A Hugging Face
directory names its layers by one of eight prefixes and its positions by one of
five names; `load()` takes them all, while `hf_inspect_directory` looks for
`model.layers.0.` and two of the names, literally. It also blocks a directory
with a listed shard whose header cannot be read, and does not look for every
tensor `load()` demands. An explicit `rotary_dim` of `config.json` is taken as it
is, a percentage is rounded to even. `inspect` is compared with `load()` without
its tokenizer checks.

**QuantCodec.** A bit is `<<array, byte, bit>>` of a block and an element the
sequence of its bits. `DequantCode` is the decoder of packed rows, `WidenCode`
the reader that widens a file to f32. Values (f16 scales, offsets, the IQ4_NL
table) are left out.

**ChatWorker.** An action is what the single-threaded server does between two
awaits. Lines of a process are delivered later, in order, before its close
event; a write to a process that exited is lost (the server listens to no `error` of
`child.stdin`; that Node may end the whole server with an unhandled EPIPE there,
`chat_worker.mjs:233`, is not modelled). Whether the binary can be
launched is fixed per behaviour. A request calls `start()` at most once, so
there are at most as many processes as requests. The call of `pump` in the
ready event finds an empty queue in every reachable state.

## 3. Runs

Passing runs:

| Run | Checks | Shows |
|---|---|---|
| `store_double` | `SlotHoldsItsResident`, `StagedIntact`, `ExpertAccounting`, `ExpertCacheBounded` | two buffers, a task, evictions, loads that fail before they write |
| `run_stream` | `KernelReadsItsWeights`, `RunReturns` | plans with dense, listed and packed expert ops on three kinds of backend |
| `kv_slide` | `WithinWindow`, `WindowIsSinkAndTail`, `AttendsItsWindow`, `ImplementsWindow` (refinement) | three layers, windows smaller and larger than the sink, a sliding-window mask, refused and abandoned steps |
| `session_calls` | `PositionsFollowTokens`, `NothingForgottenWithoutWindow`, `ScaleLostOnlyByOverlap`, `StopsWithinOneStep`, `SuccessIsComplete`, `KeepsKvProtocol` (refinement), `CallsReturn`, `DropHappens` | calls against cancels, background switches and warnings at every point |
| `planner_graphs` | `OpsInOrder`, `NoLiveSharing`, `OutputsRight`, `CreateEnds` | graphs with identities, fusable pairs, shared producers, an op that reads a tensor twice, a cycle, a self loop; cached plans across a crash |
| `session_memory` | `BudgetIsTrue`, `BuffersApart`, `PlanKeepsBudget`, `TrunkIsLargest`, `PhoneFitsFreeMemory` | presets and options against little free memory, the dial, a pool or an arena with failures, frees and reuse |
| `backends` | `NothingLeaks`, `ReadyMeansBuilt`, `BackendParity` | five runtimes that fail at any vendor call; every operator with every residency; copies in all directions |
| `model_import` | `KernelsAccept`, `RotatedAlike`, `CacheFits`, `WholeFilesLoad`, `DecodedAlike`, `FalseReportsExplained` | eighteen families of files, whole, in ten block formats, under other names, and with any one tensor missing, unsupported, listed but absent or behind a broken header |
| `chat_worker` | `NothingForgotten`, `NoIdleQueue`, `NoStrayProcess`, `EveryRequestSettles` | chats, resets and prepares against processes that fail, crash and are stopped |

Runs that find a disagreement between the code and what the repository says of it:

| Run | What happens |
|---|---|
| `planner_identities` | of two `Identity` nodes in a row both are removed, but consumers are rewired by one step: they read a tensor nobody computes, and `run()` succeeds (`fusion.cpp:62`) |
| `import_packed_experts` | expert tensors of a block format stay packed, and the kernel of the listed experts reads them as floats (`transformer.cpp:918`) |
| `import_q4_0` | a Q4_0 tensor widened from the file pairs its nibbles differently from the decoder of packed rows (`gguf.cpp:568`, `gguf_dequant.cpp:135`) |

Further configurations, each of which reproduces one known weakness that the
passing runs leave out by their constants or by what their properties allow:

| Configuration (module) | Violates | What happens |
|---|---|---|
| `Store_TornLoad.cfg` (`MCStreamingWeightStore`) | `StagedIntact` | a load fails half way; `resident_` still names the previous weight, and the next `stage()` of it hands out the damaged buffer (`streaming.cpp:184`; `streaming.hpp:42` says "pointer valid until next stage of same slot") |
| `Run_LayerNorm.cfg` (`MCSessionStreaming`) | `KernelReadsItsWeights` | on the host path an op with two streamed dense inputs stages the second over the first (`session.cpp:810`) |
| `Run_Experts.cfg` (`MCSessionStreaming`) | `KernelReadsItsWeights` | on the host path an expert that the cache has evicted, but that is still in a staging buffer, is handed out from the buffer, and the next expert of the op is loaded over it (`streaming.cpp:275`; `CHANGELOG.md:36` says "several expert tensors can be resident for one MoE op") |
| `Session_ScaleLost.cfg` (`MCSession`) | `ScaleLengthKept` | a memory warning that overlaps `generate()` setting the scale length loses it (`session.cpp:1153`; `CHANGELOG.md:10` says the call is safe and keeps it) |
| `Memory_TrunkFits.cfg` (`MCSessionMemory`) | `TrunkFits` | the plan counts a pinned weight packed, its slot is f32 and rounded up, and the budget refuses it (`session.cpp:328`; `docs/huggingface_support.md:19` says "pins a trunk that fits the budget") |
| `Import_InspectHonest.cfg` (`MCModelImport`) | `InspectHonest` | a directory whose layers or positions have another accepted name is reported blocked, and loads (`hf.cpp:1703`) |
| `Import_InspectComplete.cfg` (`MCModelImport`) | `InspectComplete` | a directory that lacks a tensor the report does not look for is reported importable, and `load()` refuses it (`hf.cpp:1610`) |
| `Import_Late.cfg` (`MCModelImport`) | `OwnWeights` | a tensor whose dtype is refused only when it is read is read again as a raw file, so the container's bytes become its values (`session.cpp:548`) |
| `Backend_Metal.cfg` (`MCBackend`) | `BackendParity` | RMSNorm with an offset is computed without it (`metal_runtime_api.mm:623`) |

Every property of a passing run has a mutant in `PROJECT.json`: a plausible
slip in a mapped definition under which TLC finds the property violated. The
mutants stand in the modules before the definition they change and are used by
nothing.

**Bounds and why they are enough.**
- Store: two dense weights and three experts of sizes 1 and 2 with a budget of 2
  and `MaxHot = 1`: every put may have to evict one or two, and one weight
  exceeds what is left. State is finite without a bound on the number of calls.
- `MaxCopies = 1`: copies that a failed `synchronize()` leaves behind; one is
  enough to be read late, more repeat it.
- `MaxPos = 7` with windows 1 to 3 and steps of 1 and 2: the window slides
  several times over its whole length. `NLayers = 3`: a first, a middle and a
  last layer. `MaxPos` bounds the tokens of a session, as `max_ctx` does.
- Session: prompts of 1 and 3 tokens, 0 or 2 new ones, a window of 2, a context
  some prompts exceed, no limit; any number of calls, cancels and warnings.
- Planner: `MaxCreates = 2` (one create to fill the cache, or to crash in the
  middle of the write, and one to use it), `MaxRuns = 2` (the second run starts
  from used buffers); six graphs of up to six nodes, each with one feature.
- Memory: a unit is 2^27 bytes (`GiB = 8`), so that the presets, their fractions
  and the free memory are whole numbers; size classes and chunks are scaled
  down with them. `DialSteps = 64` as in the code. The two models have a pinned,
  a streamed and an expert weight of each kind; `MaxChunks = 8` bounds only the
  arena's growth by the backend, which never frees.
- Backends: two buffers; the sequences of vendor calls are those of the code, and
  the number of operations is unbounded.
- Import: two layers, a first and a second; widths that differ wherever the
  format lets them and are multiples of the largest block. One fault at a time: a tensor
  missing, unsupported or listed but absent, a broken shard header, or a
  directory renamed to another accepted prefix or position name. One directory
  states a `rotary_dim` besides a percentage.
- Chat: three requests, `QueueMax = 1`, so that one is sent, one queued, one
  refused; `MaxStops = 1`, so two workers. `CHECK_DEADLOCK FALSE`, since the
  requests are finite and the server may then stay idle.

**Inputs left out because the outcome is known.** A file with one expert (its
five inputs are taken for packed banks, `dispatch.cpp:317`); MLA files with
scaled RoPE (the scale is applied to the query, `gguf.cpp:1549`, not to the
shared key, `gguf.cpp:1451`); tensors whose type is looked at only when they are
read (`Import_Late.cfg`); a plan whose expert cache is squeezed to 0 bytes in
`PhoneFitsFreeMemory` (`streaming.cpp:134` takes 0 for "not set", where
`storage_plan.hpp:53` says that nothing is cached); more than 62 pinned layers,
for which 64 turns of the dial do not reach its end; a `rotary_dim` that is odd
or larger than a head (`hf.cpp:792` takes it as it is, and the first token is
refused).

**Fairness.** A thread inside a call is scheduled again: weak fairness of the
compute thread and of the task (`RunSpec`), of the work inside `create()` and
`run()` (`PlannerSpec`). In `SessionSpec` the compute thread has strong fairness,
since it competes for `lifecycle_mu_`: `std::mutex` promises nothing, but
warnings come with pauses in which the lock is free. Nobody is obliged to call
anything. In `ChatSpec` the event loop gets to every event and poll, and a
process loads, answers and obeys a stop in the end; timers and crashes may
happen and need not.

## 4. Proofs

TLAPS proves, for every value of the constants the named assumptions allow:

- **Store** (`StoreAssumption`). `StoreInv` is inductive: types, slots, task,
  pointer and cache. The slot invariants alone are not: that a finished prefetch
  sits in the inactive slot, and that a live task is the one `prefetch_id_` names
  (`FetchConsistent`), is what lets `stage()` flip `active_`; that a pointer into
  the cache stays hot while a task may evict (`OutConsistent`) is what keeps it
  valid. From it: `StoreTypeCorrect`, `SlotsAreSafe`, `ExpertCacheConsistent`
  and, if loads fail only before they write, `StagedStaysIntact` (with torn loads
  it is false: `Store_TornLoad.cfg`). `ExpertCacheStaysBounded` needs `EvictionInv`:
  the list is transitive, so the least recent expert that is cold and survives an
  eviction shows that what is left fits.
- **Streaming in `run()`** (`PlanAssumption`). `RunUsesTheStore`: every step of
  `run()` is a step of the store or leaves it alone, whatever the plan and the
  backend, so all of the above holds in a session. `KernelsReadTheirWeights` is
  for plans that are safe (`SafePlan`) and loads that do not tear. With device
  copies a plan is safe if consecutive ops share no weight that is copied ahead:
  `DeviceInv` says that a staged weight is on the device and no pending copy is
  for it. On the host an op must have one streamed weight, or read experts alone
  that stay in the cache, because all experts fit, or because one buffer is in use
  and the hot window is as wide as the op: `HostInv` says that what is staged is
  among the newest of the hot experts. The proof attempt without these conditions
  found `Run_Experts.cfg`. They are sufficient, not necessary: the host plan of
  `run_stream` (two buffers, experts that do not fit) is not covered and stays
  with TLC; its device plan is.
- **KV cache** (`KvAssumption`). `KvInv` adds to the window invariant how far the
  step in progress has come (`StepConsistent`) and what the rows it appended hold
  (`PendingRows`). From it: `KvTypeCorrect`, `WritesStayWithinWindow`,
  `WindowIsRight`, `DecodingNeverRefused`, `LayersAgree`, and `MasksAreRight`:
  whatever the window, sink and sliding window, a mask on places is a mask on
  positions except for the sink.
- **Refinement** `CacheImplementsWindow`: every step of the cache is a step of
  `TokenWindow`. By `KvInv` all layers hold the same committed tokens, so the
  tokens held by all are an explicit set (the sink and the tail), from which a
  compaction is a `Forget`, a commit a `Learn`, and every other step a `Restart`
  or no step at all.
- **Session** (`SessionAssumption`). `SessionInv`: a step is in progress only
  while ops run, `in_run_` is up exactly then, a warning resets only while it is
  down. From it `StopTakesEffect`, and `SessionRefinesKvCache`: every step of a
  session is a step of `KvCache` or leaves the cache alone, so by
  `WindowIsRight` also `SessionWindowIsRight`, whatever the UI thread does. A
  warning that overlaps `generate()` is no obstacle to this refinement: it spoils the scale length, not the window. `AnswerInv` counts, at
  each point of `generate()`, the tokens fed, those still to be fed and the rows
  the cache was sized for; from it `PositionsAreRight`, `NothingIsForgotten` and
  `SuccessMeansComplete`. `ScaleInv` follows the
  scale length through the three steps of a warning and every access of
  `generate()`, with warnings at any point: `ScaleOnlyLostByOverlap` says that
  every op of a prefill is scaled for its prompt, and every other op not at all,
  unless a warning was in progress when `generate()` last set the length.
- **Planner** (`GraphAssumption`). `OrderInv`: the nodes of a graph and of every
  rewrite of it have distinct ids and produce distinct tensors, a cached plan
  (in memory or in a file that reads back) is ordered for the graph its key
  stands for, and Kahn's queue holds what waits for nothing. That the sort lists every node
  exactly when there is no cycle is a counting argument. From it `PlansAreInOrder`.
  `SharingInv`: the free list has each slot once, and what was in a free slot is
  dead at the op that released it; ranks in the plan are a bijection, so a tensor
  that shares the slot is produced after the last reader of the other. From it
  `SharedBuffersAreDead`, for every graph and every order of the queue.
  `ExecInv` (`PlannerRunProofs`) is about the values. The meaning of a graph is a
  recursion over it, so it is not computed in the proof: it is the one assignment
  of terms that satisfies the equation of every node (`Solves`), and there is
  only one because the nodes of an acyclic graph can be ranked. Each of the two
  fusion passes carries a solution of the old graph to a solution of the new one
  and keeps every tensor that is still read or asked for (`Carries`). Then, at
  every point of a run, a tensor that has been produced and is still to be used
  holds its meaning in the buffer it was given, whatever else went through that
  buffer. From it `RunsComputeTheGraph`: the outputs of any run, with any plan
  (fresh, cached in memory, or read from a file after a crash), are what the
  graph means. It assumes that the graph is `Complete` (every tensor read is an
  input or has a producer) and, where fusion is on, `Unchained`: no Identity that
  is dropped reads another, without which the statement is false
  (`Planner_Identities`).
- **Memory of a session** (`AllocatorAssumption`, `MemoryAssumption`, and
  `PlanAssumption` of `StoragePlan`).
  `MemoryInvariant`: the budget is the sum of the blocks handed out, the cached
  blocks and the chunks; blocks lie apart inside their chunks. `BudgetHolds` and
  `BuffersNeverOverlap` follow for any sizes and any order of calls. For the
  planner, the dial moves one tensor at a time and the bytes kept fall with every
  turn (sums over finite sets, at the head of `SessionMemoryProofs`), so where it stops nothing larger would have fitted:
  `TrunkIsAsLargeAsFits`, `PlanFitsBudget`, `PhoneStaysInFreeMemory`. They assume
  `EnoughTurns`: the code gives the dial 64 turns, enough for 62 layers; beyond
  that, with everything pinned, a plan could exceed its budget unrefused. The
  last two also assume `SomethingToStream`: a model has a weight that is not a
  norm and not empty.
- **Chat worker** (`ChatAssumption`). `ChatInv`: a promise is open exactly while
  its request is queued, pending or being answered, the pending table belongs to
  the live child, `busy` and the timers to the one pending request. From it
  `NothingIsLost`, `QueueIsServed` and `ProcessesAreOwned`, for any number of
  requests, workers and queue places.

- **Backends** (`ApisAssumption`). A program of vendor calls is *tidy* if what a
  call may hold before a step is what the step releases when it fails (`TidyAt`):
  proved once for each of the fourteen programs, from their steps. The one
  exception is Metal, whose device and queue stay when the pipelines fail and
  then count as initialised. `BackendInv` says, for every step of every call: what
  is held is a buffer of the table, a handle of an initialised runtime, or among
  what the next failure releases; an init in progress has acquired what its
  finished steps acquire (`InitGoesOn`). From it `NothingIsLeaked` and
  `ReadyIsBuilt`, for any number of buffers and any order of calls and failures.
  `DispatchIsCpu` is `BackendParity` where the routed runtimes are CUDA, Vulkan
  and WebGPU: a native attempt that fails has appended nothing to the KV cache,
  so the second attempt is the only one that counts (`SecondAttempt`). The value
  of a multi-row rotation that CUDA scales by its last row is excepted, by name.
- **Import** (`ImportConstants`: the integers of a GGUF header and the layer cap
  are signed, those of `config.json` natural, shapes are lists of naturals, a file
  has finitely many tensors; and, since a tensor is its name here and an id in the
  code, no tensor of the file is named as what an attention reads). `ImportInv`:
  nothing is built from a refused file; every node list of both loaders, in each
  form of attention (split, packed, latent, with and without biases, norms and
  rotation), is `Right`: an attention stands among the nodes that make its query
  and key with the same rotation (`AttendsAlike`) and its key and value as wide as
  its layer says (`Sized`), it belongs to a layer below the number the file states
  (`Layered`), and no other node has the name of a value and another width
  (`Calm`). Appending layers keeps that. What the loader noted of latent attention
  is what layer 0 is (`MetaIsKnown`), no weight has the name of an operand, and a
  created session's graph writes each tensor once, so that `Writer` means the node.
  - `OperandsRotatedAlike`, for files that satisfy `StatesRotation`: latent
    attention rotates the key on its own, without the scaling of the metadata and
    before any norm of the key, while the query takes the width of its rotated part
    from the metadata, so a file that has such a layer must state `qk_rope`, no
    scaling and no key norm. For one that does not the two would differ.
  - `CacheFitsEveryLayer`, for files that satisfy `UniformCache`: the cache has one
    width of key and one of value, which the loader takes from the tensors of layer
    0 if it met latent attention and from the head counts if not, and
    `ensure_kv_cache` completes from the first `v` of the graph. All layers that
    are built must then be of the kind and the width of layer 0; nothing in the
    loader checks that. A Hugging Face directory always satisfies it. The number of
    layers is an integer by a counting argument (`GgufLayersIs`): a file of `n`
    tensors has a first layer below `n + 1` without a block.
  - `InspectAgrees`: where the capability report blocks what becomes a session
    (`FalseReportsExplained`), the directory has a name that the report does not
    spell out, a dtype only the report looks at, or a shard header that cannot be
    read. That it blocks nothing that loads is false (`Import_InspectHonest.cfg`).

  Every file of the runs satisfies both hypotheses (`MCFilesAreOrderly`, which TLC
  evaluates).

Every inductive invariant was checked by TLC on the instances of the runs before
it was proved.

Only model-checked:
- liveness (`RunReturns`, `CallsReturn`, `DropHappens`, `CreateEnds`,
  `EveryRequestSettles`), which the prover cannot do;
- how the backends route to ROCm and Metal, for which `BackendParity` is false;
- `KernelsAccept` and `WholeFilesLoad` of the import: they depend on every shape
  of a file agreeing with the others and with its metadata, which is what a family
  of files is. TLC loads every file of eighteen families;
- `DecodedAlike`: there is nothing to generalise, the block formats are a finite
  list and TLC goes through every element of every one.

The theorems of the library that state induction take an operator as a parameter,
which the installed provers cannot instantiate. Where a proof needs induction it
takes a least counterexample instead (`LeastNat`, `SmallestSubset`).

## 5. Not modelled, and why

Numerical code (the arithmetic of kernels, quantization values, sampling) and
text (tokenizers, header and JSON parsing, serializers) have no state a model
checker could explore. Driver calls are external; of the ordering between
streams, only what the session relies on (copies that land late, a
synchronisation that may fail) is in `SessionStreaming`. The thread pool, the
probing of the factory, the scheduler, the ONNX, MLX and PyTorch readers,
plugins, the C API and the bindings are sequential or thin and left out.
Byte totals in reports, logging and profiling decide nothing. `PROJECT.json` has
every component with its reason.

## 6. Plan

Done: store, streaming loop, KV cache and its abstract window, session and
refinement, chat worker, planner, memory, backends, loaders, block formats, with
the theorems of section 4. What is left, in this order:

1. **Proofs**: `KernelsAccept` from a statement of which shapes of a file agree;
   `BackendParity` for a routing that holds the rules of all five.
2. **Two backends in one process**: the probe of the factory beside a session.
3. **Thread pool**: fork and join of `parallel_for`, the thread limit.
4. **Plugins and C API**: registration, lifetime of handles, last error.
5. **Dashboard jobs**: `runProcess`, cancel, the staging of models.

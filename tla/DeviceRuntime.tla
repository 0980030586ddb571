--------------------------- MODULE DeviceRuntime ---------------------------
(* The native device runtimes of uaii-backends: cuda_runtime_api.cpp,        *)
(* rocm_runtime_api.cpp, vulkan_runtime_api.cpp, webgpu_runtime_api.cpp and  *)
(* metal_runtime_api.mm.  Each keeps process-wide handles (streams, queues,  *)
(* pipelines), an initialised flag and a table of the buffers it handed out. *)
(*                                                                           *)
(* A function of a runtime is a sequence of vendor calls, each of which may  *)
(* fail and then releases what the code releases on that path.  A program is *)
(* the sequence of its steps; the vendor's answers are the model's choices.  *)
EXTENDS Naturals, Sequences, FiniteSets

CONSTANTS
  Apis,          \* the runtimes compiled into the program
  Ptrs           \* buffer addresses a runtime can hand out

ASSUME ApisAssumption == Apis \subseteq {"cuda", "rocm", "vulkan", "webgpu", "metal"}

VARIABLES
  api,           \* the runtime this process uses
  held,          \* handles, device memory and scratch buffers not yet released
  inited,        \* g_inited (Metal: g_device is not nil)
  ready,         \* g_add_pipeline_ready, g_pipelines_ready
  allocs,        \* keys of g_device_allocs, g_allocs, g_bufs, g_buffers
  call           \* the runtime function that runs, and its result

runtimeVars == <<api, held, inited, ready, allocs, call>>

-----------------------------------------------------------------------------
(* Steps of a program.  get: acquired on success; rel: released on success;  *)
(* drop: released on failure; opt: how many steps are skipped when the tensor *)
(* already lives on the device or is absent (0: none); soft: the failure is   *)
(* swallowed and the program goes on after the soft steps; alt: taken only    *)
(* after a soft failure; can: FALSE when the vendor cannot make it succeed.   *)
(* What a step names belongs to the call's buffer, or to the runtime (Global).*)

Global == "global"

Get(r, drop) == [get |-> {r}, rel |-> {}, drop |-> drop, opt |-> 0,
                 soft |-> FALSE, alt |-> FALSE, can |-> TRUE]
Do(drop) == [Get("none", drop) EXCEPT !.get = {}]
Opt(s, n) == [s EXCEPT !.opt = n]
Rel(s, r) == [s EXCEPT !.rel = r]
Soft(prog) == [i \in DOMAIN prog |-> [prog[i] EXCEPT !.soft = TRUE]]
Within(prog, more) == [i \in DOMAIN prog |-> [prog[i] EXCEPT !.drop = @ \cup more]]

-----------------------------------------------------------------------------
(* CUDA *)

\* cublasLt is optional: a failure leaves its handle null.
CudaInit ==
  << Do({}),                                      \* device count, set device
     Get("stream", {}),
     Get("copy_stream", {"stream"}),
     Get("cublas", {"copy_stream", "stream"}),
     Do({"cublas", "copy_stream", "stream"}) >>   \* cublasSetStream
  \o Soft(<< Get("cublaslt", {}) >>)

CudaAllocate == << Get("mem", {}) >>

CudaHandles == {"cublas", "cublaslt", "copy_stream", "stream"}

LtDescs == {"matmul_desc", "a_desc", "b_desc", "c_desc"}

\* gemm_rowmajor_f32_lt: descriptors, layouts, row order, matmul, cleanup.
GemmLt ==
  << Get("matmul_desc", {}),
     Do(LtDescs),                                 \* transpose attributes
     Get("a_desc", LtDescs), Get("b_desc", LtDescs), Get("c_desc", LtDescs),
     Do(LtDescs),                                 \* row order
     Rel(Do(LtDescs), LtDescs) >>                 \* matmul, then cleanup()

\* gemm_rowmajor_f32: Lt first, cublasSgemm when it fails.
Gemm == Soft(GemmLt) \o << [Do({}) EXCEPT !.alt = TRUE] >>

\* ensure_device_f32, ensure_device_out_f32: a tensor of the host gets a
\* scratch buffer (and, for an input, a copy).
DeviceIn(buf, drop) ==
  << Opt(Get(buf, drop), 2), Do(drop \cup {buf}) >>

RopeBufs == {"d_in", "d_out", "d_pos", "d_inv"}

\* dispatch_rope after its argument checks.
Rope ==
  DeviceIn("d_in", {"d_in"})
  \o << Opt(Get("d_out", {"d_in", "d_out"}), 1) >>
  \o DeviceIn("d_pos", {"d_in", "d_out", "d_pos"})
  \o << Do({"d_in", "d_out", "d_pos"}),           \* unsupported scale_type
        Get("d_inv", {"d_in", "d_out", "d_pos"}),
        Do(RopeBufs),                             \* inv_freq H2D
        Do(RopeBufs), Do(RopeBufs),               \* launch, stream sync
        Rel(Do(RopeBufs), RopeBufs) >>            \* D2H, release

\* cuda_attention_decode_f32: one score row per head, released on each path.
AttentionDecode ==
  << Get("d_scores", {}),
     Do({"d_scores"}), Do({"d_scores"}),          \* Q K^T, softcap and softmax
     Do({"d_scores"}),                            \* scores V
     Rel(Do({"d_scores"}), {"d_scores"}) >>       \* sync

AttnBufs == {"d_q", "d_out", "d_k_full", "d_v_full"}

\* dispatch_attention: device copies of Q, past and new K/V, then the kernels.
AttentionPack ==
  DeviceIn("d_q", {"d_q"})
  \o << Opt(Get("d_out", {"d_q", "d_out"}), 1),
        Get("d_k_full", {"d_q", "d_out"}),
        Get("d_v_full", {"d_q", "d_out", "d_k_full"}),
        Do(AttnBufs) >>                           \* past and new rows

\* ... the result to the host, the buffers released, and then the host copies
\* of the new K/V that the cache appends.
AttentionTail ==
  << Rel(Do(AttnBufs), AttnBufs), Do({}), Do({}) >>

Attention ==
  AttentionPack \o Within(AttentionDecode, AttnBufs) \o AttentionTail

-----------------------------------------------------------------------------
(* ROCm *)

RocmInit ==
  << Do({}), Get("stream", {}), Get("blas", {"stream"}) >>

RocmAllocate == << Get("mem", {}) >>

RocmHandles == {"blas", "stream"}

-----------------------------------------------------------------------------
(* Vulkan *)

PipelineParts == {"dsl", "layout", "pipe", "pool", "param_buf", "param_mem", "param_map"}

\* build_add_pipeline keeps what it made when it fails; the shader module is
\* its own business, also once the pipeline exists.
BuildAddPipeline ==
  << Get("shader", {}),
     Get("dsl", {"shader"}),
     Get("layout", {"shader"}),
     Rel(Get("pipe", {"shader"}), {"shader"}),
     Get("pool", {}), Do({}),                     \* pool, descriptor set
     Get("param_buf", {}), Do({}),                \* buffer, memory type
     Get("param_mem", {}), Do({}),                \* memory, bind
     Get("param_map", {}) >>

\* Mutant: the command pool is optional like the pipeline.
VulkanInit_PoolOptional ==
  << Get("instance", {}), Do({"instance"}), Do({"instance"}), Get("device", {"instance"}) >>
  \o Soft(<< Get("cmd_pool", {}) >> \o Within(BuildAddPipeline, PipelineParts))

\* vulkan_init survives a failed pipeline: destroy_add_pipeline, Add on mapped
\* memory.
VulkanInit ==
  << Get("instance", {}),
     Do({"instance"}), Do({"instance"}),          \* a device, a compute family
     Get("device", {"instance"}),
     Get("cmd_pool", {"device", "instance"}) >>
  \o Soft(Within(BuildAddPipeline, PipelineParts))

\* Mutant: a failed mapping frees the memory but not the buffer object.
VulkanAllocate_LeaksBuffer ==
  << Get("buffer", {}), Do({"buffer"}), Get("mem", {"buffer"}),
     Do({"mem", "buffer"}), Get("map", {"mem"}) >>

VulkanAllocate ==
  << Get("buffer", {}),
     Do({"buffer"}),                       \* memory type
     Get("mem", {"buffer"}),
     Do({"mem", "buffer"}),         \* bind
     Get("map", {"mem", "buffer"}) >>

\* submit_compute frees the command buffer once it is submitted.
SubmitCompute ==
  << Get("cmd", {}), Do({"cmd"}), Do({"cmd"}),    \* allocate, begin, end
     Rel(Do({"cmd"}), {"cmd"}),                   \* submit, free
     Do({}) >>                                    \* wait idle

VulkanHandles == PipelineParts \cup {"cmd_pool", "device", "instance"}

-----------------------------------------------------------------------------
(* WebGPU *)

\* wait_instance_events returns success only when both requests are answered.
WaitSucceeds(adapter_done, device_done) == adapter_done /\ device_done

\* The first wait comes before the device is asked for.
WebgpuInit ==
  << Get("instance", {}),
     [Get("adapter", {"instance"}) EXCEPT !.can = WaitSucceeds(TRUE, FALSE)],
     [Get("device", {"adapter", "instance"}) EXCEPT !.can = WaitSucceeds(TRUE, TRUE)],
     Get("queue", {"device", "adapter", "instance"}) >>

WebgpuAllocate == << Get("buffer", {}), Get("map", {"buffer"}) >>

WebgpuHandles == {"queue", "device", "adapter", "instance"}

-----------------------------------------------------------------------------
(* Metal *)

\* A failed build_pipelines clears the three pipelines and fails the call, but
\* the device and the queue stay.
MetalInit ==
  << Get("device", {}), Get("queue", {"device"}), Get("pipelines", {}) >>

MetalAllocate == << Get("buffer", {}) >>

MetalHandles == {"pipelines", "queue", "device"}

-----------------------------------------------------------------------------
(* The runtimes' entry points. *)

Init ==
  /\ api \in Apis
  /\ held = {} /\ inited = FALSE /\ ready = FALSE /\ allocs = {}
  /\ call = [fn |-> "none", ptr |-> Global, at |-> 1, soft |-> FALSE, res |-> "ok"]

Idle == call.res # "running"

InitProgram ==
  CASE api = "cuda" -> CudaInit [] api = "rocm" -> RocmInit
    [] api = "vulkan" -> VulkanInit [] api = "webgpu" -> WebgpuInit
    [] api = "metal" -> MetalInit

AllocateProgram ==
  CASE api = "cuda" -> CudaAllocate [] api = "rocm" -> RocmAllocate
    [] api = "vulkan" -> VulkanAllocate [] api = "webgpu" -> WebgpuAllocate
    [] api = "metal" -> MetalAllocate

Program ==
  CASE call.fn = "init" -> InitProgram
    [] call.fn = "allocate" -> AllocateProgram
    [] call.fn = "gemm" -> Gemm
    [] call.fn = "rope" -> Rope
    [] call.fn = "attention" -> Attention
    [] call.fn = "submit" -> SubmitCompute

Handles ==
  (CASE api = "cuda" -> CudaHandles [] api = "rocm" -> RocmHandles
     [] api = "vulkan" -> VulkanHandles [] api = "webgpu" -> WebgpuHandles
     [] api = "metal" -> MetalHandles) \X {Global}

\* What a runtime frees with a buffer: memory, buffer object, mapping.
PartsOf(P) == {"mem", "buffer", "map"} \X P

Mine(names) == names \X {call.ptr}

Begun(fn, p) == [fn |-> fn, ptr |-> p, at |-> 1, soft |-> FALSE, res |-> "running"]
Returned(fn, res) == [call EXCEPT !.fn = fn, !.res = res]

\* *_init: the second call of an initialised runtime succeeds at once.
BeginInit ==
  /\ Idle
  /\ call' = IF inited THEN Returned("init", "ok") ELSE Begun("init", Global)
  /\ UNCHANGED <<api, held, inited, ready, allocs>>

\* *_allocate
BeginAllocate(p) ==
  /\ Idle /\ p \notin allocs
  /\ call' = IF inited THEN Begun("allocate", p) ELSE Returned("allocate", "error")
  /\ UNCHANGED <<api, held, inited, ready, allocs>>

\* The kernels that hold scratch resources while they run.
KernelsOf == CASE api = "cuda" -> {"gemm", "rope", "attention"}
               [] api = "vulkan" -> IF ready THEN {"submit"} ELSE {}
               [] OTHER -> {}

BeginKernel(fn) ==
  /\ Idle /\ inited /\ fn \in KernelsOf
  /\ call' = Begun(fn, Global)
  /\ UNCHANGED <<api, held, inited, ready, allocs>>

\* *_free: CUDA, ROCm and Metal forget and free whatever they are given,
\* Vulkan and WebGPU refuse a pointer they do not know.
RuntimeFree(p) ==
  /\ Idle
  /\ allocs' = allocs \ {p}
  /\ held' = held \ PartsOf({p})
  /\ call' = Returned("free", IF api \in {"vulkan", "webgpu"} /\ p \notin allocs
                              THEN "error" ELSE "ok")
  /\ UNCHANGED <<api, inited, ready>>

\* *_shutdown, after the backend has freed the buffers it knows: those still in
\* the table, then the handles.
Shutdown(freed) ==
  /\ Idle
  /\ held' = held \ (PartsOf(freed \cup allocs) \cup Handles)
  /\ allocs' = {} /\ inited' = FALSE /\ ready' = FALSE
  /\ call' = Returned("shutdown", "ok")
  /\ UNCHANGED api

\* Success of a whole program: init sets the flags, allocate its table.
Finish(res, h) ==
  /\ call' = [call EXCEPT !.res = res]
  /\ inited' = IF call.fn # "init" THEN inited
               ELSE IF api = "metal" THEN <<"device", Global>> \in h ELSE res = "ok"
  /\ ready' = IF call.fn # "init" THEN ready
              ELSE IF api = "vulkan" THEN <<"param_map", Global>> \in h
              ELSE IF api = "metal" THEN res = "ok" ELSE FALSE
  /\ allocs' = IF call.fn = "allocate" /\ res = "ok" THEN allocs \cup {call.ptr} ELSE allocs

\* Go on at step i, or return when there is none.  A fallback step is for a
\* program that met a soft failure.
Continue(i, soft, h) ==
  IF i > Len(Program) \/ (Program[i].alt /\ ~soft)
  THEN Finish("ok", h)
  ELSE /\ call' = [call EXCEPT !.at = i, !.soft = soft]
       /\ UNCHANGED <<inited, ready, allocs>>

StepSucceeds ==
  LET s == Program[call.at] IN
  /\ ~Idle /\ s.can
  /\ held' = (held \cup Mine(s.get)) \ Mine(s.rel)
  /\ Continue(call.at + 1, call.soft, held')
  /\ UNCHANGED api

\* The tensor is on the device already, or there is none.
StepSkipped ==
  /\ ~Idle /\ Program[call.at].opt > 0
  /\ Continue(call.at + Program[call.at].opt, call.soft, held)
  /\ UNCHANGED <<api, held>>

FirstHard(i) ==
  CHOOSE j \in i..(Len(Program) + 1) :
    /\ j > Len(Program) \/ ~Program[j].soft
    /\ \A k \in i..(j - 1) : Program[k].soft

StepFails ==
  LET s == Program[call.at] IN
  /\ ~Idle
  /\ held' = held \ Mine(s.drop)
  /\ IF s.soft THEN Continue(FirstHard(call.at), TRUE, held') ELSE Finish("error", held')
  /\ UNCHANGED api
=============================================================================

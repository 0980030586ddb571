------------------------------ MODULE Backend ------------------------------
(* A device backend (CudaBackend, RocmBackend, VulkanBackend, WebGpuBackend, *)
(* MetalBackend over HostExecutableBackend): its life on top of the native   *)
(* runtime, the buffers it owns, and where dispatch() runs an operator.      *)
(* One backend lives at a time, as the command line creates them; a backend  *)
(* may be shut down and initialised again.                                   *)
EXTENDS DeviceRuntime

CONSTANTS
  Routed,        \* runtimes whose dispatch is examined
  Native         \* native code compiled in and not forced off (BOOLEAN values)

VARIABLES
  native,        \* native_compiled() and not force_host_fallback_
  native_ready,
  initialized,
  device_allocs, \* buffers of the native runtime
  orphan_allocs, \* buffers of the host allocator
  doing,         \* the backend operation that waits for the runtime
  last           \* the last dispatch and what came of it

backendVars == <<native, native_ready, initialized, device_allocs, orphan_allocs, doing, last>>
vars == <<runtimeVars, backendVars>>

-----------------------------------------------------------------------------
(* One operator call.  res: where its tensors live; args_ok, shape_ok: arity,  *)
(* rank and dtype, and the shapes, are those of the operator; the rest are    *)
(* the attributes the native kernels look at.  An outcome is a return code, whether the value is that   *)
(* of the CPU kernel, how often the KV cache was appended to, and whether a   *)
(* processor touched memory that it cannot reach.                             *)

Ops == {"MatMul", "MatMulRelu", "Add", "RMSNorm", "Softmax", "RoPE", "Attention", "MLAExpandK"}

Plain == [args_ok |-> TRUE, shape_ok |-> TRUE, ta |-> FALSE, offset |-> FALSE, seq1 |-> TRUE,
          window |-> FALSE, present |-> FALSE, scale_ok |-> TRUE, per_row |-> FALSE]

\* The argument variations each operator's kernels distinguish.  per_row: rows
\* of several tokens, a scaling that depends on the length of the sequence
\* (dynamic, longrope, su), and no length published in the KV cache: rope_f32
\* then scales each row by its own position.
ArgsOf(op) ==
  {Plain, [Plain EXCEPT !.args_ok = FALSE], [Plain EXCEPT !.shape_ok = FALSE]} \cup
  CASE op \in {"MatMul", "MatMulRelu"} -> {[Plain EXCEPT !.ta = TRUE]}
    [] op = "RMSNorm" -> {[Plain EXCEPT !.offset = TRUE]}
    [] op = "RoPE" -> {[Plain EXCEPT !.scale_ok = FALSE], [Plain EXCEPT !.per_row = TRUE]}
    [] op = "Attention" -> {[Plain EXCEPT !.seq1 = FALSE], [Plain EXCEPT !.window = TRUE],
                            [Plain EXCEPT !.present = TRUE]}
    [] OTHER -> {}

Valid(a) == a.args_ok /\ a.shape_ok

Residency == {"host", "device", "mixed"}

Outcome(code, right, appends) ==
  [code |-> code, right |-> right, appends |-> appends, fault |-> FALSE]
Refused(code) == Outcome(code, FALSE, 0)
Computed(op) == Outcome("ok", TRUE, IF op = "Attention" THEN 1 ELSE 0)
Faulted == [Refused("internal") EXCEPT !.fault = TRUE]

\* The CPU kernels, the reference the backends are compared with.
DispatchCpu(op, a) ==
  IF Valid(a) /\ a.scale_ok THEN Computed(op) ELSE Refused("invalid")

-----------------------------------------------------------------------------
(* The native kernels.  ok: every vendor call of this dispatch succeeds.      *)

CudaMatMul(op, a, ok) ==
  IF ~Valid(a) THEN Refused("invalid")
  ELSE IF ok THEN Computed(op) ELSE Refused("internal")

CudaElementwise(op, a, ok) ==
  IF ~Valid(a) THEN Refused("invalid")
  ELSE IF ok THEN Computed(op) ELSE Refused("internal")

CudaRmsNorm(a, ok) ==
  IF ~Valid(a) THEN Refused("invalid")
  ELSE IF a.offset THEN Refused("unimplemented")
  ELSE IF ok THEN Computed("RMSNorm") ELSE Refused("internal")

CudaSoftmax(a, ok) ==
  IF ~Valid(a) THEN Refused("invalid")
  ELSE IF ok THEN Computed("Softmax") ELSE Refused("internal")

\* One table of frequencies for all rows, by the length after the last of them.
CudaRope(a, ok) ==
  IF ~Valid(a) THEN Refused("invalid")
  ELSE IF ~a.scale_ok THEN Refused("unimplemented")
  ELSE IF ~ok THEN Refused("internal")
  ELSE IF a.per_row THEN [Computed("RoPE") EXCEPT !.right = FALSE] ELSE Computed("RoPE")

\* dispatch_attention up to the device buffers: what the decode path takes.
CudaAttentionTakes(a) ==
  IF a.window THEN "unimplemented"
  ELSE IF ~Valid(a) THEN "invalid"
  ELSE IF ~a.seq1 THEN "unimplemented" ELSE "ok"

\* Mutant: the cache is appended to before present outputs are refused.
CudaAttention_AppendsFirst(a, ok) ==
  LET takes == CudaAttentionTakes(a) IN
  IF takes # "ok" THEN Refused(takes)
  ELSE IF ~ok THEN Refused("internal")
  ELSE IF a.present THEN Outcome("unimplemented", FALSE, 1)
  ELSE Computed("Attention")

\* The kernels run before explicit present outputs are refused, and the cache
\* is appended to last of all.
CudaAttention(a, ok) ==
  LET takes == CudaAttentionTakes(a) IN
  IF takes # "ok" THEN Refused(takes)
  ELSE IF ~ok THEN Refused("internal")
  ELSE IF a.present THEN Refused("unimplemented")
  ELSE Computed("Attention")

CudaDispatch(op, a, ok) ==
  CASE op \in {"MatMul", "MatMulRelu"} -> CudaMatMul(op, a, ok)
    [] op = "Add" -> CudaElementwise(op, a, ok)
    [] op = "RMSNorm" -> CudaRmsNorm(a, ok)
    [] op = "Softmax" -> CudaSoftmax(a, ok)
    [] op = "RoPE" -> CudaRope(a, ok)
    [] op = "Attention" -> CudaAttention(a, ok)
    [] OTHER -> Refused("unimplemented")

\* The HIP kernels take the pointers as they come, and MatMul the shapes.
RocmKernel(op, a, res, ok) ==
  IF ~a.args_ok \/ (op # "MatMul" /\ ~a.shape_ok) THEN Refused("invalid")
  ELSE IF op = "RMSNorm" /\ a.offset THEN Refused("unimplemented")
  ELSE IF res # "device" \/ ~a.shape_ok THEN Faulted
  ELSE IF ok THEN Computed(op) ELSE Refused("internal")

RocmDispatch(op, a, res, ok) ==
  IF op \in {"Add", "RMSNorm", "MatMul"} THEN RocmKernel(op, a, res, ok)
  ELSE Refused("unimplemented")

\* Vulkan and Metal look every tensor up in their table of buffers.
VulkanAdd(a, res) ==
  IF ~Valid(a) \/ res # "device" THEN Refused("invalid") ELSE Computed("Add")

VulkanMatMul(a, res) ==
  IF ~Valid(a) THEN Refused("invalid")
  ELSE IF a.ta THEN Refused("unimplemented")
  ELSE IF res # "device" THEN Refused("invalid") ELSE Computed("MatMul")

VulkanRmsNorm(a, res) ==
  IF ~Valid(a) \/ res # "device" THEN Refused("invalid") ELSE Computed("RMSNorm")

\* Add: the pipeline when it is ready and the queue works, else mapped memory.
VulkanDispatch(op, a, res) ==
  CASE op = "Add" -> VulkanAdd(a, res)
    [] op = "MatMul" -> VulkanMatMul(a, res)
    [] op = "MatMulRelu" -> IF VulkanMatMul(a, res).code # "ok" THEN VulkanMatMul(a, res)
                            ELSE Refused("unimplemented")
    [] op = "RMSNorm" -> VulkanRmsNorm(a, res)
    [] OTHER -> Refused("unimplemented")

MetalAdd(a, res, ok) ==
  IF ~Valid(a) \/ res # "device" THEN Refused("invalid")
  ELSE IF ok THEN Computed("Add") ELSE Refused("internal")

MetalMatMul(a, res, ok) ==
  IF ~Valid(a) THEN Refused("invalid")
  ELSE IF a.ta THEN Refused("unimplemented")
  ELSE IF res # "device" THEN Refused("invalid")
  ELSE IF ok THEN Computed("MatMul") ELSE Refused("internal")

\* The MSL kernel scales by the weight alone: the offset attribute is not read.
MetalRmsNorm(a, res, ok) ==
  IF ~Valid(a) \/ res # "device" THEN Refused("invalid")
  ELSE IF ok THEN [Computed("RMSNorm") EXCEPT !.right = ~a.offset] ELSE Refused("internal")

MetalDispatch(op, a, res, ok) ==
  CASE ~ready -> Refused("unimplemented")
    [] ready /\ op = "Add" -> MetalAdd(a, res, ok)
    [] ready /\ op = "MatMul" -> MetalMatMul(a, res, ok)
    [] ready /\ op = "MatMulRelu" -> IF MetalMatMul(a, res, ok).code # "ok"
                                     THEN MetalMatMul(a, res, ok)
                                     ELSE Refused("unimplemented")
    [] ready /\ op = "RMSNorm" -> MetalRmsNorm(a, res, ok)
    [] OTHER -> Refused("unimplemented")

WebgpuDispatch(op, a) == Refused("unimplemented")

-----------------------------------------------------------------------------
(* Routing: HostExecutableBackend and the five dispatch() functions.          *)

\* Only the CUDA backend can tell a device pointer from a host pointer.
PointerOnDevice(res) == api = "cuda" /\ res # "host"

\* Buffers of Vulkan, WebGPU and Metal are mapped into the host.
HostReachable(res) == api \in {"vulkan", "webgpu", "metal"} \/ res = "host"

\* dispatch_via_host_staging: tensors known to be on the device are copied to
\* the host and back, all others are used in place.  ok: the copies succeed.
DispatchViaHostStaging(op, a, res, ok) ==
  IF PointerOnDevice(res)
  THEN IF ok THEN DispatchCpu(op, a) ELSE Refused("internal")
  ELSE IF HostReachable(res) THEN DispatchCpu(op, a) ELSE Faulted

HostDispatch(op, a) ==
  IF initialized THEN DispatchCpu(op, a) ELSE Refused("invalid")

\* A second attempt repeats the operator: its appends come on top.
Then(first, second) == [second EXCEPT !.appends = @ + first.appends]

CudaBackendDispatch(op, a, res, ok) ==
  CASE res = "host" ->
         IF op \notin {"Attention", "RoPE", "MLAExpandK"} THEN HostDispatch(op, a)
         ELSE LET err == CudaDispatch(op, a, ok) IN
              IF err.code = "unimplemented" THEN Then(err, HostDispatch(op, a)) ELSE err
    [] res = "mixed" -> DispatchViaHostStaging(op, a, res, ok)
    [] res = "device" ->
         LET err == CudaDispatch(op, a, ok) IN
         IF err.code = "ok" THEN err
         ELSE Then(err, DispatchViaHostStaging(op, a, res, ok))

\* The other backends try the native kernel whatever the residency.
Retried(err, op, a, res, ok) ==
  IF err.code = "ok" \/ err.fault THEN err
  ELSE Then(err, DispatchViaHostStaging(op, a, res, ok))

RocmBackendDispatch(op, a, res, ok) == Retried(RocmDispatch(op, a, res, ok), op, a, res, ok)
VulkanBackendDispatch(op, a, res, ok) == Retried(VulkanDispatch(op, a, res), op, a, res, ok)
WebgpuBackendDispatch(op, a, res, ok) == Retried(WebgpuDispatch(op, a), op, a, res, ok)
MetalBackendDispatch(op, a, res, ok) == Retried(MetalDispatch(op, a, res, ok), op, a, res, ok)

BackendDispatch(op, a, res, ok) ==
  CASE ~native_ready -> HostDispatch(op, a)
    [] native_ready /\ api = "cuda" -> CudaBackendDispatch(op, a, res, ok)
    [] native_ready /\ api = "rocm" -> RocmBackendDispatch(op, a, res, ok)
    [] native_ready /\ api = "vulkan" -> VulkanBackendDispatch(op, a, res, ok)
    [] native_ready /\ api = "webgpu" -> WebgpuBackendDispatch(op, a, res, ok)
    [] native_ready /\ api = "metal" -> MetalBackendDispatch(op, a, res, ok)

-----------------------------------------------------------------------------
(* copy_h2d, copy_h2d_async, copy_d2h and copy_d2d.  A caller names a buffer of *)
(* the backend as the device side; before the upload of a tensor exists it may *)
(* still be a host buffer.                                                     *)

CopyArgs ==
  {[kind |-> k, src |-> "host", dst |-> d] : k \in {"h2d", "h2d_async"}, d \in {"host", "device"}}
    \cup {[kind |-> "d2h", src |-> s, dst |-> "host"] : s \in {"host", "device"}}
    \cup {[kind |-> "d2d", src |-> "device", dst |-> "device"]}

OnDevice(c) == "device" \in {c.src, c.dst}

\* std::memcpy
HostCopy(c) ==
  IF OnDevice(c) /\ ~ HostReachable("device") THEN Faulted ELSE Computed("copy")

\* The driver wants each side to be where the kind of the copy says.
DriverCopy(c, ok) ==
  IF (c.kind \in {"h2d", "h2d_async"} /\ c.dst = "host") \/ (c.kind = "d2h" /\ c.src = "host")
  THEN Faulted
  ELSE IF ok THEN Computed("copy") ELSE Refused("internal")

CudaCopy(c, ok) == DriverCopy(c, ok)
RocmCopy(c, ok) == DriverCopy(c, ok)

CudaBackendCopy(c, ok) == IF OnDevice(c) THEN CudaCopy(c, ok) ELSE HostCopy(c)

RocmBackendCopy(c, ok) == RocmCopy(c, ok)

\* Vulkan, WebGPU and Metal: device pointers are mapped memory.
MappedCopy(c) == HostCopy(c)

BackendCopy(c, ok) ==
  CASE ~native_ready -> HostCopy(c)
    [] native_ready /\ api = "cuda" -> CudaBackendCopy(c, ok)
    [] native_ready /\ api = "rocm" -> RocmBackendCopy(c, ok)
    [] native_ready /\ api \in {"vulkan", "webgpu", "metal"} -> MappedCopy(c)

-----------------------------------------------------------------------------
(* The life of the backend.                                                   *)

NotYet == [op |-> "none"]

InitBackend ==
  /\ Init
  /\ native \in Native
  /\ native_ready = FALSE /\ initialized = FALSE
  /\ device_allocs = {} /\ orphan_allocs = {}
  /\ doing = "none" /\ last = NotYet

Free == doing = "none" /\ Idle

\* initialize(): the host path first, the native runtime when there is one.
Initialize ==
  /\ Free
  /\ initialized' = TRUE /\ native_ready' = FALSE
  /\ IF native THEN BeginInit /\ doing' = "init"
                ELSE UNCHANGED <<runtimeVars, doing>>
  /\ last' = NotYet
  /\ UNCHANGED <<native, device_allocs, orphan_allocs>>

InitializeReturns ==
  /\ doing = "init" /\ Idle
  /\ native_ready' = (call.res = "ok")
  /\ doing' = "none"
  /\ UNCHANGED <<runtimeVars, native, initialized, device_allocs, orphan_allocs, last>>

\* allocate(): of the device, or of the host allocator.
Allocate(p) ==
  /\ Free /\ initialized /\ p \notin device_allocs \cup orphan_allocs
  /\ IF native_ready
     THEN BeginAllocate(p) /\ doing' = "allocate" /\ UNCHANGED orphan_allocs
     ELSE orphan_allocs' = orphan_allocs \cup {p} /\ UNCHANGED <<runtimeVars, doing>>
  /\ last' = NotYet
  /\ UNCHANGED <<native, native_ready, initialized, device_allocs>>

AllocateReturns ==
  /\ doing = "allocate" /\ Idle
  /\ device_allocs' = IF call.res = "ok" THEN device_allocs \cup {call.ptr} ELSE device_allocs
  /\ doing' = "none"
  /\ UNCHANGED <<runtimeVars, native, native_ready, initialized, orphan_allocs, last>>

\* free(): a pointer that is in neither list is refused.
FreeBuffer(p) ==
  /\ Free
  /\ IF native_ready /\ p \in device_allocs
     THEN RuntimeFree(p) /\ device_allocs' = device_allocs \ {p} /\ UNCHANGED orphan_allocs
     ELSE /\ orphan_allocs' = IF native_ready THEN orphan_allocs ELSE orphan_allocs \ {p}
          /\ UNCHANGED <<runtimeVars, device_allocs>>
  /\ last' = NotYet
  /\ UNCHANGED <<native, native_ready, initialized, doing>>

\* shutdown(): the backend's buffers, the runtime if this backend brought it
\* up, then the host buffers.
ShutdownBackend ==
  /\ Free
  /\ IF native_ready THEN Shutdown(device_allocs)
     ELSE /\ held' = held \ PartsOf(device_allocs)
          /\ allocs' = allocs \ device_allocs
          /\ UNCHANGED <<api, inited, ready, call>>
  /\ device_allocs' = {} /\ orphan_allocs' = {}
  /\ native_ready' = FALSE /\ initialized' = FALSE /\ last' = NotYet
  /\ UNCHANGED <<native, doing>>

\* The kernels of a dispatch that hold scratch resources.
DispatchKernel(fn) ==
  /\ Free /\ native_ready
  /\ BeginKernel(fn)
  /\ last' = NotYet
  /\ UNCHANGED <<native, native_ready, initialized, device_allocs, orphan_allocs, doing>>

\* dispatch(): device tensors exist only in a runtime that is up.  One
\* dispatch is looked at between two other operations.
Dispatch(op, a, res, ok) ==
  /\ Free /\ api \in Routed /\ last = NotYet
  /\ res # "host" => native_ready
  /\ last' = [api |-> api, op |-> op, args |-> a, res |-> res, ok |-> ok,
              out |-> BackendDispatch(op, a, res, ok)]
  /\ UNCHANGED <<runtimeVars, native, native_ready, initialized, device_allocs,
                 orphan_allocs, doing>>

Copy(c, ok) ==
  /\ Free /\ api \in Routed /\ last = NotYet
  /\ OnDevice(c) => native_ready
  /\ last' = [api |-> api, op |-> "copy", args |-> Plain, res |-> c, ok |-> ok,
              out |-> BackendCopy(c, ok)]
  /\ UNCHANGED <<runtimeVars, native, native_ready, initialized, device_allocs,
                 orphan_allocs, doing>>

RuntimeSteps ==
  /\ StepSucceeds \/ StepSkipped \/ StepFails
  /\ UNCHANGED backendVars

NextBackend ==
  \/ Initialize \/ InitializeReturns \/ AllocateReturns \/ ShutdownBackend \/ RuntimeSteps
  \/ \E p \in Ptrs : Allocate(p) \/ FreeBuffer(p)
  \/ \E fn \in {"gemm", "rope", "attention", "submit"} : DispatchKernel(fn)
  \/ \E op \in Ops, res \in Residency, ok \in BOOLEAN : \E a \in ArgsOf(op) :
       Dispatch(op, a, res, ok)
  \/ \E c \in CopyArgs, ok \in BOOLEAN : Copy(c, ok)

SpecBackend == InitBackend /\ [][NextBackend]_vars

-----------------------------------------------------------------------------
(* Between calls the runtime holds the parts of the buffers in its table and, *)
(* while it is up, its handles: no failed init, allocation or kernel of       *)
(* *_runtime_api leaves a handle or a scratch buffer behind.                  *)
NothingLeaks ==
  Idle => held \subseteq PartsOf(allocs) \cup IF inited THEN Handles ELSE {}

\* The handles without which the kernels of an initialised runtime cannot run.
Needed ==
  CASE api = "cuda" -> {"stream", "copy_stream", "cublas"}
    [] api = "rocm" -> RocmHandles
    [] api = "vulkan" -> {"instance", "device", "cmd_pool"} \cup IF ready THEN PipelineParts ELSE {}
    [] api = "webgpu" -> WebgpuHandles
    [] api = "metal" -> {"device", "queue"} \cup IF ready THEN {"pipelines"} ELSE {}

(* native_ready_ of a backend and the flags of the runtime are never ahead of *)
(* the handles: *_dispatch and *_allocate do not use a null stream, queue,    *)
(* pipeline or mapped parameter buffer, whatever failed on the way there.     *)
ReadyMeansBuilt ==
  Idle => /\ native_ready => inited
          /\ inited => Needed \X {Global} \subseteq held
          /\ \A p \in allocs : PartsOf({p}) \cap held # {}

\* What dispatch_rope of CUDA scales by the last row, and rope_f32 row by row.
ScaledByLastRow(d) == d.api = "cuda" /\ d.op = "RoPE" /\ d.args.per_row

(* A dispatch that reports success computed what the CPU kernel computes and  *)
(* appended to the KV cache once, also when a native attempt came first; it   *)
(* fails only when the call is invalid or a vendor call failed; and neither   *)
(* a dispatch nor a copy gives a processor memory it cannot reach.  Only the  *)
(* value of a rotation that CUDA scales by its last row may be another.       *)
BackendParity ==
  last # NotYet =>
    LET out == last.out  cpu == DispatchCpu(last.op, last.args) IN
    /\ ~out.fault
    /\ out.code = "ok" =>
         out = cpu \/ (ScaledByLastRow(last) /\ out = [cpu EXCEPT !.right = FALSE])
    /\ out.code # "ok" => cpu.code # "ok" \/ ~last.ok \/ ~initialized
=============================================================================

SPECIFICATION SpecBackend
CONSTANTS
  Apis = {"cuda", "rocm", "vulkan", "webgpu", "metal"}
  Routed = {"cuda", "vulkan", "webgpu"}
  Ptrs = {"p", "q"}
  Native = {TRUE, FALSE}
INVARIANT NothingLeaks
INVARIANT ReadyMeansBuilt
INVARIANT BackendParity

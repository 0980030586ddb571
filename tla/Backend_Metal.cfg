SPECIFICATION SpecBackend
CONSTANTS
  Apis = {"metal"}
  Routed = {"metal"}
  Ptrs = {"p", "q"}
  Native = {TRUE, FALSE}
INVARIANT BackendParity

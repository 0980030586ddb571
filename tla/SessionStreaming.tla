-------------------------- MODULE SessionStreaming --------------------------
(***************************************************************************)
(* The loop of uaii::runtime::Session::run() over the ops of the plan, as   *)
(* far as it concerns streamed weights: stage the inputs of an op, upload   *)
(* them when the backend copies asynchronously, prefetch for the next op,   *)
(* dispatch.  The store's asynchronous task and the device's copy engine    *)
(* run beside it.  A failed step makes run() return; the next run() starts  *)
(* from whatever the store and the device then hold.                        *)
(***************************************************************************)
EXTENDS StreamingWeightStore

CONSTANTS
    Plans,      \* plan_.ops for each mode: [inputs |-> streamed inputs in order,
                \*                           listed |-> MoE with listed experts]
    TopK,       \* experts a listed MoE op routes to (one tensor stands for an expert's three)
    Modes,      \* "host", "async", "blocking": how an upload reaches the kernels
    MaxCopies   \* bound: copies that failed calls of synchronize() leave under way

ASSUME PlanAssumption ==
    /\ \A m \in Modes : /\ Plans[m] \in Seq([inputs : Seq(Weights), listed : BOOLEAN])
                         /\ Len(Plans[m]) > 0
    /\ TopK \in Nat \ {0}
    /\ Modes \subseteq {"host", "async", "blocking"}
    /\ MaxCopies \in Nat

VARIABLES
    pc,       \* where run() is: idle, stage, prefetch, peek, dispatch
    oi,       \* the op in progress
    k,        \* the input of that op, or of the next one, that is handled next
    keep,     \* moe_keep: the experts the op in progress is routed to
    data,     \* buffers_[w].data of the session: where a kernel reads weight w
    device,   \* what stream_device_[w] holds
    copies,   \* host to device copies issued and not yet done, in order
    in_flight,\* stream_device_[w].h2d_in_flight
    mode      \* the kind of backend, fixed when the session is created

runVars == <<pc, oi, k, keep, data, device, copies, in_flight, mode>>
vars == <<storeVars, runVars>>

OnDevice == 3
Null     == 4

Plan       == Plans[mode]
Inputs(i)  == Plan[i].inputs
InputSet(i) == {Inputs(i)[j] : j \in DOMAIN Inputs(i)}

(* The experts the router may choose for op i. *)
Routings(i) ==
    IF Plan[i].listed
    THEN {S \in SUBSET (InputSet(i) \cap Experts) : Cardinality(S) = TopK}
    ELSE {{}}

(* stage_streamed_inputs skips the experts of a listed op that are not routed. *)
Skipped(i, w) == Plan[i].listed /\ w \in Experts /\ w \notin keep
Read(i) == {w \in InputSet(i) : ~ Skipped(i, w)}

KernelReads(w) ==
    CASE data[w] = Null     -> NoWeight
      [] data[w] = OnDevice -> device[w]
      [] OTHER              -> Reads([id |-> w, at |-> data[w]])

-----------------------------------------------------------------------------
InitRun ==
    /\ Init
    /\ pc = "idle" /\ oi = 1 /\ k = 1 /\ keep = {}
    /\ data = [w \in Weights |-> Null]
    /\ device = [w \in Weights |-> NoWeight]
    /\ copies = << >>
    /\ in_flight = [w \in Weights |-> FALSE]
    /\ mode \in Modes

Goto(where, op, input) == pc' = where /\ oi' = op /\ k' = input

RunBegins ==
    /\ pc = "idle"
    /\ Goto("stage", 1, 1)
    /\ keep' \in Routings(1)
    /\ UNCHANGED <<storeVars, data, device, copies, in_flight, mode>>

(* An error anywhere: run() returns and leaves everything as it is. *)
RunFails == Goto("idle", 1, 1) /\ UNCHANGED <<keep, data, mode>>

(* What the device holds once every copy of a queue has been done. *)
Landed(dev, queue, bufs, store) ==
    [w \in Weights |->
        LET mine == {i \in DOMAIN queue : queue[i].id = w}
            last == CHOOSE i \in mine : \A j \in mine : j <= i
        IN  IF mine = {} THEN dev[w] ELSE ReadsFrom(bufs, store, queue[last])]

(* Mutant: a weight copied ahead is taken for uploaded. *)
Upload_TrustsCopyAhead(w) ==
    /\ data' = [data EXCEPT ![w] = IF mode = "host" THEN out'.at ELSE OnDevice]
    /\ device' = IF mode = "host" THEN device
                 ELSE Landed(device, IF in_flight[w] THEN copies ELSE Append(copies, out'),
                             buffers', expert_store')
    /\ copies' = << >>
    /\ in_flight' = [in_flight EXCEPT ![w] = FALSE]

(* upload_streamed_weight and sync_stream_h2d, right after stage(w).  An    *)
(* asynchronous upload is followed by synchronize(), which drains the queue. *)
Upload(w) ==
    CASE mode = "host" ->
           /\ data' = [data EXCEPT ![w] = out'.at]
           /\ UNCHANGED <<device, copies, in_flight>>
      [] mode = "async" ->
           /\ data' = [data EXCEPT ![w] = OnDevice]
           /\ device' = Landed(device, Append(copies, out'), buffers', expert_store')
           /\ copies' = << >>
           /\ in_flight' = [in_flight EXCEPT ![w] = FALSE]
      [] mode = "blocking" ->
           /\ data' = [data EXCEPT ![w] = OnDevice]
           /\ device' = [device EXCEPT ![w] = ReadsFrom(buffers', expert_store', out')]
           /\ in_flight' = [in_flight EXCEPT ![w] = FALSE]
           /\ UNCHANGED copies

StageInput ==
    /\ pc = "stage" /\ k <= Len(Inputs(oi))
    /\ LET w == Inputs(oi)[k] IN
       \/ /\ Skipped(oi, w)
          /\ Goto("stage", oi, k + 1)
          /\ UNCHANGED <<storeVars, keep, data, device, copies, in_flight, mode>>
       \/ /\ ~ Skipped(oi, w)
          /\ Stage(w) /\ out'.id # NoWeight
          /\ Upload(w)
          /\ Goto("stage", oi, k + 1)
          /\ UNCHANGED <<keep, mode>>
       \/ /\ ~ Skipped(oi, w)
          /\ Stage(w) /\ out'.id = NoWeight
          /\ RunFails
          /\ UNCHANGED <<device, copies, in_flight>>

(* stream_device_ cannot be allocated or the copy is refused. *)
UploadFails ==
    /\ pc = "stage" /\ k <= Len(Inputs(oi)) /\ mode # "host"
    /\ ~ Skipped(oi, Inputs(oi)[k])
    /\ Stage(Inputs(oi)[k]) /\ out'.id # NoWeight
    /\ RunFails
    /\ UNCHANGED <<device, copies, in_flight>>

(* The copy is issued, but synchronize() reports an error. *)
SyncFails ==
    /\ pc = "stage" /\ k <= Len(Inputs(oi)) /\ mode = "async"
    /\ Len(copies) < MaxCopies
    /\ LET w == Inputs(oi)[k] IN
       /\ ~ Skipped(oi, w)
       /\ Stage(w) /\ out'.id # NoWeight
       /\ data' = [data EXCEPT ![w] = OnDevice]
       /\ copies' = Append(copies, out')
       /\ in_flight' = [in_flight EXCEPT ![w] = TRUE]
    /\ Goto("idle", 1, 1)
    /\ UNCHANGED <<keep, device, mode>>

AllStaged ==
    /\ pc = "stage" /\ k > Len(Inputs(oi))
    /\ Goto(IF oi < Len(Plan) THEN "prefetch" ELSE "dispatch", oi, 1)
    /\ UNCHANGED <<storeVars, keep, data, device, copies, in_flight, mode>>

-----------------------------------------------------------------------------
(* prefetch(w) for an input of the next op; experts of a listed op are left *)
(* out, their routing is not known yet.                                      *)
PrefetchNext ==
    /\ pc = "prefetch" /\ k <= Len(Inputs(oi + 1))
    /\ LET w == Inputs(oi + 1)[k] IN
       \/ /\ Plan[oi + 1].listed /\ w \in Experts
          /\ Goto("prefetch", oi, k + 1)
          /\ UNCHANGED storeVars
       \/ /\ ~ (Plan[oi + 1].listed /\ w \in Experts)
          /\ Prefetch(w) \/ (~ CanPrefetch(w) /\ UNCHANGED storeVars)
          /\ Goto("peek", oi, k)
    /\ UNCHANGED <<keep, data, device, copies, in_flight, mode>>

(* try_prefetch_stream_h2d(w): a weight that can be peeked, and has no copy *)
(* under way, is copied ahead of its op; nothing waits for that copy here.   *)
CopyAhead(w) ==
    IF mode = "host" \/ ~ CanPeek(w) \/ in_flight[w]
    THEN UNCHANGED <<device, copies, in_flight>>
    ELSE LET p == [id |-> w, at |-> 1 - active] IN
         IF mode = "async"
         THEN /\ copies' = Append(copies, p)
              /\ in_flight' = [in_flight EXCEPT ![w] = TRUE]
              /\ UNCHANGED device
         ELSE /\ device' = [device EXCEPT ![w] = Reads(p)]
              /\ UNCHANGED <<copies, in_flight>>

PeekNext_SameInput ==                 \* mutant: the loop does not advance
    /\ pc = "peek"
    /\ CopyAhead(Inputs(oi + 1)[k])
    /\ Goto("prefetch", oi, k)
    /\ UNCHANGED <<storeVars, keep, data, mode>>

PeekNext ==
    /\ pc = "peek"
    /\ CopyAhead(Inputs(oi + 1)[k])
    /\ Goto("prefetch", oi, k + 1)
    /\ UNCHANGED <<storeVars, keep, data, mode>>

AllPrefetched ==
    /\ pc = "prefetch" /\ k > Len(Inputs(oi + 1))
    /\ Goto("dispatch", oi, 1)
    /\ UNCHANGED <<storeVars, keep, data, device, copies, in_flight, mode>>

-----------------------------------------------------------------------------
(* The kernel has returned; the next op is staged. *)
OpDone ==
    /\ pc = "dispatch" /\ oi < Len(Plan)
    /\ Goto("stage", oi + 1, 1)
    /\ keep' \in Routings(oi + 1)
    /\ UNCHANGED <<storeVars, data, device, copies, in_flight, mode>>

(* After the last op run() synchronizes the backend and returns. *)
RunDone ==
    /\ pc = "dispatch" /\ oi = Len(Plan)
    /\ Goto("idle", 1, 1)
    /\ device' = Landed(device, copies, buffers, expert_store)
    /\ copies' = << >>
    /\ UNCHANGED <<storeVars, keep, data, in_flight, mode>>

OpFails ==
    /\ pc = "dispatch"
    /\ RunFails
    /\ UNCHANGED <<storeVars, device, copies, in_flight>>

(* The copy engine reads the host bytes whenever it gets to them. *)
CopyLands ==
    /\ copies # << >>
    /\ device' = [device EXCEPT ![Head(copies).id] = Reads(Head(copies))]
    /\ copies' = Tail(copies)
    /\ UNCHANGED <<storeVars, pc, oi, k, keep, data, in_flight, mode>>

(* stage() is in a future's get(), and has mu_. *)
StageWaits ==
    /\ pc = "stage" /\ k <= Len(Inputs(oi)) /\ ~ Skipped(oi, Inputs(oi)[k])
    /\ TaskAlive

Task_UnderLock ==          \* mutant: the task takes mu_, as all the other users of the store do
    /\ ~ StageWaits
    /\ (TaskWrites \/ TaskDone \/ TaskFailed) /\ UNCHANGED runVars

(* stage_into needs no lock: the task goes on while stage() waits for it. *)
Task == (TaskWrites \/ TaskDone \/ TaskFailed) /\ UNCHANGED runVars

Compute == \/ StageInput \/ UploadFails \/ SyncFails \/ AllStaged
           \/ PrefetchNext \/ PeekNext \/ AllPrefetched
           \/ OpDone \/ RunDone \/ OpFails

NextRun == RunBegins \/ Compute \/ CopyLands \/ Task

(* The thread in run() and the std::async thread are always scheduled again. *)
RunSpec == InitRun /\ [][NextRun]_vars /\ WF_vars(Compute) /\ WF_vars(Task)

-----------------------------------------------------------------------------
(* Properties *)

(* While a kernel runs, every streamed input it reads is that weight: not   *)
(* the next op's weight, which the task is loading meanwhile, not an evicted *)
(* expert, and not what an early copy to the device picked up.               *)
KernelReadsItsWeights ==
    pc = "dispatch" => \A w \in Read(oi) : KernelReads(w) = w

(* Plans whose kernels never read a buffer that was given away meanwhile.    *)
(* With device copies: consecutive ops share no weight that is copied ahead.  *)
(* On the host: an op has one streamed weight, or reads experts alone, and    *)
(* they stay in the cache: all fit, or one buffer is in use (there is no      *)
(* second, or nothing is prefetched) and the hot window is wide enough.        *)
OpInputs(m, i) == {Plans[m][i].inputs[j] : j \in DOMAIN Plans[m][i].inputs}
Ahead(m, i)    == IF Plans[m][i].listed THEN OpInputs(m, i) \ Experts ELSE OpInputs(m, i)
AllExpertsFit  == TotalBytes[Experts] <= ExpertCacheBytes
OneBuffer(m)   == StagingSlots = 1 \/ \A i \in 2 .. Len(Plans[m]) : Ahead(m, i) = {}
HotEnough(m, i) ==
    (IF Plans[m][i].listed THEN TopK ELSE Cardinality(OpInputs(m, i))) <= MaxHot
OneWeight(m, i) == \A v, w \in OpInputs(m, i) : v = w
SafePlan(m) ==
    IF m = "host"
    THEN \A i \in 1 .. Len(Plans[m]) :
            \/ OneWeight(m, i)
            \/ /\ OpInputs(m, i) \subseteq Experts
               /\ AllExpertsFit \/ (OneBuffer(m) /\ HotEnough(m, i))
    ELSE \A i \in 1 .. (Len(Plans[m]) - 1) : OpInputs(m, i) \cap Ahead(m, i + 1) = {}

(* What makes KernelReadsItsWeights inductive for such plans.  Staged: the    *)
(* inputs run() has staged for the op in progress.                            *)
Staged == {w \in Read(oi) : \/ pc \in {"prefetch", "peek", "dispatch"}
                            \/ pc = "stage" /\ \E j \in 1 .. (k - 1) : Inputs(oi)[j] = w}

RunTypeOK ==
    /\ pc \in {"idle", "stage", "prefetch", "peek", "dispatch"}
    /\ mode \in Modes /\ oi \in 1 .. Len(Plan) /\ k \in Nat \ {0}
    /\ pc = "stage" => k <= Len(Inputs(oi)) + 1
    /\ pc \in {"prefetch", "peek"} => oi < Len(Plan)
    /\ pc = "peek" => k <= Len(Inputs(oi + 1))
                      /\ Inputs(oi + 1)[k] \in Ahead(mode, oi + 1)
    /\ pc # "idle" => keep \in Routings(oi)
    /\ data \in [Weights -> {0, 1, InStore, OnDevice, Null}]
    /\ device \in [Weights -> Content]
    /\ copies \in Seq([id : Weights, at : {0, 1, InStore}])
    /\ \A i \in DOMAIN copies : copies[i].at = InStore => copies[i].id \in Experts
    /\ in_flight \in [Weights -> BOOLEAN]

(* A weight staged on a device is there, and no pending copy is for it. *)
DeviceInv ==
    /\ mode # "async" => copies = << >>
    /\ \A i \in DOMAIN copies : copies[i].id \notin Staged
    /\ mode # "host" => \A w \in Staged : data[w] = OnDevice /\ device[w] = w

(* The last n of the hot experts. *)
Newest(hot, n) == {hot[j] : j \in {l \in DOMAIN hot : l > Len(hot) - n}}
EachOnce(s)    == \A i, j \in DOMAIN s : i # j => s[i] # s[j]

(* The staging buffers hold no expert that is not in the cache as well, and  *)
(* what is staged stays there: nothing is ever evicted, or it is hot.         *)
HostInv ==
    mode = "host" =>
        /\ AllExpertsFit \/ OneBuffer(mode) =>
               \A s \in Slot : resident[s] \in Experts => resident[s] \in Cached
        /\ AllExpertsFit /\ Experts # {} => expert_budget = ExpertCacheBytes
        /\ OneBuffer(mode) => /\ active = 0 /\ resident[1] = NoWeight /\ future = "none"
                              /\ EachOnce(expert_hot)
        /\ IF OneWeight(mode, oi)
           THEN \A w \in Staged : out.id = w /\ data[w] = out.at
           ELSE /\ \A w \in Staged : w \in Cached /\ data[w] = InStore
                /\ AllExpertsFit \/ Staged \subseteq Newest(expert_hot, Cardinality(Staged))

RunInv == StoreInv /\ RunTypeOK /\ DeviceInv /\ HostInv

(* run() returns: stage() waits under mu_ for a task that itself needs no    *)
(* lock, and nothing waits for the compute thread.                           *)
RunReturns == (pc = "stage") ~> (pc = "idle")
=============================================================================

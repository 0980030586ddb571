----------------------------- MODULE GraphPlanner -----------------------------
(***************************************************************************)
(* From a graph to a session that runs it: Session::create() rewrites the    *)
(* graph (fusion), orders its nodes or takes the order from the plan cache,   *)
(* shares buffers between tensors whose lifetimes do not meet, validates and  *)
(* allocates; run() then executes the ops in order on those buffers.          *)
(*                                                                            *)
(* The contents of a buffer are the term that was computed: an operator       *)
(* applied to the terms its inputs held.  The process may crash at any        *)
(* moment; the plan cache on disk survives.                                   *)
(***************************************************************************)
EXTENDS Integers, Sequences, FiniteSets, SequencesExt

CONSTANTS
    OpTypes,     \* the names of operators
    Graphs,      \* graphs create() is called with
    OptionSets,  \* SessionOptions: [fusion, reuse, cache : BOOLEAN]
    MaxCreates,  \* bound: calls of create(), by this process and the ones after a crash
    MaxRuns      \* bound: calls of run() on one session

NodeTypes   == [id : Nat, op : OpTypes, ins : Seq(Nat), outs : Seq(Nat)]
GraphFields == {"nodes", "inputs", "outputs", "weights", "bytes"}

(* graph.tensors is the domain of bytes, the estimated size of each tensor.  *)
(* GraphBuilder, which every loader uses, gives each node an id of its own;  *)
(* no two nodes have an output in common.                                     *)
IsGraph(g) ==
    /\ DOMAIN g = GraphFields
    /\ g.nodes \in Seq(NodeTypes)
    /\ g.bytes \in [DOMAIN g.bytes -> Nat] /\ DOMAIN g.bytes \subseteq Nat
    /\ IsFiniteSet(DOMAIN g.bytes)
    /\ g.inputs \subseteq Nat /\ g.outputs \subseteq Nat /\ g.weights \subseteq Nat
    /\ \A i, j \in DOMAIN g.nodes : i # j =>
           /\ g.nodes[i].id # g.nodes[j].id
           /\ ToSet(g.nodes[i].outs) \cap ToSet(g.nodes[j].outs) = {}

ASSUME GraphAssumption ==
    /\ {"Identity", "MatMul", "Relu", "MatMulRelu"} \subseteq OpTypes
    /\ \A g \in Graphs : IsGraph(g)
    /\ OptionSets \subseteq [fusion : BOOLEAN, reuse : BOOLEAN, cache : BOOLEAN]
    /\ MaxCreates \in Nat /\ MaxRuns \in Nat

VARIABLES
    pc, creates, result,
    src, opt,          \* the arguments of create()
    graph,             \* graph_: src after the fusion passes
    entries, disk,     \* the plan cache: in memory and in files, as pairs of key and ops
    ops, queue,        \* plan_.ops, and the queue of Kahn's algorithm
    slot_of, slots,    \* tensor_to_slot, and the bytes of each slot
    todo, free_list,   \* activations without a slot, and the slots they may share
    mem,               \* the contents of the allocated slots
    round, oi          \* which run() this is, and the op it is at

planVars == <<ops, queue, slot_of, slots, todo, free_list>>
execVars == <<mem, round, oi>>
cacheVars == <<entries, disk>>
vars == <<pc, creates, result, src, opt, graph, cacheVars, planVars, execVars>>

-----------------------------------------------------------------------------
(* Graphs *)

Tensors(g)  == DOMAIN g.bytes
GraphIo(g)  == g.inputs \cup g.outputs
Uses(nodes) == UNION {ToSet(n.ins) \cup ToSet(n.outs) : n \in ToSet(nodes)}
Producers(g, t) == {n \in ToSet(g.nodes) : t \in ToSet(n.outs)}

(* The elements of s that are in T, in the order of s: SelectSeq, by a       *)
(* function of the first i elements.                                          *)
Picked(s, T) ==
    LET upTo[i \in 0 .. Len(s)] ==
            IF i = 0 THEN << >>
            ELSE IF s[i] \in T THEN Append(upTo[i - 1], s[i]) ELSE upTo[i - 1]
    IN  upTo[Len(s)]

(* Tensors no node and no graph input or output names any more are dropped. *)
WithNodes(g, nodes) ==
    LET live == GraphIo(g) \cup Uses(nodes) IN
    [g EXCEPT !.nodes = nodes, !.bytes = [t \in Tensors(g) \cap live |-> g.bytes[t]]]

(* Pass 1: drop Identity nodes and rewire their consumers, by one step. *)
IsIdentity(g, n) ==
    n.op = "Identity" /\ Len(n.ins) = 1 /\ Len(n.outs) = 1 /\ n.outs[1] \notin GraphIo(g)

Rewired(g, t) ==
    LET ids == {n \in Producers(g, t) : IsIdentity(g, n)}
    IN  IF ids = {} THEN t ELSE (CHOOSE n \in ids : TRUE).ins[1]

WithoutIdentities(g) ==
    LET kept == Picked(g.nodes, {n \in ToSet(g.nodes) : ~ IsIdentity(g, n)}) IN
    IF kept = g.nodes THEN g
    ELSE WithNodes(g, [i \in DOMAIN kept |->
             [kept[i] EXCEPT !.ins = [j \in DOMAIN @ |-> Rewired(g, @[j])]]])

(* Pass 2: a MatMul that only a Relu consumes becomes MatMulRelu. *)
Readings(g, t) ==
    UNION {{<<i, j>> : j \in {k \in DOMAIN g.nodes[i].ins : g.nodes[i].ins[k] = t}} :
              i \in DOMAIN g.nodes}
Consumers(g, t) ==
    Cardinality(Readings(g, t)) + (IF t \in g.outputs THEN 1 ELSE 0)

FusesInto_AnyConsumers(g, m, r) ==     \* mutant: other consumers of the MatMul are overlooked
    /\ r.op = "Relu" /\ Len(r.ins) = 1 /\ Len(r.outs) = 1
    /\ m.op = "MatMul" /\ m.outs = r.ins
    /\ m.outs[1] \notin GraphIo(g)

FusesInto(g, m, r) ==
    /\ r.op = "Relu" /\ Len(r.ins) = 1 /\ Len(r.outs) = 1
    /\ m.op = "MatMul" /\ m.outs = r.ins
    /\ Consumers(g, m.outs[1]) = 1 /\ m.outs[1] \notin GraphIo(g)

WithMatMulRelu(g) ==
    LET nodes  == ToSet(g.nodes)
        relus  == Picked(g.nodes, {r \in nodes : \E m \in nodes : FusesInto(g, m, r)})
        Of(r)  == CHOOSE m \in nodes : FusesInto(g, m, r)
        gone   == ToSet(relus) \cup {Of(r) : r \in ToSet(relus)}
    IN  IF relus = << >> THEN g
        ELSE WithNodes(g, Picked(g.nodes, nodes \ gone)
                          \o [i \in DOMAIN relus |->
                                 [Of(relus[i]) EXCEPT !.op = "MatMulRelu", !.outs = relus[i].outs]])

(* The nodes n waits for; one that consumes its own output does not wait. *)
Deps(g, n) == (UNION {Producers(g, t) : t \in ToSet(n.ins)}) \ {n}

Cyclic(g) ==
    \E S \in SUBSET ToSet(g.nodes) : S # {} /\ \A n \in S : Deps(g, n) \cap S # {}

(* What the validator refuses, as far as it concerns the shape of a graph. *)
Valid(g) ==
    /\ GraphIo(g) \cup Uses(g.nodes) \subseteq Tensors(g) /\ g.outputs # {}
    /\ \A i, j \in DOMAIN g.nodes : i # j => g.nodes[i].id # g.nodes[j].id
    /\ \A t \in Tensors(g) : Cardinality(Producers(g, t)) <= 1
    /\ \A t \in g.inputs : Producers(g, t) = {}
    /\ \A n \in ToSet(g.nodes) : ToSet(n.ins) \cap ToSet(n.outs) = {}
    /\ ~ Cyclic(g)

(* PlanCache::fingerprint: the nodes and tensors, not the graph outputs. *)
Fingerprint(g, fused) == [nodes |-> g.nodes, bytes |-> g.bytes, weights |-> g.weights, f |-> fused]

-----------------------------------------------------------------------------
(* Terms *)

Term(op, t, n, args) == [op |-> op, tensor |-> t, round |-> n, args |-> args]
Zeros   == Term("zeros", 0, 0, << >>)
Partial == Term("partial", 0, 0, << >>)      \* a kernel is writing here
Leaf(g, t, n) == IF t \in g.weights THEN Term("weight", t, 0, << >>)
                 ELSE Term("input", t, n, << >>)

(* What the kernel of op leaves in its i-th output. *)
Computed(op, i, args) ==
    CASE op = "Identity"   -> args[1]
      [] op = "MatMulRelu" -> Term("Relu", 1, 0, <<Term("MatMul", 1, 0, args)>>)
      [] OTHER             -> Term(op, i, 0, args)

(* What tensor t of an acyclic graph is in the n-th run. *)
Meaning(g, t, n) ==
    LET value[u \in Tensors(g)] ==
            IF Producers(g, u) = {} THEN Leaf(g, u, n)
            ELSE LET p == CHOOSE q \in Producers(g, u) : TRUE
                     i == CHOOSE j \in DOMAIN p.outs : p.outs[j] = u
                 IN  Computed(p.op, i, [j \in DOMAIN p.ins |-> value[p.ins[j]]])
    IN  value[t]

-----------------------------------------------------------------------------
NoGraph == [nodes |-> << >>, inputs |-> {}, outputs |-> {}, weights |-> {}, bytes |-> << >>]

PlannerInit ==
    /\ pc = "idle" /\ creates = 0 /\ result = "none"
    /\ src = NoGraph /\ graph = NoGraph /\ opt \in OptionSets
    /\ entries = {} /\ disk = {}
    /\ ops = << >> /\ queue = << >> /\ slot_of = << >> /\ slots = << >>
    /\ todo = {} /\ free_list = << >>
    /\ mem = << >> /\ round = 0 /\ oi = 1

(* destroy() *)
Destroyed(r) ==
    /\ pc' = "idle" /\ result' = r
    /\ graph' = NoGraph
    /\ ops' = << >> /\ queue' = << >> /\ slot_of' = << >> /\ slots' = << >>
    /\ todo' = {} /\ free_list' = << >>
    /\ mem' = << >> /\ round' = 0 /\ oi' = 1
    /\ UNCHANGED <<creates, src, opt>>

Create(g, o) ==
    /\ pc = "idle" /\ creates < MaxCreates
    /\ creates' = creates + 1 /\ result' = "none"
    /\ src' = g /\ graph' = g /\ opt' = o
    /\ pc' = "fuse"
    /\ UNCHANGED <<cacheVars, planVars, execVars>>

(* The \E over one graph names it, so that it is computed once. *)
Fuse ==
    /\ pc = "fuse"
    /\ \/ ~ opt.fusion /\ UNCHANGED graph
       \/ opt.fusion /\ \E g \in {WithoutIdentities(graph)} : graph' = WithMatMulRelu(g)
    /\ pc' = "lookup"
    /\ UNCHANGED <<creates, result, src, opt, cacheVars, planVars, execVars>>

-----------------------------------------------------------------------------
(* The plan: from the cache, or by Kahn's algorithm *)

Key == Fingerprint(graph, opt.fusion)
Cached(c) == {e \in c : e.key = Key}
Torn(e) == e.ops = << >>          \* a file whose writer did not finish

(* read_plan() takes no file that ends early; only the cut of its very last   *)
(* number, a graph output nobody reads back, goes unnoticed.                  *)
Readable_Prefix(e) == TRUE        \* mutant: a short file is a short plan
Readable(e) == ~ Torn(e)

Lookup ==
    /\ pc = "lookup" /\ opt.cache
    /\ \/ \E e \in Cached(entries) : ops' = e.ops /\ UNCHANGED entries
       \/ /\ Cached(entries) = {}
          /\ \E e \in Cached(disk) : Readable(e) /\ ops' = e.ops /\ entries' = entries \cup {e}
    /\ pc' = "memory"
    /\ UNCHANGED <<creates, result, src, opt, graph, disk, queue, slot_of, slots, todo,
                   free_list, execVars>>

Ready(done) == {n \in ToSet(graph.nodes) : n \notin done /\ Deps(graph, n) \subseteq done}

(* The queue starts with the nodes that wait for nothing, in the order of a  *)
(* hash map; the ones a step makes ready follow in the order of the graph.    *)
SortBegins ==
    /\ pc = "lookup"
    /\ opt.cache => Cached(entries) = {} /\ \A e \in Cached(disk) : ~ Readable(e)
    /\ queue' \in SetToSeqs(Ready({}))
    /\ pc' = "sort"
    /\ UNCHANGED <<creates, result, src, opt, graph, cacheVars, ops, slot_of, slots, todo,
                   free_list, execVars>>

SortStep ==
    /\ pc = "sort" /\ queue # << >>
    /\ ops' = Append(ops, Head(queue))
    /\ \E more \in {Ready(ToSet(ops')) \ ToSet(queue)} :
          queue' = Tail(queue) \o Picked(graph.nodes, more)
    /\ UNCHANGED <<pc, creates, result, src, opt, graph, cacheVars, slot_of, slots, todo,
                   free_list, execVars>>

SortOver_Waits ==                      \* mutant: the loop goes on until every node is ordered
    /\ pc = "sort" /\ queue = << >> /\ Len(ops) = Len(graph.nodes)
    /\ pc' = (IF opt.cache THEN "put" ELSE "memory")
    /\ UNCHANGED <<creates, result, src, opt, graph, cacheVars, planVars, execVars>>

SortOver ==
    /\ pc = "sort" /\ queue = << >>
    /\ \/ /\ Len(ops) = Len(graph.nodes)
          /\ pc' = (IF opt.cache THEN "put" ELSE "memory")
          /\ UNCHANGED <<creates, result, src, opt, graph, planVars, execVars>>
       \/ Len(ops) # Len(graph.nodes) /\ Destroyed("cycle")
    /\ UNCHANGED cacheVars

(* put(): first in memory; opening the file truncates it.  Without a cache   *)
(* directory, or when the file cannot be opened, nothing is written.          *)
PutPlan ==
    /\ pc = "put"
    /\ entries' = entries \cup {[key |-> Key, ops |-> ops]}
    /\ \/ pc' = "write" /\ disk' = (disk \ Cached(disk)) \cup {[key |-> Key, ops |-> << >>]}
       \/ pc' = "memory" /\ UNCHANGED disk
    /\ UNCHANGED <<creates, result, src, opt, graph, planVars, execVars>>

PlanWritten ==
    /\ pc = "write"
    /\ disk' = (disk \ Cached(disk)) \cup {[key |-> Key, ops |-> ops]}
    /\ pc' = "memory"
    /\ UNCHANGED <<creates, result, src, opt, graph, entries, planVars, execVars>>

-----------------------------------------------------------------------------
(* Sharing of buffers *)

Fixed(t) == t \in graph.weights \cup GraphIo(graph)
At(t) == {i \in DOMAIN ops : t \in ToSet(ops[i].ins) \cup ToSet(ops[i].outs)}

(* The lifetime of t: the indices of the first and last op that name it.     *)
(* Op i has index i - 1; a tensor no op names has neither.                    *)
FirstUse(t) == IF Fixed(t) THEN 0
               ELSE IF At(t) = {} THEN -1 ELSE (CHOOSE i \in At(t) : \A j \in At(t) : i <= j) - 1
LastUse(t)  == IF Fixed(t) THEN Len(ops)
               ELSE IF At(t) = {} THEN -1 ELSE (CHOOSE i \in At(t) : \A j \in At(t) : j <= i) - 1

Before(t, u) == FirstUse(t) < FirstUse(u) \/ (FirstUse(t) = FirstUse(u) /\ t < u)

(* Weights, inputs and outputs have a slot each, and every tensor has when   *)
(* buffers are not shared.                                                    *)
AssignFixed ==
    /\ pc = "memory"
    /\ LET own == {t \in Tensors(graph) : ~ opt.reuse \/ Fixed(t)}
           rank == [t \in own |-> Cardinality({u \in own : u <= t})]
       IN  /\ slot_of' = rank
           /\ slots' = [i \in 1 .. Cardinality(own) |->
                           graph.bytes[CHOOSE t \in own : rank[t] = i]]
           /\ todo' = Tensors(graph) \ own
    /\ pc' = "place"
    /\ UNCHANGED <<creates, result, src, opt, graph, cacheVars, ops, queue, free_list, execVars>>

Reusable_SameOp(f, t) == f.free_after <= FirstUse(t) /\ f.bytes >= graph.bytes[t]   \* mutant

Reusable(f, t) == f.free_after < FirstUse(t) /\ f.bytes >= graph.bytes[t]

Freed(s, bytes, t) == [slot |-> s, bytes |-> bytes, free_after |-> LastUse(t)]

(* Greedy, by first use: the first free slot that is large enough, or a new  *)
(* one.                                                                       *)
PlaceNext ==
    /\ pc = "place" /\ todo # {}
    /\ LET t == CHOOSE u \in todo : \A v \in todo \ {u} : Before(u, v)
           i == SelectInSeq(free_list, LAMBDA f : Reusable(f, t))
           s == IF i = 0 THEN Len(slots) + 1 ELSE free_list[i].slot
       IN  /\ slot_of' = [u \in DOMAIN slot_of \cup {t} |-> IF u = t THEN s ELSE slot_of[u]]
           /\ slots' = IF i = 0 THEN Append(slots, graph.bytes[t]) ELSE slots
           /\ free_list' = Append(IF i = 0 THEN free_list ELSE RemoveAt(free_list, i),
                                  Freed(s, slots'[s], t))
           /\ todo' = todo \ {t}
    /\ UNCHANGED <<pc, creates, result, src, opt, graph, cacheVars, ops, queue, execVars>>

Placed ==
    /\ pc = "place" /\ todo = {}
    /\ pc' = "validate"
    /\ UNCHANGED <<creates, result, src, opt, graph, cacheVars, planVars, execVars>>

-----------------------------------------------------------------------------
Validate ==
    /\ pc = "validate"
    /\ \/ Valid(graph) /\ pc' = "allocate"
          /\ UNCHANGED <<creates, result, src, opt, graph, planVars, execVars>>
       \/ ~ Valid(graph) /\ Destroyed("invalid")
    /\ UNCHANGED cacheVars

(* No kernel, no backend, no memory, or a weight that cannot be read. *)
CreateFails ==
    /\ pc = "allocate"
    /\ Destroyed("error")
    /\ UNCHANGED cacheVars

Written(g, ts, n) ==
    [s \in DOMAIN slots |->
        IF \E t \in ts : slot_of[t] = s
        THEN Leaf(g, CHOOSE t \in ts : slot_of[t] = s, n) ELSE mem[s]]

Allocate ==
    /\ pc = "allocate"
    /\ mem' = [s \in DOMAIN slots |->
                  IF \E t \in graph.weights \cap Tensors(graph) : slot_of[t] = s
                  THEN Leaf(graph, CHOOSE t \in graph.weights \cap Tensors(graph) : slot_of[t] = s, 0)
                  ELSE Zeros]
    /\ pc' = "ready"
    /\ UNCHANGED <<creates, result, src, opt, graph, cacheVars, planVars, round, oi>>

-----------------------------------------------------------------------------
(* The caller sets the inputs and calls run(). *)
RunBegins ==
    /\ pc = "ready" /\ round < MaxRuns
    /\ round' = round + 1 /\ oi' = 1 /\ result' = "none"
    /\ mem' = Written(graph, graph.inputs, round + 1)
    /\ pc' = "op"
    /\ UNCHANGED <<creates, src, opt, graph, cacheVars, planVars>>

(* run() looks the node up in graph_; the plan gives the order only. *)
Node(id) == CHOOSE n \in ToSet(graph.nodes) : n.id = id
Current  == Node(ops[oi].id)

(* A kernel writes its outputs while it reads its inputs. *)
OpStarts ==
    /\ pc = "op" /\ oi <= Len(ops)
    /\ mem' = [s \in DOMAIN mem |->
                  IF \E t \in ToSet(Current.outs) : slot_of[t] = s THEN Partial ELSE mem[s]]
    /\ pc' = "kernel"
    /\ UNCHANGED <<creates, result, src, opt, graph, cacheVars, planVars, round, oi>>

OpEnds ==
    /\ pc = "kernel"
    /\ LET args == [j \in DOMAIN Current.ins |-> mem[slot_of[Current.ins[j]]]] IN
       mem' = [s \in DOMAIN mem |->
                  IF \E i \in DOMAIN Current.outs : slot_of[Current.outs[i]] = s
                  THEN Computed(Current.op, CHOOSE i \in DOMAIN Current.outs :
                                               slot_of[Current.outs[i]] = s, args)
                  ELSE mem[s]]
    /\ pc' = "op" /\ oi' = oi + 1
    /\ UNCHANGED <<creates, result, src, opt, graph, cacheVars, planVars, round>>

(* A kernel, or what run() does before the first and after the last of them, *)
(* fails.                                                                     *)
RunFails ==
    /\ pc \in {"op", "kernel"}
    /\ pc' = "ready" /\ result' = "error"
    /\ UNCHANGED <<creates, src, opt, graph, cacheVars, planVars, execVars>>

RunOver ==
    /\ pc = "op" /\ oi > Len(ops)
    /\ pc' = "ready" /\ result' = "ok"
    /\ UNCHANGED <<creates, src, opt, graph, cacheVars, planVars, execVars>>

Destroy == pc = "ready" /\ Destroyed("none") /\ UNCHANGED cacheVars

(* The process ends; the files stay as they are. *)
Crash == Destroyed("none") /\ entries' = {} /\ UNCHANGED disk

-----------------------------------------------------------------------------
Work == \/ Fuse \/ Lookup \/ SortBegins \/ SortStep \/ SortOver \/ PutPlan \/ PlanWritten
        \/ AssignFixed \/ PlaceNext \/ Placed \/ Validate \/ CreateFails \/ Allocate
        \/ OpStarts \/ OpEnds \/ RunFails \/ RunOver

PlannerNext == \/ \E g \in Graphs, o \in OptionSets : Create(g, o)
               \/ Work \/ RunBegins \/ Destroy \/ Crash

(* A thread inside create() or run() is scheduled again. *)
PlannerSpec == PlannerInit /\ [][PlannerNext]_vars /\ WF_vars(Work)

-----------------------------------------------------------------------------
(* Properties *)

Planned == pc \in {"put", "write", "memory", "place", "validate", "allocate", "ready", "op", "kernel"}
Bound   == pc \in {"validate", "allocate", "ready", "op", "kernel"}

(* The plan in use has every node of the rewritten graph once, and none      *)
(* before a node it depends on, wherever the plan came from.                  *)
Waits(g, order) ==
    \A i \in DOMAIN order : Deps(g, order[i]) \subseteq {order[j] : j \in 1 .. (i - 1)}
Ordered(g, order) ==
    ToSet(order) = ToSet(g.nodes) /\ Len(order) = Len(g.nodes) /\ Waits(g, order)
OpsInOrder == Planned => Ordered(graph, ops)

(* Two tensors that share a slot are never alive at the same time, not even  *)
(* during one op, and each fits into the slot.                                *)
NoLiveSharing ==
    \A t, u \in DOMAIN slot_of :
        /\ graph.bytes[t] <= slots[slot_of[t]]
        /\ t # u /\ slot_of[t] = slot_of[u] => LastUse(t) < FirstUse(u) \/ LastUse(u) < FirstUse(t)

(* What makes OpsInOrder inductive: fusion keeps the ids of the nodes        *)
(* distinct; whatever is cached in memory, or in a file read_plan() takes,    *)
(* is ordered for the graph of its key; Kahn's queue holds each node once,    *)
(* when all it waits for is ordered, and none that is ordered already.        *)
GraphTyped(g) ==
    /\ DOMAIN g = GraphFields
    /\ g.nodes \in Seq(NodeTypes)
    /\ \A i, j \in DOMAIN g.nodes : i # j => g.nodes[i].id # g.nodes[j].id
    /\ Tensors(g) \subseteq Nat /\ IsFiniteSet(Tensors(g))
    /\ g.bytes \in [Tensors(g) -> Nat]

CachedInOrder ==
    /\ \A e \in entries : e.ops \in Seq(NodeTypes) /\ Ordered(e.key, e.ops)
    /\ \A e \in disk : Readable(e) => e.ops \in Seq(NodeTypes) /\ Ordered(e.key, e.ops)

Once(s) == \A i, j \in DOMAIN s : i # j => s[i] # s[j]

SortConsistent ==
    /\ ops \in Seq(NodeTypes) /\ queue \in Seq(NodeTypes)
    /\ ~ Planned /\ pc # "sort" => ops = << >> /\ queue = << >>
    /\ pc = "sort" =>
           /\ Once(ops) /\ Once(queue) /\ ToSet(ops) \cap ToSet(queue) = {}
           /\ ToSet(ops) \cup ToSet(queue) \subseteq ToSet(graph.nodes)
           /\ Waits(graph, ops)
           /\ \A n \in ToSet(queue) : Deps(graph, n) \subseteq ToSet(ops)

OrderInv == GraphTyped(graph) /\ CachedInOrder /\ SortConsistent /\ OpsInOrder

(* What makes NoLiveSharing inductive: the free list has a slot once, and    *)
(* every tensor placed there so far is dead when the list says it is free.    *)
SharingInv ==
    /\ NoLiveSharing
    /\ slots \in Seq(Nat) /\ DOMAIN slot_of \subseteq Tensors(graph)
    /\ \A t \in DOMAIN slot_of : slot_of[t] \in DOMAIN slots
    /\ pc = "place" \/ Bound \/ slot_of = << >>
    /\ pc = "place" =>
           /\ todo \subseteq Tensors(graph) /\ \A t \in todo : ~ Fixed(t)
           /\ free_list \in Seq([slot : DOMAIN slots, bytes : Nat, free_after : Int])
           /\ \A i, j \in DOMAIN free_list : i # j => free_list[i].slot # free_list[j].slot
           /\ \A i \in DOMAIN free_list :
                 LET f == free_list[i] IN
                 /\ f.bytes = slots[f.slot]
                 /\ \A t \in DOMAIN slot_of : slot_of[t] = f.slot => LastUse(t) <= f.free_after
    /\ pc \in {"idle", "fuse", "lookup", "sort", "put", "write", "memory"} => free_list = << >>

(* A run that succeeds leaves in every graph output what the graph the       *)
(* caller gave means, computed from the inputs of that very run: fusion, the  *)
(* order of the ops, the cached plan and the shared buffers change nothing.   *)
OutputsRight ==
    pc = "ready" /\ result = "ok" =>
        \A t \in src.outputs : mem[slot_of[t]] = Meaning(src, t, round)

(* What OutputsRight asks of the graph the caller gives, and the validator    *)
(* does not: every tensor is declared, and what a node reads or the graph      *)
(* returns is computed by a node or is an input or a weight; and, for fusion,   *)
(* no Identity that is dropped reads from another, as rewiring goes back by one *)
(* step only.                                                                    *)
Given(g)   == g.inputs \cup g.weights
Read(g)    == UNION {ToSet(n.ins) : n \in ToSet(g.nodes)}
Complete(g) ==
    /\ GraphIo(g) \cup Uses(g.nodes) \subseteq Tensors(g)
    /\ \A t \in g.outputs \cup Read(g) : t \in Given(g) \/ Producers(g, t) # {}
Unchained(g) ==
    \A n \in ToSet(g.nodes) :
        IsIdentity(g, n) => \A p \in Producers(g, n.ins[1]) : ~ IsIdentity(g, p)
Meaningful == Complete(src) /\ (opt.fusion => Unchained(src))

(* What makes OutputsRight inductive: the graph in use is the rewritten one,   *)
(* each of its tensors has a slot, and while the ops run the slot of every      *)
(* tensor that is given or computed, and still to be used, holds what the       *)
(* tensor means in the graph of the caller.                                      *)
Rewritten == IF opt.fusion THEN WithMatMulRelu(WithoutIdentities(src)) ELSE src
Allocated == pc \in {"ready", "op", "kernel"}

Held(t) ==
    /\ oi - 1 <= LastUse(t)
    /\ \/ t \in Given(graph) /\ Producers(graph, t) = {}
       \/ \E i \in 1 .. (oi - 1) : t \in ToSet(ops[i].outs)
    /\ pc = "kernel" => t \notin ToSet(Current.outs)

GraphInUse ==
    /\ pc # "idle" => src \in Graphs
    /\ pc = "fuse" => graph = src
    /\ pc \notin {"idle", "fuse"} => graph = Rewritten

AllPlaced ==
    /\ pc = "place" => DOMAIN slot_of \cup todo = Tensors(graph)
    /\ Bound => DOMAIN slot_of = Tensors(graph)
    /\ Allocated \/ pc = "allocate" => Valid(graph)

BuffersHold ==
    /\ result = "ok" => pc = "ready"
    /\ pc \in {"op", "kernel"} => oi \in 1 .. (Len(ops) + 1)
    /\ pc = "kernel" => oi <= Len(ops)
    /\ Allocated =>
           /\ DOMAIN mem = DOMAIN slots
           /\ \A t \in graph.weights \cap Tensors(graph) :
                 Producers(graph, t) = {} => mem[slot_of[t]] = Leaf(graph, t, 0)
    /\ Meaningful =>
           /\ OutputsRight
           /\ pc \in {"op", "kernel"} =>
                 \A t \in Tensors(graph) : Held(t) => mem[slot_of[t]] = Meaning(src, t, round)

ExecInv == GraphInUse /\ AllPlaced /\ BuffersHold

(* create() and run() end. *)
CreateEnds == pc \notin {"idle", "ready"} ~> pc \in {"idle", "ready"}
=============================================================================

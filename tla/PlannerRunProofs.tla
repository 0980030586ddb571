--------------------------- MODULE PlannerRunProofs ---------------------------
(* Proofs that run() computes the graph it was given: the terms in its output  *)
(* buffers are what the equations of the graph's nodes mean, whatever fusion   *)
(* rewrote, whichever order the plan or its cache chose, however buffers are   *)
(* shared.                                                                      *)
EXTENDS GraphPlannerProofs

-----------------------------------------------------------------------------
(* What a tensor means *)

(* The equation a recursive definition of Meaning has for tensor u, f being   *)
(* what the others mean.                                                       *)
Value(g, f, u, n) ==
    IF Producers(g, u) = {} THEN Leaf(g, u, n)
    ELSE LET p == CHOOSE q \in Producers(g, u) : TRUE
             i == CHOOSE j \in DOMAIN p.outs : p.outs[j] = u
         IN  Computed(p.op, i, [j \in DOMAIN p.ins |-> f[p.ins[j]]])

Solves(g, f, n) == \A u \in Tensors(g) : f[u] = Value(g, f, u, n)

(* A graph has no cycle when its tensors can be numbered upwards. *)
Ranked(g, rank, top) ==
    /\ top \in Nat /\ rank \in [Tensors(g) -> 0 .. top]
    /\ \A u \in Tensors(g) : \A p \in Producers(g, u) : \A j \in DOMAIN p.ins :
           p.ins[j] \in Tensors(g) /\ rank[p.ins[j]] < rank[u]

(* What a tensor computes depends on what the inputs of its producer mean. *)
LEMMA ValueOfInputs ==
    ASSUME NEW g, NEW f, NEW h, NEW u, NEW n,
           \A p \in Producers(g, u) : \A j \in DOMAIN p.ins : f[p.ins[j]] = h[p.ins[j]]
    PROVE  Value(g, f, u, n) = Value(g, h, u, n)
<1>1. CASE Producers(g, u) = {}
  BY <1>1 DEF Value
<1>2. CASE Producers(g, u) # {}
  <2> DEFINE p == CHOOSE q \in Producers(g, u) : TRUE
             i == CHOOSE j \in DOMAIN p.outs : p.outs[j] = u
  <2>1. p \in Producers(g, u)
    BY <1>2
  <2>2. \A e : Value(g, e, u, n) = Computed(p.op, i, [j \in DOMAIN p.ins |-> e[p.ins[j]]])
    BY <1>2 DEF Value
  <2> HIDE DEF p, i
  <2>3. [j \in DOMAIN p.ins |-> f[p.ins[j]]] = [j \in DOMAIN p.ins |-> h[p.ins[j]]]
    BY <2>1
  <2> QED
    BY <2>2, <2>3
<1> QED
  BY <1>1, <1>2

(* The first rank up to which no function satisfied the equation would extend  *)
(* the one before it.                                                           *)
LEMMA SolutionExists ==
    ASSUME NEW g, NEW rank, NEW top, Ranked(g, rank, top), NEW n
    PROVE  \E f : f = [u \in Tensors(g) |-> Value(g, f, u, n)]
<1> DEFINE T == Tensors(g)
           UpTo2(f, k) == \A u \in T : rank[u] < k => f[u] = Value(g, f, u, n)
           Fun(f) == f = [u \in T |-> f[u]]
           Bad == {k \in Nat : ~ \E f : Fun(f) /\ UpTo2(f, k)}
<1>1. top \in Nat /\ \A u \in T : rank[u] \in Nat /\ rank[u] <= top
  BY DEF Ranked
<1>2. 0 \notin Bad
  <2>1. Fun([u \in T |-> 0]) /\ UpTo2([u \in T |-> 0], 0)
    BY <1>1
  <2> HIDE DEF Fun, UpTo2
  <2> QED
    BY <2>1
<1>3. ASSUME NEW k \in Nat, k \notin Bad PROVE k + 1 \notin Bad
  <2>1. PICK f : Fun(f) /\ UpTo2(f, k)
    BY <1>3
  <2> DEFINE h == [u \in T |-> IF rank[u] = k THEN Value(g, f, u, n) ELSE f[u]]
  <2>2. Fun(h)
    OBVIOUS
  <2>3. \A u \in T : h[u] = IF rank[u] = k THEN Value(g, f, u, n) ELSE f[u]
    OBVIOUS
  <2> HIDE DEF h
  <2>4. ASSUME NEW u \in T, rank[u] < k + 1 PROVE h[u] = Value(g, h, u, n)
    <3>1. \A p \in Producers(g, u) : \A j \in DOMAIN p.ins : f[p.ins[j]] = h[p.ins[j]]
      <4> SUFFICES ASSUME NEW p \in Producers(g, u), NEW j \in DOMAIN p.ins
                   PROVE  f[p.ins[j]] = h[p.ins[j]]
        OBVIOUS
      <4>1. p.ins[j] \in T /\ rank[p.ins[j]] < rank[u]
        BY DEF Ranked
      <4>2. rank[p.ins[j]] # k
        BY <1>1, <2>4, <4>1
      <4> QED
        BY <2>3, <4>1, <4>2
    <3>2. Value(g, f, u, n) = Value(g, h, u, n)
      BY <3>1, ValueOfInputs
    <3>3. CASE rank[u] = k
      BY <2>3, <3>2, <3>3
    <3>4. CASE rank[u] # k
      <4>1. rank[u] < k
        BY <1>1, <2>4, <3>4
      <4> QED
        BY <2>1, <2>3, <3>2, <3>4, <4>1
    <3> QED
      BY <3>3, <3>4
  <2>5. UpTo2(h, k + 1)
    BY <2>4
  <2> HIDE DEF Fun, UpTo2
  <2> QED
    BY <2>2, <2>5
<1>4. Bad = {}
  <2> SUFFICES ASSUME Bad # {} PROVE FALSE
    OBVIOUS
  <2>1. Bad \in SUBSET Nat
    OBVIOUS
  <2> HIDE DEF Bad
  <2>2. PICK k \in Bad : \A m \in Bad : k <= m
    BY <2>1, LeastNat
  <2>3. k # 0 /\ k - 1 \in Nat
    BY <1>2, <2>1, <2>2
  <2>4. k - 1 \notin Bad
    BY <2>1, <2>2, <2>3
  <2>5. (k - 1) + 1 = k
    BY <2>1, <2>2
  <2> QED
    BY <1>3, <2>2, <2>3, <2>4, <2>5
<1>5. top + 1 \notin Bad /\ top + 1 \in Nat
  BY <1>1, <1>4
<1>6. PICK f : Fun(f) /\ UpTo2(f, top + 1)
  BY <1>5
<1>7. \A u \in T : f[u] = Value(g, f, u, n)
  BY <1>1, <1>6
<1>8. f = [u \in T |-> Value(g, f, u, n)]
  BY <1>6, <1>7
<1> QED
  BY <1>8

(* Without a cycle a tensor means what its node computes of what it reads. *)
LEMMA MeaningSolves ==
    ASSUME NEW g, NEW rank, NEW top, Ranked(g, rank, top), NEW n
    PROVE  Solves(g, [u \in Tensors(g) |-> Meaning(g, u, n)], n)
<1> DEFINE f == CHOOSE f : f = [u \in Tensors(g) |-> Value(g, f, u, n)]
           V == [u \in Tensors(g) |-> Meaning(g, u, n)]
<1>1. \A t : Meaning(g, t, n) = f[t]
  BY DEF Meaning, Value
<1>2. f = [u \in Tensors(g) |-> Value(g, f, u, n)]
  BY SolutionExists
<1> HIDE DEF f
<1>3. V = [u \in Tensors(g) |-> f[u]]
  BY <1>1
<1>4. \A u \in Tensors(g) : f[u] = Value(g, f, u, n)
  BY <1>2
<1>5. f = V
  BY <1>2, <1>3, <1>4
<1> HIDE DEF V
<1>6. Solves(g, V, n)
  BY <1>4, <1>5 DEF Solves
<1> QED
  BY <1>6 DEF V

(* No two nodes have an output in common. *)
Single(g) == \A t : \A p, q \in Producers(g, t) : p = q

(* A sequence and its length. *)
LEMMA PlanLength == ASSUME NEW S, NEW s \in Seq(S) PROVE Len(s) \in Nat /\ DOMAIN s = 1 .. Len(s)
OBVIOUS

(* A plan numbers the tensors: by the first op that computes them. *)
LEMMA PlanRanks ==
    ASSUME NEW g, GraphTyped(g), Single(g), Uses(g.nodes) \subseteq Tensors(g),
           \A n \in ToSet(g.nodes) : ToSet(n.ins) \cap ToSet(n.outs) = {},
           NEW order \in Seq(NodeTypes), Ordered(g, order)
    PROVE  \E rank : Ranked(g, rank, Len(order))
<1> DEFINE by(u) == {i \in DOMAIN order : u \in ToSet(order[i].outs)}
           first(u) == CHOOSE i \in by(u) : \A j \in by(u) : i <= j
           rank == [u \in Tensors(g) |-> IF Producers(g, u) = {} THEN 0 ELSE first(u)]
           top == Len(order)
<1>1. top \in Nat /\ DOMAIN order = 1 .. top
  BY PlanLength
<1> HIDE DEF top
<1>2. ToSet(order) = ToSet(g.nodes)
  BY DEF Ordered
<1>3. ASSUME NEW u, Producers(g, u) # {}
      PROVE  first(u) \in by(u) /\ \A j \in by(u) : first(u) <= j
  <2>1. by(u) # {}
    <3>1. PICK p \in ToSet(g.nodes) : u \in ToSet(p.outs)
      BY <1>3 DEF Producers
    <3>2. PICK i \in DOMAIN order : order[i] = p
      BY <1>2 DEF ToSet
    <3>3. i \in by(u)
      BY <3>1, <3>2
    <3> QED
      BY <3>3
  <2>2. by(u) \in SUBSET Nat
    BY <1>1
  <2> HIDE DEF by
  <2>3. \E i \in by(u) : \A j \in by(u) : i <= j
    BY <2>1, <2>2, LeastNat
  <2> QED
    BY <2>3
<1> HIDE DEF first
<1>4. rank \in [Tensors(g) -> 0 .. top]
  BY <1>1, <1>3
<1>5. \A u \in Tensors(g) : rank[u] = IF Producers(g, u) = {} THEN 0 ELSE first(u)
  OBVIOUS
<1> HIDE DEF rank
<1>6. ASSUME NEW u \in Tensors(g), NEW p \in Producers(g, u), NEW k \in DOMAIN p.ins
      PROVE  p.ins[k] \in Tensors(g) /\ rank[p.ins[k]] < rank[u]
  <2> DEFINE t == p.ins[k]
             i == first(u)
  <2>1. p \in ToSet(g.nodes) /\ u \in ToSet(p.outs) /\ t \in ToSet(p.ins)
    BY DEF Producers, ToSet
  <2>2. t \in Tensors(g)
    BY <2>1 DEF Uses
  <2>3. i \in 1 .. top /\ u \in ToSet(order[i].outs) /\ rank[u] = i
    BY <1>1, <1>3, <1>5
  <2>4. order[i] \in ToSet(g.nodes)
    BY <1>1, <1>2, <2>3 DEF ToSet
  <2>5. order[i] = p
    BY <2>3, <2>4 DEF Producers, Single
  <2> HIDE DEF t, i
  <2>6. CASE Producers(g, t) = {}
    BY <1>1, <1>5, <2>2, <2>3, <2>6 DEF t
  <2>7. CASE Producers(g, t) # {}
    <3>1. PICK q \in Producers(g, t) : TRUE
      BY <2>7
    <3>2. q # p
      BY <2>1, <3>1 DEF Producers
    <3>3. q \in Deps(g, p)
      BY <2>1, <3>1, <3>2 DEF Deps
    <3>4. Deps(g, order[i]) \subseteq {order[j] : j \in 1 .. (i - 1)}
      BY <1>1, <2>3 DEF Ordered, Waits
    <3>5. PICK j \in 1 .. (i - 1) : q = order[j]
      BY <2>5, <3>3, <3>4
    <3>6. j \in by(t)
      BY <1>1, <2>3, <3>1, <3>5 DEF Producers
    <3>7. first(t) <= j /\ first(t) \in by(t)
      BY <1>3, <2>7, <3>6
    <3>8. rank[t] = first(t)
      BY <1>5, <2>2, <2>7
    <3> QED
      BY <1>1, <2>2, <2>3, <3>5, <3>7, <3>8 DEF t
  <2> QED
    BY <2>6, <2>7 DEF t
<1>7. Ranked(g, rank, top)
  BY <1>1, <1>4, <1>6 DEF Ranked
<1> QED
  BY <1>7 DEF top

-----------------------------------------------------------------------------
(* What fusion keeps *)

Sound(g) == GraphTyped(g) /\ Complete(g) /\ Single(g)

(* The graph h takes the place of g: its tensors mean what they mean in g, and *)
(* g has no cycle if h has none.                                                *)
Carries(g, h) ==
    /\ h.outputs = g.outputs /\ h.inputs = g.inputs /\ h.weights = g.weights
    /\ Sound(h) /\ Tensors(h) \subseteq Tensors(g)
    /\ (\E rank, top : Ranked(h, rank, top)) => \E rank, top : Ranked(g, rank, top)
    /\ \A f, n : Solves(g, f, n) => Solves(h, f, n)

(* Passes that carry meanings compose. *)
LEMMA CarriesOn ==
    ASSUME NEW g, NEW h, NEW k, Carries(g, h), Carries(h, k)
    PROVE  Carries(g, k)
BY DEF Carries

(* A tensor with one producer means what that producer computes. *)
LEMMA ValueComputed ==
    ASSUME NEW g, NEW f, NEW u, NEW n, NEW p, Single(g), p \in Producers(g, u)
    PROVE  Value(g, f, u, n) = Computed(p.op, CHOOSE j \in DOMAIN p.outs : p.outs[j] = u,
                                        [j \in DOMAIN p.ins |-> f[p.ins[j]]])
<1>1. Producers(g, u) # {} /\ (CHOOSE q \in Producers(g, u) : TRUE) = p
  BY DEF Single
<1> QED
  BY <1>1 DEF Value

(* A graph given other nodes keeps its inputs, outputs and weights. *)
LEMMA WithNodesIs ==
    ASSUME NEW g, GraphTyped(g), NEW nodes
    PROVE  LET h == WithNodes(g, nodes)
           IN  /\ h.nodes = nodes /\ h.outputs = g.outputs /\ h.inputs = g.inputs
               /\ h.weights = g.weights /\ GraphIo(h) = GraphIo(g)
               /\ Tensors(h) = Tensors(g) \cap (GraphIo(g) \cup Uses(nodes))
<1> DEFINE keep == Tensors(g) \cap (GraphIo(g) \cup Uses(nodes))
           h == WithNodes(g, nodes)
<1>1. h = [g EXCEPT !.nodes = nodes, !.bytes = [t \in keep |-> g.bytes[t]]]
  BY DEF WithNodes
<1> HIDE DEF keep, h
<1>2. /\ h.nodes = nodes /\ h.bytes = [t \in keep |-> g.bytes[t]]
      /\ h.outputs = g.outputs /\ h.inputs = g.inputs /\ h.weights = g.weights
  BY <1>1 DEF GraphTyped, GraphFields
<1>3. Tensors(h) = keep
  BY <1>2 DEF Tensors
<1>4. GraphIo(h) = GraphIo(g)
  BY <1>2 DEF GraphIo
<1> QED
  BY <1>2, <1>3, <1>4 DEF h, keep

(* The nodes of a graph as records of sequences. *)
LEMMA NodesTyped ==
    ASSUME NEW g, GraphTyped(g), NEW n \in ToSet(g.nodes)
    PROVE  /\ n \in NodeTypes
           /\ n.ins \in Seq(Nat) /\ DOMAIN n.ins = 1 .. Len(n.ins) /\ Len(n.ins) \in Nat
           /\ n.outs \in Seq(Nat) /\ DOMAIN n.outs = 1 .. Len(n.outs) /\ Len(n.outs) \in Nat
<1>1. n \in NodeTypes
  BY DEF GraphTyped, ToSet
<1>2. n.ins \in Seq(Nat) /\ n.outs \in Seq(Nat)
  BY <1>1 DEF NodeTypes
<1> QED
  BY <1>1, <1>2

(* Nothing changes when no node is dropped. *)
LEMMA CarriesSame == ASSUME NEW g, Sound(g) PROVE Carries(g, g)
BY DEF Carries

-----------------------------------------------------------------------------
(* The first pass *)

Dropped(g, t) == \E n \in Producers(g, t) : IsIdentity(g, n)
Rewire(g, n)  == [n EXCEPT !.ins = [j \in DOMAIN n.ins |-> Rewired(g, n.ins[j])]]

(* Rewiring a node changes its inputs alone. *)
LEMMA RewireIs ==
    ASSUME NEW g, NEW n \in NodeTypes
    PROVE  /\ Rewire(g, n).op = n.op /\ Rewire(g, n).outs = n.outs
           /\ Rewire(g, n).ins = [j \in DOMAIN n.ins |-> Rewired(g, n.ins[j])]
BY DEF Rewire, NodeTypes

(* A removable Identity reads one tensor and writes no tensor of the interface. *)
LEMMA IdentityIs ==
    ASSUME NEW g, GraphTyped(g), NEW n \in ToSet(g.nodes), IsIdentity(g, n)
    PROVE  /\ n.op = "Identity" /\ DOMAIN n.ins = {1}
           /\ \A t \in ToSet(n.outs) : t \notin GraphIo(g)
<1>1. /\ DOMAIN n.ins = 1 .. 1 /\ DOMAIN n.outs = 1 .. 1 /\ n.op = "Identity"
      /\ n.outs[1] \notin GraphIo(g)
  BY NodesTyped DEF IsIdentity
<1>2. \A i \in 1 .. 1 : i = 1
  OBVIOUS
<1> QED
  BY <1>1, <1>2 DEF ToSet

(* Rewired goes back over one Identity, and with Unchained that is enough. *)
LEMMA RewiredBack ==
    ASSUME NEW g, Sound(g), Unchained(g), NEW t
    PROVE  /\ ~ Dropped(g, t) => Rewired(g, t) = t
           /\ Dropped(g, t) => \E n \in Producers(g, t) :
                                  /\ IsIdentity(g, n) /\ Rewired(g, t) = n.ins[1]
                                  /\ n.ins[1] \in Read(g)
           /\ ~ Dropped(g, Rewired(g, t))
<1> DEFINE ids == {n \in Producers(g, t) : IsIdentity(g, n)}
<1>1. CASE ids = {}
  BY <1>1 DEF Rewired, Dropped
<1>2. CASE ids # {}
  <2> DEFINE n == CHOOSE n \in ids : TRUE
  <2>1. n \in ids /\ Rewired(g, t) = n.ins[1]
    BY <1>2 DEF Rewired
  <2> HIDE DEF n
  <2>2. n \in ToSet(g.nodes) /\ n \in Producers(g, t) /\ IsIdentity(g, n)
    BY <2>1 DEF Producers
  <2>3. DOMAIN n.ins = {1}
    BY <2>2, IdentityIs DEF Sound
  <2>4. n.ins[1] \in Read(g)
    BY <2>2, <2>3 DEF Read, ToSet
  <2>5. ~ Dropped(g, n.ins[1])
    BY <2>2 DEF Unchained, Dropped
  <2> QED
    BY <2>1, <2>2, <2>4, <2>5 DEF Dropped
<1> QED
  BY <1>1, <1>2

(* The nodes that are left once the Identities are removed. *)
LEMMA NodesWithoutIdentities ==
    ASSUME NEW g, GraphTyped(g), WithoutIdentities(g) # g
    PROVE  \E nodes : /\ WithoutIdentities(g) = WithNodes(g, nodes)
                      /\ ToSet(nodes) = {Rewire(g, n) : n \in {m \in ToSet(g.nodes) : ~ IsIdentity(g, m)}}
<1> DEFINE K == {n \in ToSet(g.nodes) : ~ IsIdentity(g, n)}
           kept == Picked(g.nodes, K)
           nodes == [i \in DOMAIN kept |-> Rewire(g, kept[i])]
<1>1. ToSet(kept) = K
  <2>1. ToSet(kept) = ToSet(g.nodes) \cap K
    BY PickedNodes DEF GraphTyped, DistinctIds
  <2> QED
    BY <2>1
<1>2. WithoutIdentities(g) = IF kept = g.nodes THEN g ELSE WithNodes(g, nodes)
  BY DEF WithoutIdentities, Rewire
<1> HIDE DEF kept
<1>3. ToSet(nodes) = {Rewire(g, n) : n \in K}
  BY <1>1 DEF ToSet
<1> HIDE DEF nodes
<1>4. WithoutIdentities(g) = WithNodes(g, nodes)
  BY <1>2
<1> QED
  BY <1>3, <1>4

(* Reading past an Identity reads a tensor that means the same. *)
LEMMA IdentityMeans ==
    ASSUME NEW g, Sound(g), Unchained(g), NEW f, NEW n, Solves(g, f, n), NEW t \in Tensors(g)
    PROVE  f[Rewired(g, t)] = f[t]
<1>1. CASE ~ Dropped(g, t)
  BY <1>1, RewiredBack
<1>2. CASE Dropped(g, t)
  <2>1. PICK q \in Producers(g, t) : IsIdentity(g, q) /\ Rewired(g, t) = q.ins[1]
    BY <1>2, RewiredBack
  <2>2. q.op = "Identity" /\ DOMAIN q.ins = {1}
    BY <2>1, IdentityIs DEF Sound, Producers
  <2> DEFINE i == CHOOSE j \in DOMAIN q.outs : q.outs[j] = t
             args == [j \in DOMAIN q.ins |-> f[q.ins[j]]]
  <2>3. f[t] = Value(g, f, t, n)
    BY DEF Solves
  <2>4. Value(g, f, t, n) = Computed(q.op, i, args)
    BY ValueComputed DEF Sound
  <2>5. args[1] = f[q.ins[1]]
    BY <2>2
  <2> HIDE DEF i, args
  <2>6. Computed(q.op, i, args) = args[1]
    BY <2>2 DEF Computed
  <2> QED
    BY <2>1, <2>3, <2>4, <2>5, <2>6
<1> QED
  BY <1>1, <1>2

(* remove_identities keeps what every remaining tensor means. *)
LEMMA PassOne ==
    ASSUME NEW g, Sound(g), Unchained(g)
    PROVE  Carries(g, WithoutIdentities(g))
<1> DEFINE h == WithoutIdentities(g)
           K == {n \in ToSet(g.nodes) : ~ IsIdentity(g, n)}
<1>0. CASE h = g
  BY <1>0, CarriesSame
<1>1. CASE h # g
  <2>1. PICK nodes : h = WithNodes(g, nodes) /\ ToSet(nodes) = {Rewire(g, n) : n \in K}
    BY <1>1, NodesWithoutIdentities DEF Sound
  <2>2. GraphTyped(h)
    BY WithoutIdentitiesTyped DEF Sound
  <2> HIDE DEF h
  <2>3. /\ h.outputs = g.outputs /\ h.inputs = g.inputs /\ h.weights = g.weights
        /\ GraphIo(h) = GraphIo(g) /\ h.nodes = nodes
        /\ Tensors(h) = Tensors(g) \cap (GraphIo(g) \cup Uses(h.nodes))
    BY <2>1, WithNodesIs DEF Sound
  <2>4. ToSet(h.nodes) = {Rewire(g, n) : n \in K}
    BY <2>1, <2>3
  <2>5. ASSUME NEW n \in K
        PROVE  /\ n \in ToSet(g.nodes) /\ Rewire(g, n) \in ToSet(h.nodes)
               /\ Rewire(g, n).op = n.op /\ Rewire(g, n).outs = n.outs
               /\ Rewire(g, n).ins = [j \in DOMAIN n.ins |-> Rewired(g, n.ins[j])]
    BY <2>4, NodesTyped, RewireIs DEF Sound
  <2>6. \A u : Producers(h, u) = {Rewire(g, n) : n \in Producers(g, u) \cap K}
    <3> SUFFICES ASSUME NEW u PROVE Producers(h, u) = {Rewire(g, n) : n \in Producers(g, u) \cap K}
      OBVIOUS
    <3>1. ASSUME NEW m \in Producers(h, u) PROVE \E n \in Producers(g, u) \cap K : m = Rewire(g, n)
      <4>1. PICK n \in K : m = Rewire(g, n)
        BY <2>4 DEF Producers
      <4>2. u \in ToSet(n.outs)
        BY <2>5, <4>1 DEF Producers
      <4> QED
        BY <4>1, <4>2 DEF Producers
    <3>2. ASSUME NEW n \in Producers(g, u) \cap K PROVE Rewire(g, n) \in Producers(h, u)
      BY <2>5 DEF Producers
    <3> QED
      BY <3>1, <3>2
  <2>7. ASSUME NEW u, ~ Dropped(g, u) PROVE Producers(g, u) \subseteq K
    BY <2>7 DEF Dropped, Producers
  <2>8. ASSUME NEW t \in Read(g) PROVE Rewired(g, t) \in Read(g)
    <3>1. CASE Dropped(g, t)
      BY <3>1, RewiredBack
    <3>2. CASE ~ Dropped(g, t)
      BY <3>2, RewiredBack
    <3> QED
      BY <3>1, <3>2
  <2>9. ASSUME NEW t \in Read(h) PROVE t \in Read(g) /\ ~ Dropped(g, t)
    <3>1. PICK n \in K : t \in ToSet(Rewire(g, n).ins)
      BY <2>4 DEF Read
    <3>2. PICK j \in DOMAIN n.ins : t = Rewired(g, n.ins[j])
      <4> DEFINE ins == [j \in DOMAIN n.ins |-> Rewired(g, n.ins[j])]
      <4>1. t \in ToSet(ins)
        BY <2>5, <3>1
      <4> QED
        BY <4>1 DEF ToSet
    <3>3. n.ins[j] \in Read(g)
      BY DEF Read, ToSet
    <3> QED
      BY <2>8, <3>2, <3>3, RewiredBack
  <2>10. ASSUME NEW n \in K, NEW t \in ToSet(n.outs) PROVE t \in Uses(g.nodes) /\ ~ Dropped(g, t)
    <3>1. n \in Producers(g, t) /\ n \in ToSet(g.nodes)
      BY DEF Producers
    <3>2. ~ Dropped(g, t)
      BY <3>1 DEF Dropped, Sound, Single
    <3> QED
      BY <3>1, <3>2 DEF Uses
  <2>11. ASSUME NEW t \in GraphIo(g) PROVE ~ Dropped(g, t)
    BY IdentityIs DEF Dropped, Producers, Sound
  <2>12. Read(g) \subseteq Uses(g.nodes) /\ Uses(g.nodes) \subseteq Tensors(g) /\ GraphIo(g) \subseteq Tensors(g)
    BY DEF Read, Uses, Sound, Complete
  <2>13. ASSUME NEW t \in GraphIo(h) \cup Uses(h.nodes)
         PROVE  t \in Tensors(h) /\ t \in Tensors(g) /\ ~ Dropped(g, t)
    <3>1. CASE t \in GraphIo(h)
      BY <2>3, <2>11, <2>12, <3>1
    <3>2. CASE t \in Read(h)
      <4>1. t \in Uses(h.nodes)
        BY <3>2 DEF Read, Uses
      <4> QED
        BY <2>3, <2>9, <2>12, <3>2, <4>1
    <3>3. CASE \E m \in ToSet(h.nodes) : t \in ToSet(m.outs)
      <4>1. PICK n \in K : t \in ToSet(n.outs)
        BY <2>4, <2>5, <3>3
      <4>2. t \in Uses(h.nodes)
        BY <3>3 DEF Uses
      <4> QED
        BY <2>3, <2>10, <2>12, <4>1, <4>2
    <3> QED
      BY <3>1, <3>2, <3>3 DEF Uses, Read
  <2>14. Complete(h)
    <3>1. ASSUME NEW t \in h.outputs \cup Read(h) PROVE t \in Given(h) \/ Producers(h, t) # {}
      <4>1. t \in Given(g) \/ Producers(g, t) # {}
        <5>1. t \in g.outputs \cup Read(g)
          BY <2>3, <2>9
        <5> QED
          BY <5>1 DEF Sound, Complete
      <4>2. ~ Dropped(g, t)
        BY <2>3, <2>9, <2>11 DEF GraphIo
      <4>3. Producers(g, t) \subseteq K
        BY <2>7, <4>2
      <4> QED
        BY <2>3, <2>6, <4>1, <4>3 DEF Given
    <3> QED
      BY <2>13, <3>1 DEF Complete
  <2>15. Single(h)
    BY <2>6 DEF Sound, Single
  <2>16. Sound(h) /\ Tensors(h) \subseteq Tensors(g)
    BY <2>2, <2>3, <2>14, <2>15 DEF Sound
  <2>17. ASSUME NEW rank, NEW top, Ranked(h, rank, top)
         PROVE  \E r, k : Ranked(g, r, k)
    <3> DEFINE at(t) == IF t \in Tensors(h) THEN rank[t] ELSE 0
               r == [t \in Tensors(g) |-> IF Dropped(g, t) THEN 2 * at(Rewired(g, t)) + 1 ELSE 2 * at(t)]
    <3>1. /\ top \in Nat
          /\ \A t : at(t) \in 0 .. top
      BY <2>17 DEF Ranked
    <3>2. \A t \in Tensors(h) : at(t) = rank[t]
      OBVIOUS
    <3> HIDE DEF at
    <3>3. r \in [Tensors(g) -> 0 .. (2 * top + 1)] /\ 2 * top + 1 \in Nat
      BY <3>1
    <3>4. \A t \in Tensors(g) :
             r[t] = IF Dropped(g, t) THEN 2 * at(Rewired(g, t)) + 1 ELSE 2 * at(t)
      OBVIOUS
    <3> HIDE DEF r
    <3>5. ASSUME NEW u \in Tensors(g), NEW p \in Producers(g, u), NEW j \in DOMAIN p.ins
          PROVE  p.ins[j] \in Tensors(g) /\ r[p.ins[j]] < r[u]
      <4> DEFINE t == p.ins[j]
      <4>1. p \in ToSet(g.nodes) /\ u \in ToSet(p.outs) /\ t \in Read(g)
        BY DEF Producers, Read, ToSet
      <4>2. t \in Tensors(g)
        BY <2>12, <4>1
      <4>3. CASE IsIdentity(g, p)
        <5>1. PICK q \in Producers(g, u) : IsIdentity(g, q) /\ Rewired(g, u) = q.ins[1]
          BY <4>3, RewiredBack DEF Dropped
        <5>2. q = p /\ j = 1
          BY <4>1, <4>3, IdentityIs DEF Sound, Single
        <5>3. Rewired(g, u) = t /\ ~ Dropped(g, t) /\ Dropped(g, u)
          BY <4>3, <5>1, <5>2, RewiredBack DEF Dropped
        <5>4. r[u] = 2 * at(t) + 1 /\ r[t] = 2 * at(t)
          BY <3>4, <4>2, <5>3
        <5> HIDE DEF t
        <5>5. r[t] < r[u]
          BY <3>1, <5>4
        <5> QED
          BY <4>2, <5>5 DEF t
      <4>4. CASE ~ IsIdentity(g, p)
        <5>1. p \in K
          BY <4>1, <4>4
        <5>2. /\ Rewire(g, p) \in Producers(h, u) /\ u \in Uses(h.nodes)
              /\ j \in DOMAIN Rewire(g, p).ins /\ Rewire(g, p).ins[j] = Rewired(g, t)
          <6> DEFINE q == Rewire(g, p)
          <6>1. /\ q \in ToSet(h.nodes) /\ q.outs = p.outs
                /\ q.ins = [i \in DOMAIN p.ins |-> Rewired(g, p.ins[i])]
            BY <2>5, <5>1
          <6> HIDE DEF q
          <6>2. j \in DOMAIN q.ins /\ q.ins[j] = Rewired(g, t)
            BY <6>1
          <6>3. q \in Producers(h, u) /\ u \in Uses(h.nodes)
            BY <4>1, <6>1 DEF Producers, Uses
          <6> QED
            BY <6>2, <6>3 DEF q
        <5>3. u \in Tensors(h) /\ ~ Dropped(g, u)
          BY <2>13, <5>2
        <5>4. Rewired(g, t) \in Tensors(h) /\ rank[Rewired(g, t)] < rank[u]
          BY <2>17, <5>2, <5>3 DEF Ranked
        <5>5. /\ r[u] = 2 * rank[u] /\ rank[u] \in Nat /\ rank[Rewired(g, t)] \in Nat
              /\ at(Rewired(g, t)) = rank[Rewired(g, t)]
          BY <2>17, <3>2, <3>4, <5>3, <5>4 DEF Ranked
        <5>6. r[t] <= 2 * rank[Rewired(g, t)] + 1
          <6>1. CASE Dropped(g, t)
            BY <3>4, <4>2, <5>5, <6>1
          <6>2. CASE ~ Dropped(g, t)
            <7>1. Rewired(g, t) = t
              BY <6>2, RewiredBack
            <7> QED
              BY <3>4, <4>2, <5>5, <6>2, <7>1
          <6> QED
            BY <6>1, <6>2
        <5>7. r[t] \in Int
          BY <3>3, <4>2
        <5> HIDE DEF t
        <5>8. r[t] < r[u]
          BY <5>4, <5>5, <5>6, <5>7
        <5> QED
          BY <4>2, <5>8 DEF t
      <4> QED
        BY <4>3, <4>4
    <3>6. Ranked(g, r, 2 * top + 1)
      BY <3>3, <3>5 DEF Ranked
    <3> QED
      BY <3>6
  <2>18. ASSUME NEW f, NEW n, Solves(g, f, n) PROVE Solves(h, f, n)
    <3> SUFFICES ASSUME NEW u \in Tensors(h) PROVE f[u] = Value(h, f, u, n)
      BY DEF Solves
    <3>1. u \in Tensors(g) /\ ~ Dropped(g, u)
      BY <2>3, <2>13
    <3>2. f[u] = Value(g, f, u, n)
      BY <2>18, <3>1 DEF Solves
    <3>3. CASE Producers(g, u) = {}
      <4>1. Producers(h, u) = {}
        BY <2>6, <3>3
      <4> QED
        BY <2>3, <3>2, <3>3, <4>1 DEF Value, Leaf
    <3>4. CASE Producers(g, u) # {}
      <4>1. PICK p \in Producers(g, u) : p \in K
        BY <2>7, <3>1, <3>4
      <4> DEFINE q == Rewire(g, p)
                 i == CHOOSE j \in DOMAIN p.outs : p.outs[j] = u
                 args == [j \in DOMAIN p.ins |-> f[p.ins[j]]]
      <4>2. /\ q \in Producers(h, u) /\ q.op = p.op /\ q.outs = p.outs
            /\ q.ins = [j \in DOMAIN p.ins |-> Rewired(g, p.ins[j])]
        BY <2>5, <2>6, <4>1
      <4>3. Value(g, f, u, n) = Computed(p.op, i, args)
        BY ValueComputed DEF Sound
      <4>4. Value(h, f, u, n) = Computed(p.op, i, [j \in DOMAIN q.ins |-> f[q.ins[j]]])
        <5> HIDE DEF q
        <5> QED
          BY <2>15, <4>2, ValueComputed
      <4>5. [j \in DOMAIN q.ins |-> f[q.ins[j]]] = args
        <5> HIDE DEF q
        <5>1. ASSUME NEW j \in DOMAIN p.ins PROVE f[q.ins[j]] = f[p.ins[j]]
          <6>1. p.ins[j] \in Tensors(g)
            <7>1. p.ins[j] \in Read(g)
              BY <4>1 DEF Read, ToSet
            <7> QED
              BY <2>12, <7>1
          <6>2. f[Rewired(g, p.ins[j])] = f[p.ins[j]]
            BY <2>18, <6>1, IdentityMeans
          <6> QED
            BY <4>2, <6>2
        <5>2. DOMAIN q.ins = DOMAIN p.ins
          BY <4>2
        <5> QED
          BY <5>1, <5>2
      <4> HIDE DEF q, i, args
      <4> QED
        BY <3>2, <4>3, <4>4, <4>5
    <3> QED
      BY <3>3, <3>4
  <2>19. Carries(g, h)
    BY <2>3, <2>16, <2>17, <2>18 DEF Carries
  <2> QED
    BY <2>19 DEF h
<1> QED
  BY <1>0, <1>1

-----------------------------------------------------------------------------
(* The second pass *)

Fusing(g)       == {r \in ToSet(g.nodes) : \E m \in ToSet(g.nodes) : FusesInto(g, m, r)}
MatMulOf(g, r)  == CHOOSE m \in ToSet(g.nodes) : FusesInto(g, m, r)
Gone(g)         == Fusing(g) \cup {MatMulOf(g, r) : r \in Fusing(g)}
FusedNode(g, r) == [MatMulOf(g, r) EXCEPT !.op = "MatMulRelu", !.outs = r.outs]

(* The node that stands for a MatMul and the Relu behind it. *)
LEMMA FusedNodeIs ==
    ASSUME NEW g, GraphTyped(g), NEW r \in Fusing(g)
    PROVE  LET m == MatMulOf(g, r)
               q == FusedNode(g, r)
           IN  /\ r \in ToSet(g.nodes) /\ m \in ToSet(g.nodes) /\ FusesInto(g, m, r)
               /\ q.op = "MatMulRelu" /\ q.ins = m.ins /\ q.outs = r.outs
<1> DEFINE m == MatMulOf(g, r)
<1>1. r \in ToSet(g.nodes) /\ m \in ToSet(g.nodes) /\ FusesInto(g, m, r)
  BY DEF Fusing, MatMulOf
<1>2. m \in NodeTypes
  BY <1>1, NodesTyped
<1>3. FusedNode(g, r) = [m EXCEPT !.op = "MatMulRelu", !.outs = r.outs]
  BY DEF FusedNode
<1> HIDE DEF m
<1>4. LET q == FusedNode(g, r) IN q.op = "MatMulRelu" /\ q.ins = m.ins /\ q.outs = r.outs
  BY <1>2, <1>3 DEF NodeTypes
<1> QED
  BY <1>1, <1>4 DEF m

(* The tensor between a MatMul and its Relu has no other use. *)
LEMMA FusedPair ==
    ASSUME NEW g, Sound(g), NEW r \in Fusing(g)
    PROVE  LET m == MatMulOf(g, r)
               x == r.ins[1]
           IN  /\ r.op = "Relu" /\ DOMAIN r.ins = {1} /\ DOMAIN r.outs = {1}
               /\ ToSet(r.outs) = {r.outs[1]}
               /\ m.op = "MatMul" /\ DOMAIN m.outs = {1} /\ m.outs[1] = x /\ ToSet(m.outs) = {x}
               /\ x \notin GraphIo(g) /\ m \in Producers(g, x)
               /\ \A n \in ToSet(g.nodes) : x \in ToSet(n.ins) => n = r
<1> DEFINE m == MatMulOf(g, r)
           x == r.ins[1]
<1>1. /\ r \in ToSet(g.nodes) /\ m \in ToSet(g.nodes) /\ FusesInto(g, m, r)
  BY FusedNodeIs DEF Sound
<1> HIDE DEF m
<1>2. /\ r.op = "Relu" /\ Len(r.ins) = 1 /\ Len(r.outs) = 1 /\ m.op = "MatMul" /\ m.outs = r.ins
      /\ Consumers(g, x) = 1 /\ x \notin GraphIo(g)
  BY <1>1 DEF FusesInto
<1>3. DOMAIN r.ins = {1} /\ DOMAIN r.outs = {1}
  <2>1. DOMAIN r.ins = 1 .. 1 /\ DOMAIN r.outs = 1 .. 1
    BY <1>1, <1>2, NodesTyped DEF Sound
  <2> QED
    BY <2>1
<1>4. ToSet(r.outs) = {r.outs[1]} /\ ToSet(m.outs) = {x}
  BY <1>2, <1>3 DEF ToSet
<1>5. m \in Producers(g, x)
  BY <1>1, <1>4 DEF Producers
<1>6. ASSUME NEW n \in ToSet(g.nodes), x \in ToSet(n.ins) PROVE n = r
  <2>1. PICK i \in DOMAIN g.nodes, j \in DOMAIN g.nodes : n = g.nodes[i] /\ r = g.nodes[j]
    BY <1>1 DEF ToSet
  <2>2. PICK k \in DOMAIN n.ins : n.ins[k] = x
    BY <1>6 DEF ToSet
  <2>3. 1 \in DOMAIN r.ins
    BY <1>3
  <2> HIDE DEF x
  <2>4. i = j
    <3>1. r.ins[1] = x
      BY DEF x
    <3> QED
      BY <1>2, <2>1, <2>2, <2>3, <3>1, OneReader DEF Sound
  <2> QED
    BY <2>1, <2>4
<1> QED
  BY <1>2, <1>3, <1>4, <1>5, <1>6 DEF m

(* The nodes that are left once every such pair is fused. *)
LEMMA NodesWithMatMulRelu ==
    ASSUME NEW g, GraphTyped(g), WithMatMulRelu(g) # g
    PROVE  \E nodes : /\ WithMatMulRelu(g) = WithNodes(g, nodes)
                      /\ ToSet(nodes) = (ToSet(g.nodes) \ Gone(g))
                                            \cup {FusedNode(g, r) : r \in Fusing(g)}
<1> DEFINE N == ToSet(g.nodes)
           relus == Picked(g.nodes, Fusing(g))
           rest == Picked(g.nodes, N \ Gone(g))
           added == [i \in DOMAIN relus |-> FusedNode(g, relus[i])]
           S == NodeTypes \cup {FusedNode(g, r) : r \in Fusing(g)}
<1>1. relus \in Seq(NodeTypes) /\ ToSet(relus) = Fusing(g)
  <2>1. relus \in Seq(NodeTypes) /\ ToSet(relus) = N \cap Fusing(g)
    BY PickedNodes DEF GraphTyped, DistinctIds
  <2> QED
    BY <2>1 DEF Fusing
<1>2. WithMatMulRelu(g) = IF relus = << >> THEN g ELSE WithNodes(g, rest \o added)
  <2>1. Gone(g) = ToSet(relus) \cup {MatMulOf(g, r) : r \in ToSet(relus)}
    BY <1>1 DEF Gone
  <2> QED
    BY <2>1 DEF WithMatMulRelu, Fusing, MatMulOf, FusedNode
<1>3. rest \in Seq(NodeTypes) /\ ToSet(rest) = N \ Gone(g)
  <2>1. rest \in Seq(NodeTypes) /\ ToSet(rest) = N \cap (N \ Gone(g))
    BY PickedNodes DEF GraphTyped, DistinctIds
  <2> QED
    BY <2>1
<1> HIDE DEF relus, rest
<1>4. added \in Seq(S) /\ ToSet(added) = {FusedNode(g, r) : r \in Fusing(g)}
  <2>1. DOMAIN relus = 1 .. Len(relus) /\ Len(relus) \in Nat
    BY <1>1
  <2>2. \A i \in DOMAIN relus : relus[i] \in Fusing(g)
    BY <1>1 DEF ToSet
  <2>3. added \in Seq(S)
    BY <2>1, <2>2
  <2>4. ToSet(added) = {FusedNode(g, r) : r \in ToSet(relus)}
    BY DEF ToSet
  <2> QED
    BY <1>1, <2>3, <2>4
<1>5. rest \in Seq(S)
  <2>1. \A i \in DOMAIN rest : rest[i] \in S
    BY <1>3
  <2>2. DOMAIN rest = 1 .. Len(rest) /\ Len(rest) \in Nat /\ rest = [i \in DOMAIN rest |-> rest[i]]
    BY <1>3
  <2> HIDE DEF S
  <2> QED
    BY <2>1, <2>2
<1> HIDE DEF added, S
<1>6. ToSet(rest \o added) = (N \ Gone(g)) \cup {FusedNode(g, r) : r \in Fusing(g)}
  BY <1>3, <1>4, <1>5, ToSetConcat
<1>7. WithMatMulRelu(g) = WithNodes(g, rest \o added)
  BY <1>2
<1> QED
  BY <1>6, <1>7

(* fuse_matmul_relu keeps what every remaining tensor means. *)
LEMMA PassTwo ==
    ASSUME NEW g, Sound(g)
    PROVE  Carries(g, WithMatMulRelu(g))
<1> DEFINE h == WithMatMulRelu(g)
           N == ToSet(g.nodes)
           K == N \ Gone(g)
           X == {r.ins[1] : r \in Fusing(g)}
<1>0. CASE h = g
  BY <1>0, CarriesSame
<1>1. CASE h # g
  <2>1. PICK nodes : /\ h = WithNodes(g, nodes)
                     /\ ToSet(nodes) = K \cup {FusedNode(g, r) : r \in Fusing(g)}
    BY <1>1, NodesWithMatMulRelu DEF Sound
  <2>2. GraphTyped(h)
    BY WithMatMulReluTyped DEF Sound
  <2> HIDE DEF h
  <2>3. /\ h.outputs = g.outputs /\ h.inputs = g.inputs /\ h.weights = g.weights
        /\ GraphIo(h) = GraphIo(g) /\ h.nodes = nodes
        /\ Tensors(h) = Tensors(g) \cap (GraphIo(g) \cup Uses(h.nodes))
    BY <2>1, WithNodesIs DEF Sound
  <2>4. ToSet(h.nodes) = K \cup {FusedNode(g, r) : r \in Fusing(g)}
    BY <2>1, <2>3
  <2>5. ASSUME NEW r \in Fusing(g)
        PROVE  /\ r \in N /\ MatMulOf(g, r) \in N /\ r \in Gone(g) /\ MatMulOf(g, r) \in Gone(g)
               /\ FusedNode(g, r) \in ToSet(h.nodes) /\ FusedNode(g, r).op = "MatMulRelu"
               /\ FusedNode(g, r).ins = MatMulOf(g, r).ins /\ FusedNode(g, r).outs = r.outs
               /\ r.op = "Relu" /\ MatMulOf(g, r).op = "MatMul"
    BY <2>4, FusedNodeIs, FusedPair DEF Sound, Gone
  <2>6. ASSUME NEW n \in N, NEW t \in ToSet(n.ins), t \in X PROVE n \in Fusing(g)
    BY <2>6, FusedPair
  <2>7. ASSUME NEW n \in N, NEW t \in ToSet(n.outs), t \in X
        PROVE  \E r \in Fusing(g) : n = MatMulOf(g, r)
    <3>1. PICK r \in Fusing(g) : t = r.ins[1]
      BY <2>7
    <3>2. MatMulOf(g, r) \in Producers(g, t) /\ n \in Producers(g, t)
      BY <3>1, FusedPair DEF Producers
    <3> QED
      BY <3>2 DEF Sound, Single
  <2>8. ASSUME NEW t \in Read(h) PROVE t \in Read(g) /\ t \notin X
    <3>1. PICK q \in ToSet(h.nodes) : t \in ToSet(q.ins)
      BY DEF Read
    <3>2. CASE q \in K
      BY <2>6, <3>1, <3>2 DEF Read, Gone
    <3>3. CASE q \notin K
      <4>1. PICK r \in Fusing(g) : q = FusedNode(g, r)
        BY <2>4, <3>3
      <4>2. t \in ToSet(MatMulOf(g, r).ins)
        BY <2>5, <3>1, <4>1
      <4>3. MatMulOf(g, r) \notin Fusing(g)
        <5>1. "MatMul" # "Relu"
          OBVIOUS
        <5> QED
          BY <2>5, <5>1
      <4> QED
        BY <2>5, <2>6, <4>2, <4>3 DEF Read
    <3> QED
      BY <3>2, <3>3
  <2>9. ASSUME NEW q \in ToSet(h.nodes), NEW t \in ToSet(q.outs)
        PROVE  t \in Uses(g.nodes) /\ t \notin X
    <3>1. CASE q \in K
      BY <2>7, <3>1 DEF Uses, Gone
    <3>2. CASE q \notin K
      <4>1. PICK r \in Fusing(g) : q = FusedNode(g, r)
        BY <2>4, <3>2
      <4>2. t \in ToSet(r.outs)
        BY <2>5, <4>1
      <4>3. \A s \in Fusing(g) : r # MatMulOf(g, s)
        <5>1. "MatMul" # "Relu"
          OBVIOUS
        <5> QED
          BY <2>5, <5>1
      <4> QED
        BY <2>5, <2>7, <4>2, <4>3 DEF Uses
    <3> QED
      BY <3>1, <3>2
  <2>10. ASSUME NEW t \in GraphIo(g) PROVE t \notin X
    BY FusedPair
  <2>11. Read(g) \subseteq Uses(g.nodes) /\ Uses(g.nodes) \subseteq Tensors(g) /\ GraphIo(g) \subseteq Tensors(g)
    BY DEF Read, Uses, Sound, Complete
  <2>12. ASSUME NEW t \in GraphIo(h) \cup Uses(h.nodes)
         PROVE  t \in Tensors(h) /\ t \in Tensors(g) /\ t \notin X
    <3>1. CASE t \in GraphIo(h)
      BY <2>3, <2>10, <2>11, <3>1
    <3>2. CASE t \in Read(h)
      <4>1. t \in Uses(h.nodes)
        BY <3>2 DEF Read, Uses
      <4> QED
        BY <2>3, <2>8, <2>11, <3>2, <4>1
    <3>3. CASE \E q \in ToSet(h.nodes) : t \in ToSet(q.outs)
      <4>1. t \in Uses(h.nodes)
        BY <3>3 DEF Uses
      <4> QED
        BY <2>3, <2>9, <2>11, <3>3, <4>1
    <3> QED
      BY <3>1, <3>2, <3>3 DEF Uses, Read
  (* The node that computes a tensor that stays is the one it was, or fused. *)
  <2>13. ASSUME NEW u, u \notin X, NEW p \in Producers(g, u)
         PROVE  \/ p \in K /\ p \in Producers(h, u)
                \/ p \in Fusing(g) /\ FusedNode(g, p) \in Producers(h, u)
    <3>1. p \in N /\ u \in ToSet(p.outs)
      BY DEF Producers
    <3>2. \A r \in Fusing(g) : p # MatMulOf(g, r)
      BY <2>13, <3>1, FusedPair
    <3>3. CASE p \in Fusing(g)
      BY <2>5, <3>1, <3>3 DEF Producers
    <3>4. CASE p \notin Fusing(g)
      BY <2>4, <3>1, <3>2, <3>4 DEF Producers, Gone
    <3> QED
      BY <3>3, <3>4
  <2>14. ASSUME NEW u, NEW q \in Producers(h, u)
         PROVE  \/ q \in K /\ q \in Producers(g, u)
                \/ \E r \in Fusing(g) : r \in Producers(g, u) /\ q = FusedNode(g, r)
    <3>1. q \in ToSet(h.nodes) /\ u \in ToSet(q.outs)
      BY DEF Producers
    <3>2. CASE q \in K
      BY <3>1, <3>2 DEF Producers
    <3>3. CASE q \notin K
      <4>1. PICK r \in Fusing(g) : q = FusedNode(g, r)
        BY <2>4, <3>1, <3>3
      <4> QED
        BY <2>5, <3>1, <4>1 DEF Producers
    <3> QED
      BY <3>2, <3>3
  <2>15. Single(h)
    <3> SUFFICES ASSUME NEW u, NEW p \in Producers(h, u), NEW q \in Producers(h, u) PROVE p = q
      BY DEF Single
    <3>1. \A a, b \in Producers(g, u) : a = b
      BY DEF Sound, Single
    <3>2. Fusing(g) \cap K = {}
      BY DEF Gone
    <3> QED
      BY <2>14, <3>1, <3>2
  <2>16. Complete(h)
    <3>1. ASSUME NEW t \in h.outputs \cup Read(h) PROVE t \in Given(h) \/ Producers(h, t) # {}
      <4>1. t \in g.outputs \cup Read(g)
        BY <2>3, <2>8
      <4>2. t \in Given(g) \/ Producers(g, t) # {}
        BY <4>1 DEF Sound, Complete
      <4>3. t \notin X
        BY <2>3, <2>8, <2>10 DEF GraphIo
      <4>4. CASE t \in Given(g)
        BY <2>3, <4>4 DEF Given
      <4>5. CASE Producers(g, t) # {}
        BY <2>13, <4>3, <4>5
      <4> QED
        BY <4>2, <4>4, <4>5
    <3> QED
      BY <2>12, <3>1 DEF Complete
  <2>17. Sound(h) /\ Tensors(h) \subseteq Tensors(g)
    BY <2>2, <2>3, <2>15, <2>16 DEF Sound
  <2>18. ASSUME NEW rank, NEW top, Ranked(h, rank, top)
         PROVE  \E r, k : Ranked(g, r, k)
    <3> DEFINE at(t) == IF t \in Tensors(h) THEN rank[t] ELSE 0
               relu(t) == CHOOSE r \in Fusing(g) : r.ins[1] = t
               rk == [t \in Tensors(g) |-> IF t \in X THEN 2 * at(relu(t).outs[1]) ELSE 2 * at(t) + 1]
    <3>1. /\ top \in Nat
          /\ \A t : at(t) \in 0 .. top
      BY <2>18 DEF Ranked
    <3>2. \A t \in Tensors(h) : at(t) = rank[t]
      OBVIOUS
    <3> HIDE DEF at
    <3>3. ASSUME NEW r \in Fusing(g) PROVE relu(r.ins[1]) = r
      <4> DEFINE s == relu(r.ins[1])
      <4>1. s \in Fusing(g) /\ s.ins[1] = r.ins[1]
        OBVIOUS
      <4> HIDE DEF s
      <4>2. r.ins[1] \in ToSet(s.ins) /\ s \in N
        <5>1. 1 \in DOMAIN s.ins /\ s \in N
          BY <2>5, <4>1, FusedPair
        <5> QED
          BY <4>1, <5>1 DEF ToSet
      <4>3. s = r
        BY <4>2, FusedPair
      <4> QED
        BY <4>3 DEF s
    <3> HIDE DEF relu
    <3>4. rk \in [Tensors(g) -> 0 .. (2 * top + 1)] /\ 2 * top + 1 \in Nat
      BY <3>1
    <3>5. \A t \in Tensors(g) :
             rk[t] = IF t \in X THEN 2 * at(relu(t).outs[1]) ELSE 2 * at(t) + 1
      OBVIOUS
    <3> HIDE DEF rk
    (* What a node of h reads is numbered lower than what it computes. *)
    <3>6. ASSUME NEW u \in Tensors(h), NEW q \in Producers(h, u), NEW t \in ToSet(q.ins)
          PROVE  /\ t \in Tensors(h) /\ t \in Tensors(g) /\ t \notin X
                 /\ rk[t] = 2 * rank[t] + 1 /\ rank[t] \in Nat /\ rank[u] \in Nat /\ rank[t] < rank[u]
      <4>1. t \in Read(h) /\ t \in Uses(h.nodes)
        BY DEF Producers, Read, Uses
      <4>2. t \in Tensors(h) /\ t \in Tensors(g) /\ t \notin X
        BY <2>12, <4>1
      <4>3. PICK j \in DOMAIN q.ins : t = q.ins[j]
        BY DEF ToSet
      <4>4. rank[t] < rank[u]
        BY <2>18, <4>3 DEF Ranked
      <4>5. rank[t] \in Nat /\ rank[u] \in Nat
        BY <2>18, <4>2 DEF Ranked
      <4> QED
        BY <3>2, <3>5, <4>2, <4>4, <4>5
    <3>7. ASSUME NEW u \in Tensors(g), NEW p \in Producers(g, u), NEW j \in DOMAIN p.ins
          PROVE  p.ins[j] \in Tensors(g) /\ rk[p.ins[j]] < rk[u]
      <4> DEFINE t == p.ins[j]
      <4>1. p \in N /\ u \in ToSet(p.outs) /\ t \in ToSet(p.ins) /\ t \in Tensors(g)
        <5>1. p \in N /\ u \in ToSet(p.outs) /\ t \in ToSet(p.ins)
          BY DEF Producers, ToSet
        <5>2. t \in Read(g)
          BY <5>1 DEF Read
        <5> QED
          BY <2>11, <5>1, <5>2
      <4>2. CASE u \in X
        <5>1. PICK r \in Fusing(g) : u = r.ins[1]
          BY <4>2
        <5> DEFINE y == r.outs[1]
        <5>2. p = MatMulOf(g, r)
          BY <5>1, FusedPair DEF Sound, Single
        <5>3. FusedNode(g, r) \in Producers(h, y) /\ t \in ToSet(FusedNode(g, r).ins)
          <6>1. y \in ToSet(r.outs)
            BY FusedPair
          <6> QED
            BY <2>5, <4>1, <5>2, <6>1 DEF Producers
        <5>4. y \in Tensors(h)
          <6>1. y \in Uses(h.nodes)
            BY <5>3 DEF Producers, Uses
          <6> QED
            BY <2>12, <6>1
        <5>5. rk[u] = 2 * rank[y]
          BY <3>2, <3>3, <3>5, <4>2, <5>1, <5>4
        <5> HIDE DEF t, y
        <5>6. rk[t] = 2 * rank[t] + 1 /\ rank[t] \in Nat /\ rank[y] \in Nat /\ rank[t] < rank[y]
          BY <3>6, <5>3, <5>4
        <5>7. rk[t] < rk[u]
          BY <5>5, <5>6
        <5> QED
          BY <4>1, <5>7 DEF t
      <4>3. CASE u \notin X
        <5>1. PICK q \in Producers(h, u) : \/ q = p /\ p \in K
                                           \/ p \in Fusing(g) /\ q = FusedNode(g, p)
          BY <2>13, <4>3
        <5>2. u \in Tensors(h)
          <6>1. u \in Uses(h.nodes)
            BY DEF Producers, Uses
          <6> QED
            BY <2>12, <6>1
        <5>3. rk[u] = 2 * rank[u] + 1 /\ rank[u] \in Nat
          BY <2>18, <3>2, <3>5, <4>3, <5>2 DEF Ranked
        <5>4. CASE q = p /\ p \in K
          <6> HIDE DEF t
          <6>1. rk[t] < rk[u]
            <7>1. rk[t] = 2 * rank[t] + 1 /\ rank[t] \in Nat /\ rank[t] < rank[u]
              BY <3>6, <4>1, <5>2, <5>4
            <7> QED
              BY <5>3, <7>1
          <6> QED
            BY <4>1, <6>1 DEF t
        <5>5. CASE p \in Fusing(g)
          <6>1. t = p.ins[1] /\ t \in X /\ u = p.outs[1]
            BY <4>1, <5>5, FusedPair
          <6>2. rk[t] = 2 * rank[u]
            BY <3>2, <3>3, <3>5, <4>1, <5>2, <5>5, <6>1
          <6> HIDE DEF t
          <6>3. rk[t] < rk[u]
            BY <5>3, <6>2
          <6> QED
            BY <4>1, <6>3 DEF t
        <5> QED
          BY <5>1, <5>4, <5>5
      <4> QED
        BY <4>2, <4>3
    <3>8. Ranked(g, rk, 2 * top + 1)
      BY <3>4, <3>7 DEF Ranked
    <3> QED
      BY <3>8
  <2>19. ASSUME NEW f, NEW n, Solves(g, f, n) PROVE Solves(h, f, n)
    <3> SUFFICES ASSUME NEW u \in Tensors(h) PROVE f[u] = Value(h, f, u, n)
      BY DEF Solves
    <3>1. u \in Tensors(g) /\ u \notin X
      BY <2>3, <2>12
    <3>2. f[u] = Value(g, f, u, n)
      BY <2>19, <3>1 DEF Solves
    <3>3. CASE Producers(g, u) = {}
      <4>1. Producers(h, u) = {}
        BY <2>14, <3>3
      <4> QED
        BY <2>3, <3>2, <3>3, <4>1 DEF Value, Leaf
    <3>4. ASSUME NEW p \in Producers(g, u), p \in K PROVE f[u] = Value(h, f, u, n)
      <4> DEFINE value == Computed(p.op, CHOOSE j \in DOMAIN p.outs : p.outs[j] = u,
                                   [j \in DOMAIN p.ins |-> f[p.ins[j]]])
      <4>1. p \in Producers(h, u)
        <5>1. p \in ToSet(h.nodes)
          BY <2>4, <3>4
        <5>2. u \in ToSet(p.outs)
          BY DEF Producers
        <5> QED
          BY <5>1, <5>2 DEF Producers
      <4>2. Value(g, f, u, n) = value
        <5>1. Single(g) /\ p \in Producers(g, u)
          BY <3>4 DEF Sound
        <5> QED
          BY <5>1, ValueComputed
      <4>3. Value(h, f, u, n) = value
        BY <2>15, <4>1, ValueComputed
      <4> QED
        BY <3>2, <4>2, <4>3
    <3>5. ASSUME NEW r \in Producers(g, u), r \in Fusing(g) PROVE f[u] = Value(h, f, u, n)
      <4> DEFINE m == MatMulOf(g, r)
                 x == r.ins[1]
                 q == FusedNode(g, r)
                 args == [j \in DOMAIN m.ins |-> f[m.ins[j]]]
                 inner == Term("MatMul", 1, 0, args)
      <4>1. /\ r.op = "Relu" /\ DOMAIN r.ins = {1} /\ DOMAIN r.outs = {1} /\ u = r.outs[1]
            /\ m.op = "MatMul" /\ DOMAIN m.outs = {1} /\ m.outs[1] = x /\ m \in Producers(g, x)
        BY <3>5, FusedPair DEF Producers
      <4>2. q \in Producers(h, u) /\ q.op = "MatMulRelu" /\ q.ins = m.ins /\ q.outs = r.outs
        BY <2>5, <3>5 DEF Producers
      <4>3. x \in Tensors(g)
        <5>1. x \in ToSet(m.outs) /\ m \in N
          BY <4>1 DEF Producers
        <5> QED
          BY <2>11, <5>1 DEF Uses
      <4> HIDE DEF m, x, q
      <4>4. (CHOOSE j \in DOMAIN r.outs : r.outs[j] = u) = 1
        BY <4>1
      <4>5. (CHOOSE j \in DOMAIN m.outs : m.outs[j] = x) = 1
        BY <4>1
      <4>6. f[x] = inner
        <5>1. f[x] = Value(g, f, x, n)
          BY <2>19, <4>3 DEF Solves
        <5>2. Value(g, f, x, n) = Computed("MatMul", 1, args)
          BY <4>1, <4>5, ValueComputed DEF Sound
        <5>3. Computed("MatMul", 1, args) = inner
          BY DEF Computed
        <5> QED
          BY <5>1, <5>2, <5>3
      <4> HIDE DEF inner, args
      <4>7. [j \in DOMAIN r.ins |-> f[r.ins[j]]] = <<inner>>
        <5>1. \A j \in {1} : f[r.ins[j]] = inner
          BY <4>6 DEF x
        <5>2. [j \in {1} |-> f[r.ins[j]]] = [j \in {1} |-> inner]
          BY <5>1
        <5>3. [j \in {1} |-> inner] = <<inner>>
          OBVIOUS
        <5> QED
          BY <4>1, <5>2, <5>3
      <4>8. f[u] = Term("Relu", 1, 0, <<inner>>)
        <5>1. Value(g, f, u, n) = Computed("Relu", 1, <<inner>>)
          BY <3>5, <4>1, <4>4, <4>7, ValueComputed DEF Sound
        <5>2. Computed("Relu", 1, <<inner>>) = Term("Relu", 1, 0, <<inner>>)
          BY DEF Computed
        <5> QED
          BY <3>2, <5>1, <5>2
      <4>9. Value(h, f, u, n) = Computed("MatMulRelu", 1, args)
        BY <2>15, <4>2, <4>4, ValueComputed DEF args
      <4>10. Computed("MatMulRelu", 1, args) = Term("Relu", 1, 0, <<inner>>)
        BY DEF Computed, inner
      <4> QED
        BY <4>8, <4>9, <4>10
    <3>6. CASE Producers(g, u) # {}
      <4>1. PICK p \in Producers(g, u) : TRUE
        BY <3>6
      <4> QED
        BY <2>13, <3>1, <3>4, <3>5, <4>1
    <3> QED
      BY <3>3, <3>6
  <2>20. Carries(g, h)
    BY <2>3, <2>17, <2>18, <2>19 DEF Carries
  <2> QED
    BY <2>20 DEF h
<1> QED
  BY <1>0, <1>1

-----------------------------------------------------------------------------
(* The graph in use and its slots *)

(* In a graph of the caller every tensor has at most one producer. *)
LEMMA GraphsAreSingle ==
    ASSUME NEW g, IsGraph(g)
    PROVE  GraphTyped(g) /\ Single(g)
<1>1. GraphTyped(g)
  BY DEF IsGraph, GraphTyped, Tensors
<1>2. ASSUME NEW t, NEW p \in Producers(g, t), NEW q \in Producers(g, t) PROVE p = q
  <2>1. PICK i \in DOMAIN g.nodes, j \in DOMAIN g.nodes : p = g.nodes[i] /\ q = g.nodes[j]
    BY DEF Producers, ToSet
  <2>2. t \in ToSet(g.nodes[i].outs) \cap ToSet(g.nodes[j].outs)
    BY <2>1 DEF Producers
  <2>3. i = j
    BY <2>2 DEF IsGraph
  <2> QED
    BY <2>1, <2>3
<1> QED
  BY <1>1, <1>2 DEF Single

(* However the graph was rewritten, its tensors mean what they mean to the     *)
(* caller.                                                                      *)
LEMMA RewrittenCarries ==
    ASSUME src \in Graphs, Meaningful
    PROVE  Carries(src, Rewritten)
<1>1. Sound(src)
  BY GraphAssumption, GraphsAreSingle DEF Sound, Meaningful
<1>2. CASE opt.fusion
  <2>1. Carries(src, WithoutIdentities(src))
    BY <1>1, <1>2, PassOne DEF Meaningful
  <2>2. Carries(WithoutIdentities(src), WithMatMulRelu(WithoutIdentities(src)))
    BY <2>1, PassTwo DEF Carries
  <2> QED
    BY <1>2, <2>1, <2>2, CarriesOn DEF Rewritten
<1>3. CASE ~ opt.fusion
  BY <1>1, <1>3, CarriesSame DEF Rewritten
<1> QED
  BY <1>2, <1>3

Means(n) == [u \in Tensors(src) |-> Meaning(src, u, n)]

(* What a tensor means to the caller solves the equations of the graph in use. *)
LEMMA MeaningInUse ==
    ASSUME OrderInv, ExecInv, Allocated, Meaningful, NEW n
    PROVE  /\ Sound(graph) /\ graph.outputs = src.outputs
           /\ \A t \in Tensors(graph) :
                 /\ Meaning(src, t, n) = Means(n)[t]
                 /\ Meaning(src, t, n) = Value(graph, Means(n), t, n)
<1>1. /\ src \in Graphs /\ graph = Rewritten /\ Valid(graph)
  BY DEF ExecInv, GraphInUse, AllPlaced, Allocated
<1>2. Carries(src, graph)
  BY <1>1, RewrittenCarries
<1>3. Sound(graph) /\ graph.outputs = src.outputs /\ Tensors(graph) \subseteq Tensors(src)
  BY <1>2 DEF Carries
<1>4. ops \in Seq(NodeTypes) /\ Ordered(graph, ops)
  BY DEF OrderInv, SortConsistent, OpsInOrder, Planned, Allocated
<1>5. \E rank, top : Ranked(graph, rank, top)
  <2>1. \A m \in ToSet(graph.nodes) : ToSet(m.ins) \cap ToSet(m.outs) = {}
    BY <1>1 DEF Valid
  <2>2. Uses(graph.nodes) \subseteq Tensors(graph) /\ GraphTyped(graph) /\ Single(graph)
    BY <1>3 DEF Sound, Complete
  <2> QED
    BY <1>4, <2>1, <2>2, PlanRanks
<1>6. PICK rank, top : Ranked(src, rank, top)
  BY <1>2, <1>5 DEF Carries
<1>7. Solves(src, Means(n), n)
  BY <1>6, MeaningSolves DEF Means
<1>8. Solves(graph, Means(n), n)
  BY <1>2, <1>7 DEF Carries
<1>9. \A t \in Tensors(graph) : Means(n)[t] = Meaning(src, t, n)
  BY <1>3 DEF Means
<1> QED
  BY <1>3, <1>8, <1>9 DEF Solves

(* A tensor that is given or returned is alive all the time. *)
LEMMA FixedAlways ==
    ASSUME NEW t, Fixed(t)
    PROVE  FirstUse(t) = 0 /\ LastUse(t) = Len(ops)
BY DEF FirstUse, LastUse

(* Two tensors alive at the same op are in different slots. *)
LEMMA AliveApart ==
    ASSUME OrderInv, SharingInv, AllPlaced, Bound, NEW t \in Tensors(graph), NEW u \in Tensors(graph),
           slot_of[t] = slot_of[u], NEW k \in Int,
           FirstUse(t) <= k, k <= LastUse(t), FirstUse(u) <= k, k <= LastUse(u)
    PROVE  t = u
<1>1. t \in DOMAIN slot_of /\ u \in DOMAIN slot_of
  BY DEF AllPlaced
<1>2. /\ FirstUse(t) \in Int /\ LastUse(t) \in Int /\ FirstUse(u) \in Int /\ LastUse(u) \in Int
  BY Lifetime DEF OrderInv, SortConsistent
<1>3. t # u => LastUse(t) < FirstUse(u) \/ LastUse(u) < FirstUse(t)
  BY <1>1 DEF SharingInv, NoLiveSharing
<1> QED
  BY <1>2, <1>3

(* run() finds in graph_ the node the plan names. *)
LEMMA CurrentIs ==
    ASSUME OrderInv, Planned, oi \in DOMAIN ops
    PROVE  Current = ops[oi] /\ ops[oi] \in ToSet(graph.nodes)
<1>1. ops[oi] \in ToSet(ops) /\ ToSet(ops) = ToSet(graph.nodes)
  BY DEF OrderInv, OpsInOrder, Ordered, ToSet
<1>2. \A m, n \in ToSet(graph.nodes) : m.id = n.id => m = n
  BY DEF OrderInv, GraphTyped, ToSet
<1> QED
  BY <1>1, <1>2 DEF Current, Node

Running == pc \in {"op", "kernel"} /\ oi <= Len(ops)

(* The op that runs is a node of the graph, and its tensors are alive. *)
LEMMA CurrentFacts ==
    ASSUME OrderInv, ExecInv, Running
    PROVE  /\ oi \in DOMAIN ops /\ oi \in Nat /\ DOMAIN ops = 1 .. Len(ops) /\ Len(ops) \in Nat
           /\ Current = ops[oi] /\ Current \in ToSet(graph.nodes)
           /\ ToSet(Current.ins) \subseteq Tensors(graph) /\ ToSet(Current.outs) \subseteq Tensors(graph)
           /\ ToSet(Current.ins) \cap ToSet(Current.outs) = {}
           /\ \A t \in ToSet(Current.ins) \cup ToSet(Current.outs) :
                 FirstUse(t) <= oi - 1 /\ oi - 1 <= LastUse(t)
<1>1. ops \in Seq(NodeTypes)
  BY DEF OrderInv, SortConsistent
<1>2. /\ oi \in DOMAIN ops /\ oi \in Nat /\ DOMAIN ops = 1 .. Len(ops) /\ Len(ops) \in Nat
  BY <1>1 DEF ExecInv, BuffersHold, Running
<1>3. Current = ops[oi] /\ Current \in ToSet(graph.nodes)
  BY <1>2, CurrentIs DEF Planned, Running
<1>4. Valid(graph)
  BY DEF ExecInv, AllPlaced, Allocated, Running
<1>5. Uses(graph.nodes) \subseteq Tensors(graph) /\ ToSet(Current.ins) \cap ToSet(Current.outs) = {}
  BY <1>3, <1>4 DEF Valid
<1>6. ToSet(Current.ins) \subseteq Tensors(graph) /\ ToSet(Current.outs) \subseteq Tensors(graph)
  BY <1>3, <1>5 DEF Uses
<1>7. \A t \in ToSet(Current.ins) \cup ToSet(Current.outs) : oi \in At(t)
  BY <1>2, <1>3 DEF At
<1> QED
  BY <1>1, <1>2, <1>3, <1>5, <1>6, <1>7, Lifetime

(* What an op writes is in the slot of no other tensor that is alive. *)
LEMMA ApartFromOutputs ==
    ASSUME OrderInv, SharingInv, ExecInv, Running, NEW t \in Tensors(graph),
           t \notin ToSet(Current.outs), FirstUse(t) <= oi - 1, oi - 1 <= LastUse(t)
    PROVE  \A u \in ToSet(Current.outs) : slot_of[u] # slot_of[t]
<1> SUFFICES ASSUME NEW u \in ToSet(Current.outs), slot_of[t] = slot_of[u] PROVE FALSE
  OBVIOUS
<1>1. u \in Tensors(graph) /\ FirstUse(u) <= oi - 1 /\ oi - 1 <= LastUse(u) /\ oi - 1 \in Int
  BY CurrentFacts
<1>2. Bound /\ AllPlaced
  BY DEF Running, Bound, ExecInv
<1>3. t = u
  BY <1>1, <1>2, AliveApart
<1> QED
  BY <1>3

(* A slot that must hold a meaning belongs to a tensor that is alive. *)
LEMMA HeldAlive ==
    ASSUME OrderInv, ExecInv, pc \in {"op", "kernel"}, NEW t, Held(t)
    PROVE  FirstUse(t) <= oi - 1 /\ oi - 1 <= LastUse(t)
<1>1. ops \in Seq(NodeTypes) /\ oi \in 1 .. (Len(ops) + 1)
  BY DEF OrderInv, SortConsistent, ExecInv, BuffersHold
<1>2. oi - 1 <= LastUse(t)
  BY DEF Held
<1>3. CASE t \in Given(graph)
  <2>1. Fixed(t)
    BY <1>3 DEF Given, Fixed, GraphIo
  <2> QED
    BY <1>1, <1>2, <2>1, FixedAlways
<1>4. CASE \E i \in 1 .. (oi - 1) : t \in ToSet(ops[i].outs)
  <2>1. PICK i \in 1 .. (oi - 1) : t \in ToSet(ops[i].outs)
    BY <1>4
  <2>2. i \in At(t)
    BY <1>1, <2>1 DEF At
  <2>3. FirstUse(t) <= i - 1 /\ FirstUse(t) \in Int
    BY <1>1, <2>2, Lifetime
  <2> QED
    BY <1>1, <1>2, <2>1, <2>3
<1> QED
  BY <1>3, <1>4 DEF Held

-----------------------------------------------------------------------------
(* The steps that do not compute *)

(* Once fusion is over the graph in use is the rewritten graph. *)
LEMMA GraphInUseKept ==
    ASSUME GraphInUse, [PlannerNext]_vars
    PROVE  GraphInUse'
<1>1. ASSUME NEW g \in Graphs, NEW o \in OptionSets, Create(g, o) PROVE GraphInUse'
  BY <1>1 DEF Create, GraphInUse
<1>2. CASE Fuse
  <2>1. pc' = "lookup" /\ graph = src /\ src \in Graphs /\ UNCHANGED <<src, opt>>
    BY <1>2 DEF Fuse, GraphInUse
  <2>2. graph' = IF opt.fusion THEN WithMatMulRelu(WithoutIdentities(src)) ELSE src
    BY <1>2, <2>1 DEF Fuse
  <2> QED
    BY <2>1, <2>2 DEF GraphInUse, Rewritten
<1>3. ASSUME NEW r, Destroyed(r) PROVE GraphInUse'
  BY <1>3 DEF Destroyed, GraphInUse
<1>4. ASSUME pc \notin {"idle", "fuse"}, pc' \notin {"idle", "fuse"}, UNCHANGED <<graph, src, opt>>
      PROVE  GraphInUse'
  BY <1>4 DEF GraphInUse, Rewritten
<1>5. CASE Lookup \/ SortBegins \/ SortStep \/ PutPlan \/ PlanWritten \/ AssignFixed \/ PlaceNext \/ Placed
  BY <1>4, <1>5 DEF Lookup, SortBegins, SortStep, PutPlan, PlanWritten, AssignFixed, PlaceNext, Placed
<1>6. CASE SortOver \/ Validate
  BY <1>3, <1>4, <1>6 DEF SortOver, Validate
<1>7. CASE CreateFails \/ Destroy \/ Crash
  BY <1>3, <1>7 DEF CreateFails, Destroy, Crash
<1>8. CASE Allocate \/ RunBegins \/ OpStarts \/ OpEnds \/ RunFails \/ RunOver
  BY <1>4, <1>8 DEF Allocate, RunBegins, OpStarts, OpEnds, RunFails, RunOver
<1>9. CASE UNCHANGED vars
  BY <1>9 DEF vars, GraphInUse, Rewritten
<1> QED
  BY <1>1, <1>2, <1>5, <1>6, <1>7, <1>8, <1>9 DEF PlannerNext, Work

(* The memory plan gives every tensor of the graph a slot. *)
LEMMA AllPlacedKept ==
    ASSUME OrderInv, SharingInv, AllPlaced, [PlannerNext]_vars
    PROVE  AllPlaced'
<1>1. ASSUME pc' \in {"idle", "fuse", "lookup", "sort", "put", "write", "memory"} PROVE AllPlaced'
  BY <1>1 DEF AllPlaced, Bound, Allocated
<1>2. ASSUME NEW r, Destroyed(r) PROVE AllPlaced'
  BY <1>1, <1>2 DEF Destroyed
<1>3. CASE \E g \in Graphs, o \in OptionSets : Create(g, o)
  BY <1>1, <1>3 DEF Create
<1>4. CASE Fuse \/ Lookup \/ SortBegins \/ SortStep \/ PutPlan \/ PlanWritten
  BY <1>1, <1>4 DEF Fuse, Lookup, SortBegins, SortStep, PutPlan, PlanWritten
<1>5. CASE SortOver
  BY <1>1, <1>2, <1>5 DEF SortOver
<1>6. CASE AssignFixed
  <2> DEFINE own == {t \in Tensors(graph) : ~ opt.reuse \/ Fixed(t)}
  <2>1. /\ pc' = "place" /\ UNCHANGED graph /\ DOMAIN slot_of' = own
        /\ todo' = Tensors(graph) \ own
    BY <1>6 DEF AssignFixed
  <2>2. own \subseteq Tensors(graph)
    OBVIOUS
  <2> HIDE DEF own
  <2>3. DOMAIN slot_of' \cup todo' = Tensors(graph)'
    BY <2>1, <2>2
  <2> QED
    BY <2>1, <2>3 DEF AllPlaced, Bound, Allocated
<1>7. CASE PlaceNext
  <2> DEFINE t == CHOOSE u \in todo : \A v \in todo \ {u} : Before(u, v)
  <2>1. /\ pc = "place" /\ pc' = "place" /\ UNCHANGED graph /\ todo # {}
        /\ DOMAIN slot_of' = DOMAIN slot_of \cup {t} /\ todo' = todo \ {t}
    BY <1>7 DEF PlaceNext
  <2>2. t \in todo
    <3>1. ops \in Seq(NodeTypes) /\ todo \subseteq Nat
      BY <2>1 DEF OrderInv, SortConsistent, SharingInv, GraphTyped
    <3>2. \E u \in todo : \A v \in todo \ {u} : Before(u, v)
      BY <2>1, <3>1, NextExists
    <3> QED
      BY <3>2
  <2> HIDE DEF t
  <2>3. DOMAIN slot_of \cup todo = Tensors(graph)
    BY <2>1 DEF AllPlaced
  <2>4. DOMAIN slot_of' \cup todo' = Tensors(graph)'
    BY <2>1, <2>2, <2>3
  <2> QED
    BY <2>1, <2>4 DEF AllPlaced, Bound, Allocated
<1>8. CASE Placed
  BY <1>8 DEF Placed, AllPlaced, Bound, Allocated, planVars
<1>9. CASE Validate
  <2>1. CASE Destroyed("invalid")
    BY <1>2, <2>1
  <2>2. CASE Valid(graph) /\ pc' = "allocate" /\ UNCHANGED <<graph, planVars>>
    BY <1>9, <2>2 DEF Validate, AllPlaced, Bound, planVars
  <2> QED
    BY <1>9, <2>1, <2>2 DEF Validate
<1>10. CASE CreateFails \/ Destroy \/ Crash
  BY <1>2, <1>10 DEF CreateFails, Destroy, Crash
<1>11. CASE Allocate \/ RunBegins \/ OpStarts \/ OpEnds \/ RunFails \/ RunOver
  BY <1>11 DEF Allocate, RunBegins, OpStarts, OpEnds, RunFails, RunOver, AllPlaced, Bound, Allocated, planVars
<1>12. CASE UNCHANGED vars
  BY <1>12 DEF vars, planVars, AllPlaced, Bound, Allocated
<1> QED
  BY <1>3, <1>4, <1>5, <1>6, <1>7, <1>8, <1>9, <1>10, <1>11, <1>12 DEF PlannerNext, Work

-----------------------------------------------------------------------------
(* The steps that write to the buffers *)

(* A weight no node computes is alive all the time, and no op writes to it. *)
LEMMA WeightIs ==
    ASSUME OrderInv, NEW t \in graph.weights, Producers(graph, t) = {}, Bound
    PROVE  /\ Fixed(t) /\ FirstUse(t) = 0 /\ LastUse(t) = Len(ops) /\ Len(ops) \in Nat
           /\ \A n : Leaf(graph, t, n) = Leaf(graph, t, 0)
           /\ \A n \in ToSet(graph.nodes) : t \notin ToSet(n.outs)
<1>1. Fixed(t)
  BY DEF Fixed
<1>2. ops \in Seq(NodeTypes)
  BY DEF OrderInv, SortConsistent
<1>3. \A n \in ToSet(graph.nodes) : t \notin ToSet(n.outs)
  BY DEF Producers
<1> QED
  BY <1>1, <1>2, <1>3, FixedAlways DEF Leaf

(* allocate_all_tensors fills the slots of the weights. *)
LEMMA AllocateHolds ==
    ASSUME OrderInv, SharingInv, ExecInv, Allocate
    PROVE  BuffersHold'
<1>1. /\ pc = "allocate" /\ pc' = "ready" /\ UNCHANGED <<result, src, opt, graph, ops, slot_of, slots>>
  BY DEF Allocate, planVars
<1>2. Bound /\ AllPlaced /\ DOMAIN slot_of = Tensors(graph)
  BY <1>1 DEF Bound, ExecInv, AllPlaced
<1> DEFINE W == graph.weights \cap Tensors(graph)
<1>3. mem' = [s \in DOMAIN slots |-> IF \E t \in W : slot_of[t] = s
                                    THEN Leaf(graph, CHOOSE t \in W : slot_of[t] = s, 0) ELSE Zeros]
  BY DEF Allocate
<1>4. result' # "ok"
  BY <1>1 DEF ExecInv, BuffersHold
<1>5. DOMAIN mem' = DOMAIN slots'
  BY <1>1, <1>3
<1>6. ASSUME NEW t \in W PROVE mem'[slot_of[t]] = Leaf(graph, t, 0)
  <2> DEFINE s == slot_of[t]
             u == CHOOSE v \in W : slot_of[v] = s
  <2>1. s \in DOMAIN slots
    BY <1>2 DEF SharingInv
  <2>2. u \in W /\ slot_of[u] = s
    OBVIOUS
  <2>3. mem'[s] = Leaf(graph, u, 0)
    BY <1>3, <2>1
  <2> HIDE DEF u
  <2>4. u = t
    <3>1. Fixed(t) /\ Fixed(u) /\ ops \in Seq(NodeTypes)
      BY <2>2 DEF Fixed, OrderInv, SortConsistent
    <3>2. FirstUse(t) = 0 /\ FirstUse(u) = 0 /\ 0 <= LastUse(t) /\ 0 <= LastUse(u)
      BY <3>1, FixedAlways
    <3> QED
      BY <1>2, <2>2, <3>2, AliveApart
  <2> QED
    BY <2>3, <2>4
<1>7. \A t \in (graph.weights \cap Tensors(graph))' : mem'[slot_of'[t]] = Leaf(graph, t, 0)'
  BY <1>1, <1>6
<1> QED
  BY <1>1, <1>4, <1>5, <1>7 DEF BuffersHold, OutputsRight

(* run() writes its inputs to slots no weight shares. *)
LEMMA RunBeginsHolds ==
    ASSUME OrderInv, SharingInv, ExecInv, RunBegins
    PROVE  BuffersHold'
<1>1. /\ pc = "ready" /\ pc' = "op" /\ oi' = 1 /\ round' = round + 1 /\ result' = "none"
      /\ UNCHANGED <<src, opt, graph, ops, slot_of, slots>>
  BY DEF RunBegins, planVars
<1>2. Bound /\ AllPlaced /\ DOMAIN slot_of = Tensors(graph) /\ Valid(graph) /\ Allocated
  BY <1>1 DEF Bound, ExecInv, AllPlaced, Allocated
<1> DEFINE I == graph.inputs
           n == round + 1
<1>3. mem' = [s \in DOMAIN slots |-> IF \E t \in I : slot_of[t] = s
                                    THEN Leaf(graph, CHOOSE t \in I : slot_of[t] = s, n) ELSE mem[s]]
  BY DEF RunBegins, Written
<1>4. DOMAIN mem' = DOMAIN slots'
  BY <1>1, <1>3
<1>5. I \subseteq Tensors(graph) /\ ops \in Seq(NodeTypes) /\ Len(ops) \in Nat
  BY <1>2 DEF Valid, GraphIo, OrderInv, SortConsistent
<1> HIDE DEF n
<1>6. ASSUME NEW t \in Tensors(graph), Fixed(t), NEW u \in I, slot_of[u] = slot_of[t] PROVE u = t
  <2>1. Fixed(u) /\ u \in Tensors(graph)
    BY <1>5 DEF Fixed, GraphIo
  <2>2. FirstUse(t) = 0 /\ FirstUse(u) = 0 /\ 0 <= LastUse(t) /\ 0 <= LastUse(u)
    BY <1>5, <1>6, <2>1, FixedAlways
  <2> QED
    BY <1>2, <1>6, <2>1, <2>2, AliveApart
<1>7. ASSUME NEW t \in I PROVE mem'[slot_of[t]] = Leaf(graph, t, n)
  <2> DEFINE s == slot_of[t]
             u == CHOOSE v \in I : slot_of[v] = s
  <2>1. s \in DOMAIN slots /\ Fixed(t) /\ t \in Tensors(graph)
    BY <1>2, <1>5 DEF SharingInv, Fixed, GraphIo
  <2>2. u \in I /\ slot_of[u] = s
    OBVIOUS
  <2>3. mem'[s] = Leaf(graph, u, n)
    BY <1>3, <2>1
  <2> HIDE DEF u
  <2> QED
    BY <1>6, <2>1, <2>2, <2>3
<1>8. ASSUME NEW t \in graph.weights \cap Tensors(graph), Producers(graph, t) = {}
      PROVE  mem'[slot_of[t]] = Leaf(graph, t, 0) /\ Leaf(graph, t, n) = Leaf(graph, t, 0)
  <2>1. Fixed(t) /\ Leaf(graph, t, n) = Leaf(graph, t, 0)
    BY <1>2, <1>8, WeightIs
  <2>2. CASE t \in I
    BY <1>7, <2>1, <2>2
  <2>3. CASE t \notin I
    <3>1. slot_of[t] \in DOMAIN slots /\ \A u \in I : slot_of[u] # slot_of[t]
      BY <1>2, <1>6, <2>1, <2>3 DEF SharingInv
    <3>2. mem'[slot_of[t]] = mem[slot_of[t]]
      BY <1>3, <3>1
    <3> QED
      BY <1>2, <1>8, <2>1, <3>2 DEF ExecInv, BuffersHold
  <2> QED
    BY <2>2, <2>3
<1>9. ASSUME Meaningful, NEW t \in Tensors(graph), Held(t)'
      PROVE  mem'[slot_of[t]] = Meaning(src, t, n)
  <2>1. t \in Given(graph) /\ Producers(graph, t) = {}
    BY <1>1, <1>9 DEF Held
  <2>2. Meaning(src, t, n) = Value(graph, Means(n), t, n)
    BY <1>2, <1>9, MeaningInUse
  <2>3. Value(graph, Means(n), t, n) = Leaf(graph, t, n)
    BY <2>1 DEF Value
  <2> QED
    BY <1>7, <1>8, <2>1, <2>2, <2>3 DEF Given
<1>10. Meaningful' => Meaningful
  BY <1>1 DEF Meaningful
<1>11. oi' \in 1 .. (Len(ops') + 1)
  BY <1>1, <1>5
<1> QED
  BY <1>1, <1>4, <1>8, <1>9, <1>10, <1>11 DEF BuffersHold, OutputsRight, n

(* An op in progress spoils the slots of its outputs only, none still to be used. *)
LEMMA OpStartsHolds ==
    ASSUME OrderInv, SharingInv, ExecInv, OpStarts
    PROVE  BuffersHold'
<1>1. /\ pc = "op" /\ pc' = "kernel" /\ oi <= Len(ops)
      /\ UNCHANGED <<result, src, opt, graph, ops, slot_of, slots, round, oi>>
  BY DEF OpStarts, planVars
<1>2. Running /\ Bound /\ Allocated /\ DOMAIN slot_of = Tensors(graph) /\ DOMAIN mem = DOMAIN slots
  BY <1>1 DEF Running, Bound, Allocated, ExecInv, AllPlaced, BuffersHold
<1>3. mem' = [s \in DOMAIN mem |-> IF \E t \in ToSet(Current.outs) : slot_of[t] = s THEN Partial ELSE mem[s]]
  BY DEF OpStarts
<1>4. DOMAIN mem' = DOMAIN slots'
  BY <1>1, <1>2, <1>3
<1>5. ASSUME NEW t \in Tensors(graph), t \notin ToSet(Current.outs),
             FirstUse(t) <= oi - 1, oi - 1 <= LastUse(t)
      PROVE  mem'[slot_of[t]] = mem[slot_of[t]]
  <2>1. slot_of[t] \in DOMAIN mem /\ \A u \in ToSet(Current.outs) : slot_of[u] # slot_of[t]
    BY <1>2, <1>5, ApartFromOutputs DEF SharingInv
  <2> QED
    BY <1>3, <2>1
<1>6. oi \in DOMAIN ops /\ oi \in 1 .. Len(ops) /\ Len(ops) \in Nat /\ Current \in ToSet(graph.nodes)
  BY <1>2, CurrentFacts
<1>7. ASSUME NEW t \in graph.weights \cap Tensors(graph), Producers(graph, t) = {}
      PROVE  mem'[slot_of[t]] = Leaf(graph, t, 0)
  <2>1. mem[slot_of[t]] = Leaf(graph, t, 0)
    BY <1>2, <1>7 DEF ExecInv, BuffersHold
  <2>2. t \notin ToSet(Current.outs) /\ FirstUse(t) = 0 /\ LastUse(t) = Len(ops)
    BY <1>2, <1>6, <1>7, WeightIs
  <2> QED
    BY <1>5, <1>6, <2>1, <2>2
<1>8. ASSUME Meaningful, NEW t \in Tensors(graph), Held(t)'
      PROVE  mem'[slot_of[t]] = Meaning(src, t, round)
  <2>1. Current' = Current
    BY <1>1 DEF Current, Node
  <2>2. Held(t) /\ t \notin ToSet(Current.outs)
    BY <1>1, <1>8, <2>1, LifetimeStays DEF Held
  <2>3. mem[slot_of[t]] = Meaning(src, t, round)
    BY <1>1, <1>8, <2>2 DEF ExecInv, BuffersHold
  <2>4. FirstUse(t) <= oi - 1 /\ oi - 1 <= LastUse(t)
    BY <1>1, <2>2, HeldAlive
  <2> QED
    BY <1>5, <2>2, <2>3, <2>4
<1>9. Meaningful' => Meaningful
  BY <1>1 DEF Meaningful
<1>10. result' # "ok" /\ oi' \in 1 .. (Len(ops') + 1) /\ oi' <= Len(ops')
  BY <1>1 DEF ExecInv, BuffersHold
<1> QED
  BY <1>1, <1>4, <1>7, <1>8, <1>9, <1>10 DEF BuffersHold, OutputsRight

(* What the kernel reads is still there, and what it leaves is what the node   *)
(* of the tensor computes.                                                     *)
LEMMA OpEndsHolds ==
    ASSUME OrderInv, SharingInv, ExecInv, OpEnds
    PROVE  BuffersHold'
<1> DEFINE args == [j \in DOMAIN Current.ins |-> mem[slot_of[Current.ins[j]]]]
           at(s) == {i \in DOMAIN Current.outs : slot_of[Current.outs[i]] = s}
<1>1. /\ pc = "kernel" /\ pc' = "op" /\ oi <= Len(ops) /\ oi' = oi + 1
      /\ UNCHANGED <<result, src, opt, graph, ops, slot_of, slots, round>>
  BY DEF OpEnds, planVars, ExecInv, BuffersHold
<1>2. /\ Running /\ Bound /\ Allocated /\ AllPlaced
      /\ DOMAIN slot_of = Tensors(graph) /\ DOMAIN mem = DOMAIN slots
  BY <1>1 DEF Running, Bound, Allocated, ExecInv, AllPlaced, BuffersHold
<1>3. mem' = [s \in DOMAIN mem |->
                 IF \E i \in DOMAIN Current.outs : slot_of[Current.outs[i]] = s
                 THEN Computed(Current.op, CHOOSE i \in DOMAIN Current.outs : slot_of[Current.outs[i]] = s, args)
                 ELSE mem[s]]
  BY DEF OpEnds
<1> HIDE DEF args
<1>4. DOMAIN mem' = DOMAIN slots'
  BY <1>1, <1>2, <1>3
<1>5. /\ oi \in DOMAIN ops /\ oi \in 1 .. Len(ops) /\ oi \in Nat /\ Len(ops) \in Nat
      /\ DOMAIN ops = 1 .. Len(ops)
      /\ Current = ops[oi] /\ Current \in ToSet(graph.nodes)
      /\ ToSet(Current.ins) \subseteq Tensors(graph) /\ ToSet(Current.outs) \subseteq Tensors(graph)
      /\ ToSet(Current.ins) \cap ToSet(Current.outs) = {}
      /\ \A t \in ToSet(Current.ins) \cup ToSet(Current.outs) :
            FirstUse(t) <= oi - 1 /\ oi - 1 <= LastUse(t)
  BY <1>2, CurrentFacts
<1>6. ASSUME NEW t \in Tensors(graph), t \notin ToSet(Current.outs),
             FirstUse(t) <= oi - 1, oi - 1 <= LastUse(t)
      PROVE  mem'[slot_of[t]] = mem[slot_of[t]]
  <2>1. slot_of[t] \in DOMAIN mem /\ \A u \in ToSet(Current.outs) : slot_of[u] # slot_of[t]
    BY <1>2, <1>6, ApartFromOutputs DEF SharingInv
  <2>2. \A i \in DOMAIN Current.outs : slot_of[Current.outs[i]] # slot_of[t]
    BY <2>1 DEF ToSet
  <2> QED
    BY <1>3, <2>1, <2>2
<1>7. ASSUME NEW t \in graph.weights \cap Tensors(graph), Producers(graph, t) = {}
      PROVE  mem'[slot_of[t]] = Leaf(graph, t, 0)
  <2>1. mem[slot_of[t]] = Leaf(graph, t, 0)
    BY <1>2, <1>7 DEF ExecInv, BuffersHold
  <2>2. t \notin ToSet(Current.outs) /\ FirstUse(t) = 0 /\ LastUse(t) = Len(ops)
    BY <1>2, <1>5, <1>7, WeightIs
  <2> QED
    BY <1>5, <1>6, <2>1, <2>2
<1>8. ASSUME Meaningful, NEW t \in ToSet(Current.ins)
      PROVE  mem[slot_of[t]] = Means(round)[t]
  <2>1. t \in Tensors(graph) /\ t \notin ToSet(Current.outs) /\ oi - 1 <= LastUse(t)
    BY <1>5
  <2>2. \/ t \in Given(graph) /\ Producers(graph, t) = {}
        \/ \E i \in 1 .. (oi - 1) : t \in ToSet(ops[i].outs)
    <3>1. t \in Read(graph)
      BY <1>5 DEF Read
    <3>2. t \in Given(graph) \/ Producers(graph, t) # {}
      BY <1>2, <1>8, <3>1, MeaningInUse DEF Sound, Complete
    <3>3. ASSUME Producers(graph, t) # {} PROVE \E i \in 1 .. (oi - 1) : t \in ToSet(ops[i].outs)
      <4>1. PICK q \in Producers(graph, t) : TRUE
        BY <3>3
      <4>2. t \in ToSet(q.outs) /\ q # Current
        BY <2>1 DEF Producers
      <4>3. q \in Deps(graph, Current)
        BY <4>1, <4>2 DEF Deps
      <4>4. Deps(graph, ops[oi]) \subseteq {ops[j] : j \in 1 .. (oi - 1)}
        BY <1>1, <1>5 DEF OrderInv, OpsInOrder, Planned, Ordered, Waits
      <4>5. PICK i \in 1 .. (oi - 1) : q = ops[i]
        BY <1>5, <4>3, <4>4
      <4> QED
        BY <4>2, <4>5
    <3> QED
      BY <3>2, <3>3
  <2>3. Held(t)
    BY <2>1, <2>2 DEF Held
  <2>4. mem[slot_of[t]] = Meaning(src, t, round)
    BY <1>1, <1>8, <2>1, <2>3 DEF ExecInv, BuffersHold
  <2> QED
    BY <1>2, <1>8, <2>1, <2>4, MeaningInUse
<1>9. ASSUME Meaningful, NEW t \in ToSet(Current.outs)
      PROVE  mem'[slot_of[t]] = Meaning(src, t, round)
  <2>1. t \in Tensors(graph) /\ slot_of[t] \in DOMAIN mem
    BY <1>2, <1>5 DEF SharingInv
  <2>2. PICK k \in DOMAIN Current.outs : Current.outs[k] = t
    BY DEF ToSet
  <2>3. ASSUME NEW i \in DOMAIN Current.outs, slot_of[Current.outs[i]] = slot_of[t]
        PROVE  Current.outs[i] = t
    <3> DEFINE u == Current.outs[i]
    <3>1. u \in ToSet(Current.outs)
      BY DEF ToSet
    <3> HIDE DEF u
    <3>2. /\ u \in Tensors(graph) /\ FirstUse(u) <= oi - 1 /\ oi - 1 <= LastUse(u)
          /\ FirstUse(t) <= oi - 1 /\ oi - 1 <= LastUse(t) /\ oi - 1 \in Int
      BY <1>5, <3>1
    <3>3. slot_of[u] = slot_of[t]
      BY <2>3 DEF u
    <3>4. u = t
      BY <1>2, <2>1, <3>2, <3>3, AliveApart
    <3> QED
      BY <3>4 DEF u
  <2> DEFINE a == CHOOSE i \in DOMAIN Current.outs : slot_of[Current.outs[i]] = slot_of[t]
             b == CHOOSE i \in DOMAIN Current.outs : Current.outs[i] = t
  <2>4. a = b
    <3>1. \A i : /\ i \in DOMAIN Current.outs /\ slot_of[Current.outs[i]] = slot_of[t]
                 <=> i \in DOMAIN Current.outs /\ Current.outs[i] = t
      BY <2>3
    <3> QED
      BY <3>1
  <2>5. mem'[slot_of[t]] = Computed(Current.op, a, args)
    BY <1>3, <2>1, <2>2
  <2> HIDE DEF a
  <2>6. args = [j \in DOMAIN Current.ins |-> Means(round)[Current.ins[j]]]
    <3>1. \A j \in DOMAIN Current.ins : Current.ins[j] \in ToSet(Current.ins)
      BY DEF ToSet
    <3>2. \A j \in DOMAIN Current.ins : mem[slot_of[Current.ins[j]]] = Means(round)[Current.ins[j]]
      BY <1>8, <1>9, <3>1
    <3> QED
      BY <3>2 DEF args
  <2>7. Meaning(src, t, round) = Value(graph, Means(round), t, round)
    BY <1>2, <1>9, <2>1, MeaningInUse
  <2>8. Single(graph) /\ Current \in Producers(graph, t)
    BY <1>2, <1>5, <1>9, MeaningInUse DEF Sound, Producers
  <2>9. Value(graph, Means(round), t, round)
            = Computed(Current.op, b, [j \in DOMAIN Current.ins |-> Means(round)[Current.ins[j]]])
    BY <2>8, ValueComputed
  <2> HIDE DEF b
  <2> QED
    BY <2>4, <2>5, <2>6, <2>7, <2>9
<1>10. ASSUME Meaningful, NEW t \in Tensors(graph), Held(t)'
       PROVE  mem'[slot_of[t]] = Meaning(src, t, round)
  <2>1. CASE t \in ToSet(Current.outs)
    BY <1>9, <1>10, <2>1
  <2>2. CASE t \notin ToSet(Current.outs)
    <3>1. /\ oi <= LastUse(t)
          /\ \/ t \in Given(graph) /\ Producers(graph, t) = {}
             \/ \E i \in 1 .. oi : t \in ToSet(ops[i].outs)
      <4>1. LastUse(t)' = LastUse(t)
        BY <1>1, LifetimeStays
      <4>2. oi' - 1 = oi
        BY <1>1, <1>5
      <4> QED
        BY <1>1, <1>10, <4>1, <4>2 DEF Held
    <3>2. LastUse(t) \in Int
      BY Lifetime DEF OrderInv, SortConsistent
    <3>3. oi - 1 <= LastUse(t)
      BY <1>5, <3>1, <3>2
    <3>4. \A i \in 1 .. oi : t \in ToSet(ops[i].outs) => i \in 1 .. (oi - 1)
      BY <1>5, <2>2
    <3>5. Held(t)
      BY <2>2, <3>1, <3>3, <3>4 DEF Held
    <3>6. mem[slot_of[t]] = Meaning(src, t, round)
      BY <1>1, <1>10, <3>5 DEF ExecInv, BuffersHold
    <3>7. FirstUse(t) <= oi - 1
      BY <1>1, <3>5, HeldAlive
    <3> QED
      BY <1>6, <2>2, <3>3, <3>6, <3>7
  <2> QED
    BY <2>1, <2>2
<1>11. Meaningful' => Meaningful
  BY <1>1 DEF Meaningful
<1>12. result' # "ok" /\ oi' \in 1 .. (Len(ops') + 1)
  BY <1>1, <1>5 DEF ExecInv, BuffersHold
<1> QED
  BY <1>1, <1>4, <1>7, <1>10, <1>11, <1>12 DEF BuffersHold, OutputsRight

(* After the last op the outputs are still in their slots. *)
LEMMA RunOverHolds ==
    ASSUME OrderInv, SharingInv, ExecInv, RunOver
    PROVE  BuffersHold'
<1>1. /\ pc = "op" /\ pc' = "ready" /\ oi > Len(ops)
      /\ UNCHANGED <<src, opt, graph, ops, slot_of, slots, mem, round>>
  BY DEF RunOver, planVars, execVars
<1>2. /\ Allocated /\ DOMAIN slot_of = Tensors(graph) /\ DOMAIN mem = DOMAIN slots /\ Valid(graph)
      /\ ops \in Seq(NodeTypes) /\ oi \in 1 .. (Len(ops) + 1)
  BY <1>1 DEF Bound, Allocated, ExecInv, AllPlaced, BuffersHold, OrderInv, SortConsistent
<1>3. ASSUME Meaningful, NEW t \in src.outputs PROVE mem[slot_of[t]] = Meaning(src, t, round)
  <2>1. t \in graph.outputs /\ Sound(graph)
    BY <1>2, <1>3, MeaningInUse
  <2>2. t \in Tensors(graph) /\ (t \in Given(graph) \/ Producers(graph, t) # {})
    BY <2>1 DEF Sound, Complete, GraphIo
  <2>3. LastUse(t) = Len(ops)
    BY <2>1, FixedAlways DEF Fixed, GraphIo
  <2>4. ASSUME NEW q \in Producers(graph, t) PROVE \E i \in 1 .. (oi - 1) : t \in ToSet(ops[i].outs)
    <3>1. q \in ToSet(ops) /\ t \in ToSet(q.outs)
      BY <1>1 DEF Producers, OrderInv, OpsInOrder, Planned, Ordered
    <3>2. PICK i \in DOMAIN ops : q = ops[i]
      BY <3>1 DEF ToSet
    <3>3. i \in 1 .. (oi - 1)
      BY <1>1, <1>2
    <3> QED
      BY <3>1, <3>2, <3>3
  <2>5. oi - 1 <= LastUse(t)
    BY <1>2, <2>3
  <2>6. Held(t)
    BY <1>1, <2>2, <2>4, <2>5 DEF Held
  <2> QED
    BY <1>1, <1>3, <2>2, <2>6 DEF ExecInv, BuffersHold
<1>4. Meaningful' => Meaningful
  BY <1>1 DEF Meaningful
<1>5. \A t \in graph.weights \cap Tensors(graph) :
          Producers(graph, t) = {} => mem[slot_of[t]] = Leaf(graph, t, 0)
  BY <1>2 DEF ExecInv, BuffersHold
<1>6. OutputsRight' \/ ~ Meaningful'
  BY <1>1, <1>3, <1>4 DEF OutputsRight
<1> QED
  BY <1>1, <1>2, <1>5, <1>6 DEF BuffersHold

(* Every step, one case per action, keeps what the buffers hold. *)
LEMMA BuffersHoldKept ==
    ASSUME OrderInv, SharingInv, ExecInv, [PlannerNext]_vars
    PROVE  BuffersHold'
<1>1. ASSUME pc' \notin {"ready", "op", "kernel"}, result' # "ok" PROVE BuffersHold'
  BY <1>1 DEF BuffersHold, OutputsRight, Allocated
<1>2. pc # "ready" => result # "ok"
  BY DEF ExecInv, BuffersHold
<1>3. ASSUME NEW r, Destroyed(r), r # "ok" PROVE BuffersHold'
  BY <1>1, <1>3 DEF Destroyed
<1>4. CASE \E g \in Graphs, o \in OptionSets : Create(g, o)
  BY <1>1, <1>4 DEF Create
<1>5. CASE Fuse \/ Lookup \/ SortBegins \/ SortStep \/ PutPlan \/ PlanWritten \/ AssignFixed \/ PlaceNext
           \/ Placed
  BY <1>1, <1>2, <1>5 DEF Fuse, Lookup, SortBegins, SortStep, PutPlan, PlanWritten, AssignFixed,
     PlaceNext, Placed
<1>6. CASE SortOver \/ Validate
  BY <1>1, <1>2, <1>3, <1>6 DEF SortOver, Validate
<1>7. CASE CreateFails \/ Destroy \/ Crash
  BY <1>3, <1>7 DEF CreateFails, Destroy, Crash
<1>8. CASE RunFails
  <2>1. /\ pc \in {"op", "kernel"} /\ pc' = "ready" /\ result' = "error"
        /\ UNCHANGED <<graph, slot_of, slots, mem>>
    BY <1>8 DEF RunFails, planVars, execVars
  <2>2. /\ DOMAIN mem = DOMAIN slots
        /\ \A t \in graph.weights \cap Tensors(graph) :
              Producers(graph, t) = {} => mem[slot_of[t]] = Leaf(graph, t, 0)
    BY <2>1 DEF ExecInv, BuffersHold, Allocated
  <2> QED
    BY <2>1, <2>2 DEF BuffersHold, OutputsRight
<1>9. CASE UNCHANGED vars
  <2>1. UNCHANGED <<pc, result, src, opt, graph, ops, slot_of, slots, mem, round, oi>>
    BY <1>9 DEF vars, planVars, execVars
  <2>2. \A t : Held(t)' <=> Held(t)
    BY <2>1, LifetimeStays DEF Held, Current, Node
  <2> QED
    BY <2>1, <2>2 DEF ExecInv, BuffersHold, OutputsRight, Allocated, Meaningful
<1> QED
  BY <1>4, <1>5, <1>6, <1>7, <1>8, <1>9, AllocateHolds, RunBeginsHolds, OpStartsHolds, OpEndsHolds,
     RunOverHolds DEF PlannerNext, Work

(* Before create() nothing is held. *)
LEMMA InitExec == PlannerInit => ExecInv
<1> SUFFICES ASSUME PlannerInit PROVE ExecInv
  OBVIOUS
<1>1. pc = "idle" /\ result = "none"
  BY DEF PlannerInit
<1> QED
  BY <1>1 DEF ExecInv, GraphInUse, AllPlaced, BuffersHold, OutputsRight, Bound, Allocated

(* Every reachable state satisfies the three inductive invariants. *)
THEOREM ExecInvariant == PlannerSpec => []ExecInv
<1>1. PlannerInit => OrderInv /\ SharingInv /\ ExecInv
  BY InitOrder, InitShares, InitExec
<1>2. OrderInv /\ SharingInv /\ ExecInv /\ [PlannerNext]_vars => (OrderInv /\ SharingInv /\ ExecInv)'
  <2> SUFFICES ASSUME OrderInv, SharingInv, ExecInv, [PlannerNext]_vars
               PROVE  (OrderInv /\ SharingInv /\ ExecInv)'
    OBVIOUS
  <2>1. OrderInv' /\ SharingInv'
    BY StepOrder, StepShares
  <2>2. GraphInUse' /\ AllPlaced' /\ BuffersHold'
    BY GraphInUseKept, AllPlacedKept, BuffersHoldKept DEF ExecInv
  <2> QED
    BY <2>1, <2>2 DEF ExecInv
<1> QED
  BY <1>1, <1>2, PTL DEF PlannerSpec

(* Fusion, the order of the plan, wherever it came from, and shared buffers    *)
(* change nothing: a run that succeeds leaves in the outputs what the graph of  *)
(* the caller means, computed from the inputs and weights of that run.           *)
THEOREM RunsComputeTheGraph == PlannerSpec => [](Meaningful => OutputsRight)
<1>1. ExecInv => (Meaningful => OutputsRight)
  BY DEF ExecInv, BuffersHold
<1> QED
  BY <1>1, ExecInvariant, PTL
=============================================================================

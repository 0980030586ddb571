------------------------- MODULE GraphPlannerProofs -------------------------
(* Proofs that every plan, sorted or cached, holds the rewritten graph in an *)
(* order that can be run, and that tensors sharing a buffer are never alive   *)
(* at once, for all graphs and options, across crashes.                        *)
EXTENDS GraphPlanner, FiniteSetTheorems, TLAPS

(* A set of numbers has a least one. *)
LEMMA LeastNat == ASSUME NEW S \in SUBSET Nat, S # {} PROVE \E x \in S : \A y \in S : x <= y
<1> DEFINE R == {p \in Nat \X Nat : p[1] < p[2]}
<1>1. IsWellFoundedOn(R, Nat)
  BY NatLessThanWellFounded DEF OpToRel
<1> HIDE DEF R
<1>2. PICK x \in S : \A y \in S : <<y, x>> \notin R
  BY <1>1, WFMin
<1>3. ASSUME NEW y \in S PROVE x <= y
  <2>1. x \in Nat /\ y \in Nat /\ <<y, x>> \notin R
    BY <1>2
  <2>2. <<y, x>>[1] = y /\ <<y, x>>[2] = x /\ <<y, x>> \in Nat \X Nat
    BY <2>1
  <2>3. ~ (y < x)
    BY <2>1, <2>2 DEF R
  <2> QED
    BY <2>1, <2>3
<1> QED
  BY <1>3

-----------------------------------------------------------------------------
(* Sequences *)

LEMMA ToSetAppend ==
    ASSUME NEW S, NEW s \in Seq(S), NEW x \in S
    PROVE  /\ Append(s, x) \in Seq(S) /\ Len(Append(s, x)) = Len(s) + 1
           /\ ToSet(Append(s, x)) = ToSet(s) \cup {x}
           /\ Once(s) /\ x \notin ToSet(s) => Once(Append(s, x))
<1> DEFINE a == Append(s, x)
<1>1. /\ a \in Seq(S) /\ Len(a) = Len(s) + 1 /\ Len(s) \in Nat
      /\ DOMAIN a = 1 .. (Len(s) + 1) /\ DOMAIN s = 1 .. Len(s)
      /\ \A i \in 1 .. Len(s) : a[i] = s[i]
      /\ a[Len(s) + 1] = x
  OBVIOUS
<1> HIDE DEF a
<1>2. ToSet(a) = ToSet(s) \cup {x}
  <2>1. \A i \in DOMAIN a : a[i] \in ToSet(s) \cup {x}
    <3> SUFFICES ASSUME NEW i \in DOMAIN a PROVE a[i] \in ToSet(s) \cup {x}
      OBVIOUS
    <3>1. CASE i = Len(s) + 1
      BY <1>1, <3>1
    <3>2. CASE i # Len(s) + 1
      <4>1. i \in 1 .. Len(s)
        BY <1>1, <3>2
      <4> QED
        BY <1>1, <4>1 DEF ToSet
    <3> QED
      BY <3>1, <3>2
  <2>2. \A i \in DOMAIN s : s[i] \in ToSet(a)
    BY <1>1 DEF ToSet
  <2>3. x \in ToSet(a)
    BY <1>1 DEF ToSet
  <2> QED
    BY <2>1, <2>2, <2>3 DEF ToSet
<1>3. ASSUME Once(s), x \notin ToSet(s) PROVE Once(a)
  <2> SUFFICES ASSUME NEW i \in DOMAIN a, NEW j \in DOMAIN a, i # j PROVE a[i] # a[j]
    BY DEF Once
  <2>1. CASE i \in 1 .. Len(s) /\ j \in 1 .. Len(s)
    BY <1>1, <1>3, <2>1 DEF Once
  <2>2. CASE i = Len(s) + 1 /\ j \in 1 .. Len(s)
    BY <1>1, <1>3, <2>2 DEF ToSet
  <2>3. CASE j = Len(s) + 1 /\ i \in 1 .. Len(s)
    BY <1>1, <1>3, <2>3 DEF ToSet
  <2> QED
    BY <1>1, <2>1, <2>2, <2>3
<1> QED
  BY <1>1, <1>2, <1>3 DEF a

LEMMA ToSetConcat ==
    ASSUME NEW S, NEW s \in Seq(S), NEW t \in Seq(S)
    PROVE  /\ s \o t \in Seq(S) /\ Len(s \o t) = Len(s) + Len(t)
           /\ ToSet(s \o t) = ToSet(s) \cup ToSet(t)
           /\ Once(s) /\ Once(t) /\ ToSet(s) \cap ToSet(t) = {} => Once(s \o t)
<1> DEFINE a == s \o t
<1>1. /\ a \in Seq(S) /\ Len(a) = Len(s) + Len(t) /\ Len(s) \in Nat /\ Len(t) \in Nat
      /\ DOMAIN a = 1 .. (Len(s) + Len(t)) /\ DOMAIN s = 1 .. Len(s) /\ DOMAIN t = 1 .. Len(t)
      /\ \A i \in 1 .. Len(s) : a[i] = s[i]
      /\ \A i \in 1 .. Len(t) : a[Len(s) + i] = t[i]
  OBVIOUS
<1> HIDE DEF a
<1>2. \A i \in DOMAIN a : \/ i \in DOMAIN s /\ a[i] = s[i]
                          \/ i - Len(s) \in DOMAIN t /\ a[i] = t[i - Len(s)]
  <2> SUFFICES ASSUME NEW i \in DOMAIN a
               PROVE  \/ i \in DOMAIN s /\ a[i] = s[i]
                      \/ i - Len(s) \in DOMAIN t /\ a[i] = t[i - Len(s)]
    OBVIOUS
  <2>1. CASE i <= Len(s)
    BY <1>1, <2>1
  <2>2. CASE i > Len(s)
    <3>1. i - Len(s) \in 1 .. Len(t) /\ Len(s) + (i - Len(s)) = i
      BY <1>1, <2>2
    <3> QED
      BY <1>1, <3>1
  <2> QED
    BY <1>1, <2>1, <2>2
<1>3. ToSet(a) = ToSet(s) \cup ToSet(t)
  <2>1. \A i \in DOMAIN a : a[i] \in ToSet(s) \cup ToSet(t)
    BY <1>2 DEF ToSet
  <2>2. \A i \in DOMAIN s : s[i] \in ToSet(a)
    BY <1>1 DEF ToSet
  <2>3. \A i \in DOMAIN t : t[i] \in ToSet(a)
    <3> SUFFICES ASSUME NEW i \in DOMAIN t PROVE t[i] \in ToSet(a)
      OBVIOUS
    <3>1. Len(s) + i \in DOMAIN a /\ a[Len(s) + i] = t[i]
      BY <1>1
    <3> QED
      BY <3>1 DEF ToSet
  <2> QED
    BY <2>1, <2>2, <2>3 DEF ToSet
<1>4. ASSUME Once(s), Once(t), ToSet(s) \cap ToSet(t) = {} PROVE Once(a)
  <2> SUFFICES ASSUME NEW i \in DOMAIN a, NEW j \in DOMAIN a, i # j PROVE a[i] # a[j]
    BY DEF Once
  <2>1. CASE i \in DOMAIN s /\ a[i] = s[i] /\ j \in DOMAIN s /\ a[j] = s[j]
    BY <1>4, <2>1 DEF Once
  <2>2. CASE i \in DOMAIN s /\ a[i] = s[i] /\ j - Len(s) \in DOMAIN t /\ a[j] = t[j - Len(s)]
    BY <1>4, <2>2 DEF ToSet
  <2>3. CASE j \in DOMAIN s /\ a[j] = s[j] /\ i - Len(s) \in DOMAIN t /\ a[i] = t[i - Len(s)]
    BY <1>4, <2>3 DEF ToSet
  <2>4. CASE /\ i - Len(s) \in DOMAIN t /\ a[i] = t[i - Len(s)]
             /\ j - Len(s) \in DOMAIN t /\ a[j] = t[j - Len(s)]
    <3>1. i - Len(s) # j - Len(s)
      BY <1>1
    <3> QED
      BY <1>4, <2>4, <3>1 DEF Once
  <2> QED
    BY <1>2, <2>1, <2>2, <2>3, <2>4
<1> QED
  BY <1>1, <1>3, <1>4 DEF a

(* The function Picked is defined by exists: the first index for which no     *)
(* such function existed would extend the one before it.                       *)
UpTo(f, s, T, m) ==
    f = [i \in 0 .. m |-> IF i = 0 THEN << >>
                          ELSE IF s[i] \in T THEN Append(f[i - 1], s[i]) ELSE f[i - 1]]

LEMMA UpToAt ==
    ASSUME NEW f, NEW s, NEW T, NEW m \in Nat, UpTo(f, s, T, m), NEW i \in 0 .. m
    PROVE  f[i] = IF i = 0 THEN << >>
                  ELSE IF s[i] \in T THEN Append(f[i - 1], s[i]) ELSE f[i - 1]
<1> DEFINE body(j) == IF j = 0 THEN << >>
                      ELSE IF s[j] \in T THEN Append(f[j - 1], s[j]) ELSE f[j - 1]
<1>1. f = [j \in 0 .. m |-> body(j)]
  BY DEF UpTo
<1> HIDE DEF body
<1>2. f[i] = body(i)
  BY <1>1
<1> QED
  BY <1>2 DEF body

LEMMA UpToExists == ASSUME NEW s, NEW T, NEW n \in Nat PROVE \E f : UpTo(f, s, T, n)
<1> DEFINE Bad == {m \in Nat : ~ \E f : UpTo(f, s, T, m)}
<1>1. SUFFICES ASSUME Bad # {} PROVE FALSE
  OBVIOUS
<1>2. PICK m \in Bad : \A k \in Bad : m <= k
  <2>1. Bad \in SUBSET Nat
    OBVIOUS
  <2> HIDE DEF Bad
  <2> QED
    BY <1>1, <2>1, LeastNat
<1>3. m \in Nat /\ ~ \E f : UpTo(f, s, T, m)
  OBVIOUS
<1>4. CASE m = 0
  <2> DEFINE f == [i \in 0 .. 0 |-> << >>]
  <2>1. UpTo(f, s, T, 0)
    BY DEF UpTo
  <2> QED
    BY <1>3, <1>4, <2>1
<1>5. CASE m # 0
  <2>1. m - 1 \in Nat /\ m - 1 \notin Bad
    BY <1>2, <1>3, <1>5
  <2>2. PICK f : UpTo(f, s, T, m - 1)
    BY <2>1
  <2> DEFINE body(h, i) == IF i = 0 THEN << >>
                           ELSE IF s[i] \in T THEN Append(h[i - 1], s[i]) ELSE h[i - 1]
             g == [i \in 0 .. m |-> body(f, i)]
  <2>3. \A i \in 0 .. (m - 1) : g[i] = f[i]
    <3> SUFFICES ASSUME NEW i \in 0 .. (m - 1) PROVE g[i] = f[i]
      OBVIOUS
    <3>1. f[i] = body(f, i)
      BY <2>1, <2>2, UpToAt
    <3>2. i \in 0 .. m
      BY <1>3, <2>1
    <3> HIDE DEF body
    <3> QED
      BY <3>1, <3>2
  <2>4. \A i \in 0 .. m : body(f, i) = body(g, i)
    <3> SUFFICES ASSUME NEW i \in 0 .. m PROVE body(f, i) = body(g, i)
      OBVIOUS
    <3> HIDE DEF g
    <3>1. i # 0 => i - 1 \in 0 .. (m - 1)
      BY <1>3
    <3> QED
      BY <2>3, <3>1
  <2>5. UpTo(g, s, T, m)
    <3>1. g = [i \in 0 .. m |-> body(g, i)]
      <4> HIDE DEF body
      <4> QED
        BY <2>4
    <3> QED
      BY <3>1 DEF UpTo
  <2> QED
    BY <1>3, <2>5
<1> QED
  BY <1>4, <1>5

(* Picking keeps the order and, if nothing occurs twice, the elements once. *)
LEMMA PickedIs ==
    ASSUME NEW S, NEW s \in Seq(S), NEW T
    PROVE  /\ Picked(s, T) \in Seq(S)
           /\ ToSet(Picked(s, T)) = ToSet(s) \cap T
           /\ Once(s) => Once(Picked(s, T))
<1> DEFINE n == Len(s)
           f == CHOOSE f : UpTo(f, s, T, n)
           P(i) == /\ f[i] \in Seq(S)
                   /\ ToSet(f[i]) = {s[j] : j \in 1 .. i} \cap T
                   /\ Once(s) => Once(f[i])
<1>1. n \in Nat /\ DOMAIN s = 1 .. n /\ \A i \in 1 .. n : s[i] \in S
  OBVIOUS
<1>2. Picked(s, T) = f[n]
  BY DEF Picked, UpTo
<1> HIDE DEF n
<1>3. UpTo(f, s, T, n)
  BY <1>1, UpToExists
<1> HIDE DEF f
<1>4. f[0] = << >>
  BY <1>1, <1>3, UpToAt
<1>5. \A i \in 1 .. n : f[i] = IF s[i] \in T THEN Append(f[i - 1], s[i]) ELSE f[i - 1]
  BY <1>1, <1>3, UpToAt
<1>6. P(0)
  <2>1. ToSet(<< >>) = {} /\ Once(<< >>)
    BY DEF ToSet, Once
  <2>2. {s[j] : j \in 1 .. 0} = {}
    OBVIOUS
  <2> QED
    BY <1>4, <2>1, <2>2
<1>7. ASSUME NEW i \in 1 .. n, P(i - 1) PROVE P(i)
  <2>1. i \in Nat /\ 1 .. i = (1 .. (i - 1)) \cup {i} /\ i \notin 1 .. (i - 1) /\ s[i] \in S
    BY <1>1
  <2>2. {s[j] : j \in 1 .. i} = {s[j] : j \in 1 .. (i - 1)} \cup {s[i]}
    BY <2>1
  <2>3. CASE s[i] \in T
    <3>1. f[i] = Append(f[i - 1], s[i])
      BY <1>5, <2>3
    <3>2. Once(s) => s[i] \notin {s[j] : j \in 1 .. (i - 1)}
      BY <1>1, <2>1 DEF Once
    <3> QED
      BY <1>7, <2>1, <2>2, <2>3, <3>1, <3>2, ToSetAppend
  <2>4. CASE s[i] \notin T
    <3>1. f[i] = f[i - 1]
      BY <1>5, <2>4
    <3> QED
      BY <1>7, <2>2, <2>4, <3>1
  <2> QED
    BY <2>3, <2>4
<1> HIDE DEF P
<1>8. P(n)
  <2> DEFINE Bad == {i \in 0 .. n : ~ P(i)}
  <2> SUFFICES ASSUME Bad # {} PROVE FALSE
    BY <1>1
  <2>1. PICK m \in Bad : \A k \in Bad : m <= k
    <3>1. Bad \in SUBSET Nat
      BY <1>1
    <3> HIDE DEF Bad
    <3> QED
      BY <3>1, LeastNat
  <2>2. m \in 1 .. n /\ m - 1 \in 0 .. n
    BY <1>1, <1>6
  <2>3. P(m - 1)
    BY <2>1, <2>2
  <2> QED
    BY <1>7, <2>1, <2>2, <2>3
<1>9. ToSet(s) = {s[j] : j \in 1 .. n}
  BY <1>1 DEF ToSet
<1> QED
  BY <1>2, <1>8, <1>9 DEF P

-----------------------------------------------------------------------------
(* Fusion *)

(* Nodes with distinct ids are distinct. *)
DistinctIds(nodes) == \A i, j \in DOMAIN nodes : i # j => nodes[i].id # nodes[j].id

LEMMA PickedNodes ==
    ASSUME NEW nodes \in Seq(NodeTypes), DistinctIds(nodes), NEW T
    PROVE  /\ Picked(nodes, T) \in Seq(NodeTypes) /\ Once(Picked(nodes, T))
           /\ ToSet(Picked(nodes, T)) = ToSet(nodes) \cap T
           /\ DistinctIds(Picked(nodes, T))
<1> DEFINE p == Picked(nodes, T)
<1>1. Once(nodes)
  BY DEF Once, DistinctIds
<1>2. p \in Seq(NodeTypes) /\ ToSet(p) = ToSet(nodes) \cap T /\ Once(p)
  BY <1>1, PickedIs
<1> HIDE DEF p
<1>3. \A m, n \in ToSet(nodes) : m # n => m.id # n.id
  BY DEF ToSet, DistinctIds
<1>4. DistinctIds(p)
  <2> SUFFICES ASSUME NEW i \in DOMAIN p, NEW j \in DOMAIN p, i # j PROVE p[i].id # p[j].id
    BY DEF DistinctIds
  <2>1. p[i] \in ToSet(nodes) /\ p[j] \in ToSet(nodes) /\ p[i] # p[j]
    BY <1>2 DEF ToSet, Once
  <2> QED
    BY <1>3, <2>1
<1> QED
  BY <1>2, <1>4 DEF p

(* Dropping tensors that are not used any more keeps a graph a graph. *)
LEMMA WithNodesTyped ==
    ASSUME NEW g, GraphTyped(g), NEW nodes \in Seq(NodeTypes), DistinctIds(nodes)
    PROVE  GraphTyped(WithNodes(g, nodes))
<1> DEFINE keep == Tensors(g) \cap (GraphIo(g) \cup Uses(nodes))
           h == WithNodes(g, nodes)
<1>1. h = [g EXCEPT !.nodes = nodes, !.bytes = [t \in keep |-> g.bytes[t]]]
  BY DEF WithNodes
<1>2. keep \subseteq Tensors(g) /\ IsFiniteSet(keep)
  BY FS_Subset DEF GraphTyped
<1> HIDE DEF keep, h
<1>3. DOMAIN h = GraphFields /\ h.nodes = nodes /\ h.bytes = [t \in keep |-> g.bytes[t]]
  BY <1>1 DEF GraphTyped, GraphFields
<1>4. Tensors(h) = keep /\ \A t \in keep : g.bytes[t] \in Nat
  BY <1>2, <1>3 DEF Tensors, GraphTyped
<1>5. h.bytes \in [Tensors(h) -> Nat]
  BY <1>3, <1>4
<1>6. Tensors(h) \subseteq Nat /\ IsFiniteSet(Tensors(h))
  BY <1>2, <1>4 DEF GraphTyped
<1>7. GraphTyped(h)
  BY <1>3, <1>5, <1>6 DEF GraphTyped, DistinctIds
<1> QED
  BY <1>7 DEF h

LEMMA RewiredIsTensor ==
    ASSUME NEW g, GraphTyped(g), NEW t \in Nat
    PROVE  Rewired(g, t) \in Nat
<1> DEFINE ids == {n \in Producers(g, t) : IsIdentity(g, n)}
<1>1. CASE ids = {}
  BY <1>1 DEF Rewired
<1>2. CASE ids # {}
  <2> DEFINE n == CHOOSE n \in ids : TRUE
  <2>1. n \in ids
    BY <1>2
  <2> HIDE DEF n
  <2>2. n \in NodeTypes /\ Len(n.ins) = 1
    BY <2>1 DEF Producers, IsIdentity, ToSet, GraphTyped
  <2>3. n.ins \in Seq(Nat)
    BY <2>2 DEF NodeTypes
  <2>4. n.ins[1] \in Nat
    BY <2>2, <2>3
  <2> QED
    BY <1>2, <2>4 DEF Rewired, n
<1> QED
  BY <1>1, <1>2

(* The first pass changes what the nodes read, not which ids they have. *)
LEMMA WithoutIdentitiesTyped ==
    ASSUME NEW g, GraphTyped(g)
    PROVE  GraphTyped(WithoutIdentities(g))
<1> DEFINE kept == Picked(g.nodes, {n \in ToSet(g.nodes) : ~ IsIdentity(g, n)})
           re(i) == [kept[i] EXCEPT !.ins = [j \in DOMAIN kept[i].ins |-> Rewired(g, kept[i].ins[j])]]
           nodes == [i \in DOMAIN kept |-> re(i)]
<1>1. kept \in Seq(NodeTypes) /\ DistinctIds(kept)
  BY PickedNodes DEF GraphTyped, DistinctIds
<1>2. WithoutIdentities(g) = IF kept = g.nodes THEN g ELSE WithNodes(g, nodes)
  BY DEF WithoutIdentities
<1> HIDE DEF kept
<1>3. \A i \in DOMAIN kept : re(i) \in NodeTypes /\ re(i).id = kept[i].id
  <2> SUFFICES ASSUME NEW i \in DOMAIN kept PROVE re(i) \in NodeTypes /\ re(i).id = kept[i].id
    OBVIOUS
  <2> DEFINE ins == [j \in DOMAIN kept[i].ins |-> Rewired(g, kept[i].ins[j])]
  <2>1. kept[i] \in NodeTypes /\ kept[i].ins \in Seq(Nat)
    <3>1. kept[i] \in NodeTypes
      BY <1>1
    <3> QED
      BY <3>1 DEF NodeTypes
  <2>2. \A j \in DOMAIN kept[i].ins : Rewired(g, kept[i].ins[j]) \in Nat
    <3>1. \A j \in DOMAIN kept[i].ins : kept[i].ins[j] \in Nat
      BY <2>1
    <3> QED
      BY <3>1, RewiredIsTensor
  <2>3. ins \in Seq(Nat)
    <3>1. DOMAIN kept[i].ins = 1 .. Len(kept[i].ins) /\ Len(kept[i].ins) \in Nat
      BY <2>1
    <3> QED
      BY <2>2, <3>1
  <2>4. re(i) = [kept[i] EXCEPT !.ins = ins]
    OBVIOUS
  <2> HIDE DEF ins, re
  <2> QED
    BY <2>1, <2>3, <2>4 DEF NodeTypes
<1> HIDE DEF re
<1>4. nodes \in Seq(NodeTypes) /\ DOMAIN nodes = DOMAIN kept
  <2>1. DOMAIN kept = 1 .. Len(kept) /\ Len(kept) \in Nat
    BY <1>1
  <2> QED
    BY <1>3, <2>1
<1>5. DistinctIds(nodes)
  BY <1>1, <1>3, <1>4 DEF DistinctIds
<1> HIDE DEF nodes
<1> QED
  BY <1>2, <1>4, <1>5, WithNodesTyped

(* The places where t is read, node by node, are finitely many. *)
LEMMA ReadersFinite ==
    ASSUME NEW g, GraphTyped(g), NEW t
    PROVE  IsFiniteSet(Readings(g, t))
<1> DEFINE at(i) == {k \in DOMAIN g.nodes[i].ins : g.nodes[i].ins[k] = t}
           reads(i) == {<<i, j>> : j \in at(i)}
           D == DOMAIN g.nodes
<1>1. IsFiniteSet(D)
  <2>1. D = 1 .. Len(g.nodes) /\ Len(g.nodes) \in Nat
    BY DEF GraphTyped
  <2> QED
    BY <2>1, FS_Interval
<1>2. \A i \in D : IsFiniteSet(reads(i))
  <2> SUFFICES ASSUME NEW i \in D PROVE IsFiniteSet(reads(i))
    OBVIOUS
  <2>1. g.nodes[i] \in NodeTypes
    BY DEF GraphTyped
  <2>2. g.nodes[i].ins \in Seq(Nat)
    BY <2>1 DEF NodeTypes
  <2>3. DOMAIN g.nodes[i].ins = 1 .. Len(g.nodes[i].ins) /\ Len(g.nodes[i].ins) \in Nat
    BY <2>2
  <2>4. IsFiniteSet(DOMAIN g.nodes[i].ins)
    BY <2>3, FS_Interval
  <2>5. IsFiniteSet(at(i))
    BY <2>4, FS_Subset
  <2> HIDE DEF at
  <2> DEFINE f == [k \in at(i) |-> <<i, k>>]
  <2>6. f \in Surjection(at(i), reads(i))
    BY DEF Surjection
  <2> QED
    BY <2>5, <2>6, FS_Surjection
<1> HIDE DEF reads, D
<1>3. IsFiniteSet({reads(i) : i \in D})
  <2> DEFINE f == [i \in D |-> reads(i)]
  <2>1. f \in Surjection(D, {reads(i) : i \in D})
    BY DEF Surjection
  <2> QED
    BY <1>1, <2>1, FS_Surjection
<1>4. IsFiniteSet(UNION {reads(i) : i \in D})
  BY <1>2, <1>3, FS_UNION
<1>5. Readings(g, t) = UNION {reads(i) : i \in D}
  BY DEF Readings, reads, D
<1> QED
  BY <1>4, <1>5

(* A tensor with one consumer is read in one place. *)
LEMMA OneReader ==
    ASSUME NEW g, GraphTyped(g), NEW t, Consumers(g, t) = 1,
           NEW i \in DOMAIN g.nodes, NEW j \in DOMAIN g.nodes,
           NEW k \in DOMAIN g.nodes[i].ins, g.nodes[i].ins[k] = t,
           NEW l \in DOMAIN g.nodes[j].ins, g.nodes[j].ins[l] = t
    PROVE  i = j
<1> DEFINE U == Readings(g, t)
<1>1. IsFiniteSet(U)
  BY ReadersFinite
<1>2. Consumers(g, t) = Cardinality(U) + (IF t \in g.outputs THEN 1 ELSE 0)
  BY DEF Consumers
<1>3. <<i, k>> \in U /\ <<j, l>> \in U
  BY DEF Readings
<1> HIDE DEF U
<1>4. Cardinality(U) \in Nat /\ Cardinality(U) <= 1
  BY <1>1, <1>2, FS_CardinalityType
<1>5. {<<i, k>>} \in SUBSET U /\ IsFiniteSet({<<i, k>>}) /\ Cardinality({<<i, k>>}) = 1
  BY <1>3, FS_Singleton
<1>6. Cardinality({<<i, k>>}) <= Cardinality(U)
  BY <1>1, <1>5, FS_Subset
<1>7. Cardinality(U) = Cardinality({<<i, k>>})
  BY <1>4, <1>5, <1>6
<1>8. U = {<<i, k>>}
  BY <1>1, <1>5, <1>7, FS_Subset
<1> QED
  BY <1>3, <1>8

(* The second pass gives the fused node the id of its MatMul, which goes; no *)
(* MatMul is fused twice.                                                     *)
LEMMA WithMatMulReluTyped ==
    ASSUME NEW g, GraphTyped(g)
    PROVE  GraphTyped(WithMatMulRelu(g))
<1> DEFINE nodes  == ToSet(g.nodes)
           fusing == {r \in nodes : \E m \in nodes : FusesInto(g, m, r)}
           relus  == Picked(g.nodes, fusing)
           Of(r)  == CHOOSE m \in nodes : FusesInto(g, m, r)
           gone   == ToSet(relus) \cup {Of(r) : r \in ToSet(relus)}
           rest   == Picked(g.nodes, nodes \ gone)
           fused(r) == [Of(r) EXCEPT !.op = "MatMulRelu", !.outs = r.outs]
           added  == [i \in DOMAIN relus |-> fused(relus[i])]
<1>1. WithMatMulRelu(g) = IF relus = << >> THEN g ELSE WithNodes(g, rest \o added)
  BY DEF WithMatMulRelu
<1>2. nodes \subseteq NodeTypes /\ g.nodes \in Seq(NodeTypes) /\ DistinctIds(g.nodes)
  BY DEF ToSet, GraphTyped, DistinctIds
<1>3. \A m, n \in nodes : m.id = n.id => m = n
  BY <1>2 DEF ToSet, DistinctIds
<1>4. relus \in Seq(NodeTypes) /\ Once(relus) /\ ToSet(relus) = nodes \cap fusing
  BY <1>2, PickedNodes
<1> HIDE DEF relus
<1>5. \A r \in ToSet(relus) : r \in nodes /\ Of(r) \in nodes /\ FusesInto(g, Of(r), r)
  BY <1>4
<1> HIDE DEF Of, fusing
<1>6. rest \in Seq(NodeTypes) /\ DistinctIds(rest) /\ ToSet(rest) = nodes \ gone
  BY <1>2, PickedNodes
<1> HIDE DEF rest
<1>7. \A r \in ToSet(relus) : fused(r) \in NodeTypes /\ fused(r).id = Of(r).id
  <2> SUFFICES ASSUME NEW r \in ToSet(relus) PROVE fused(r) \in NodeTypes /\ fused(r).id = Of(r).id
    OBVIOUS
  <2>1. r \in NodeTypes /\ Of(r) \in NodeTypes
    BY <1>2, <1>5
  <2>2. r.outs \in Seq(Nat)
    BY <2>1 DEF NodeTypes
  <2> DEFINE m == Of(r)
  <2>3. m \in NodeTypes /\ fused(r) = [m EXCEPT !.op = "MatMulRelu", !.outs = r.outs]
    BY <2>1
  <2> HIDE DEF m, fused
  <2>4. fused(r) = [id |-> m.id, op |-> "MatMulRelu", ins |-> m.ins, outs |-> r.outs]
    BY <2>3 DEF NodeTypes
  <2>5. m.id \in Nat /\ m.ins \in Seq(Nat)
    BY <2>3 DEF NodeTypes
  <2>6. "MatMulRelu" \in OpTypes
    BY GraphAssumption
  <2> QED
    BY <2>2, <2>4, <2>5, <2>6 DEF NodeTypes, m
<1>8. \A q, r \in ToSet(relus) : Of(q) = Of(r) => q = r
  <2> SUFFICES ASSUME NEW q \in ToSet(relus), NEW r \in ToSet(relus), Of(q) = Of(r) PROVE q = r
    OBVIOUS
  <2> DEFINE m == Of(q)
  <2>1. /\ q \in nodes /\ r \in nodes /\ m \in nodes /\ q.ins = m.outs /\ r.ins = m.outs
        /\ Len(q.ins) = 1 /\ Consumers(g, m.outs[1]) = 1
    BY <1>5 DEF FusesInto
  <2> HIDE DEF m
  <2>2. PICK i \in DOMAIN g.nodes, j \in DOMAIN g.nodes : q = g.nodes[i] /\ r = g.nodes[j]
    BY <2>1 DEF ToSet
  <2>3. q \in NodeTypes
    BY <1>2, <2>1
  <2>4. q.ins \in Seq(Nat)
    BY <2>3 DEF NodeTypes
  <2>5. 1 \in DOMAIN q.ins
    BY <2>1, <2>4
  <2>6. i = j
    BY <2>1, <2>2, <2>5, OneReader
  <2> QED
    BY <2>2, <2>6
<1> HIDE DEF fused
<1>9. /\ added \in Seq(NodeTypes) /\ DOMAIN added = DOMAIN relus
      /\ \A i \in DOMAIN relus : relus[i] \in ToSet(relus) /\ added[i] = fused(relus[i])
  <2>1. DOMAIN relus = 1 .. Len(relus) /\ Len(relus) \in Nat
    BY <1>4
  <2>2. \A i \in DOMAIN relus : relus[i] \in ToSet(relus)
    BY DEF ToSet
  <2> QED
    BY <1>7, <2>1, <2>2
<1>10. DistinctIds(added)
  <2> SUFFICES ASSUME NEW i \in DOMAIN added, NEW j \in DOMAIN added, added[i].id = added[j].id
               PROVE  i = j
    BY DEF DistinctIds
  <2>1. Of(relus[i]).id = Of(relus[j]).id
    BY <1>7, <1>9
  <2>2. Of(relus[i]) = Of(relus[j])
    BY <1>3, <1>5, <1>9, <2>1
  <2>3. relus[i] = relus[j]
    BY <1>8, <1>9, <2>2
  <2> QED
    BY <1>4, <1>9, <2>3 DEF Once
<1> HIDE DEF added
<1>11. \A i \in DOMAIN rest, j \in DOMAIN added : rest[i].id # added[j].id
  <2> SUFFICES ASSUME NEW i \in DOMAIN rest, NEW j \in DOMAIN added, rest[i].id = added[j].id
               PROVE  FALSE
    OBVIOUS
  <2>1. rest[i] \in nodes \ gone
    BY <1>6 DEF ToSet
  <2>2. Of(relus[j]) \in gone /\ Of(relus[j]) \in nodes /\ added[j].id = Of(relus[j]).id
    BY <1>5, <1>7, <1>9
  <2> HIDE DEF gone
  <2>3. rest[i] = Of(relus[j])
    BY <1>3, <2>1, <2>2
  <2> QED
    BY <2>1, <2>2, <2>3
<1> HIDE DEF gone
<1>12. rest \o added \in Seq(NodeTypes) /\ DistinctIds(rest \o added)
  <2> DEFINE a == rest \o added
  <2>1. /\ a \in Seq(NodeTypes) /\ DOMAIN a = 1 .. (Len(rest) + Len(added))
        /\ Len(rest) \in Nat /\ Len(added) \in Nat
        /\ DOMAIN rest = 1 .. Len(rest) /\ DOMAIN added = 1 .. Len(added)
        /\ \A i \in 1 .. Len(rest) : a[i] = rest[i]
        /\ \A i \in 1 .. Len(added) : a[Len(rest) + i] = added[i]
    BY <1>6, <1>9
  <2> HIDE DEF a
  <2>2. \A i \in DOMAIN a : \/ i \in DOMAIN rest /\ a[i] = rest[i]
                            \/ i - Len(rest) \in DOMAIN added /\ a[i] = added[i - Len(rest)]
    <3> SUFFICES ASSUME NEW i \in DOMAIN a
                 PROVE  \/ i \in DOMAIN rest /\ a[i] = rest[i]
                        \/ i - Len(rest) \in DOMAIN added /\ a[i] = added[i - Len(rest)]
      OBVIOUS
    <3>1. CASE i <= Len(rest)
      BY <2>1, <3>1
    <3>2. CASE i > Len(rest)
      <4>1. i - Len(rest) \in 1 .. Len(added) /\ Len(rest) + (i - Len(rest)) = i
        BY <2>1, <3>2
      <4> QED
        BY <2>1, <4>1
    <3> QED
      BY <2>1, <3>1, <3>2
  <2>3. DistinctIds(a)
    <3> SUFFICES ASSUME NEW i \in DOMAIN a, NEW j \in DOMAIN a, i # j PROVE a[i].id # a[j].id
      BY DEF DistinctIds
    <3>1. i - Len(rest) # j - Len(rest)
      BY <2>1
    <3> QED
      BY <1>6, <1>10, <1>11, <2>2, <3>1 DEF DistinctIds
  <2> QED
    BY <2>1, <2>3 DEF a
<1> QED
  BY <1>1, <1>12, WithNodesTyped

-----------------------------------------------------------------------------
(* The order of the ops *)

(* What a plan has to be depends on the nodes of a graph only. *)
LEMMA OrderedByNodes ==
    ASSUME NEW g, NEW h, g.nodes = h.nodes, NEW order
    PROVE  /\ Waits(g, order) <=> Waits(h, order)
           /\ Ordered(g, order) <=> Ordered(h, order)
<1>1. \A t : Producers(g, t) = Producers(h, t)
  BY DEF Producers
<1>2. \A n : Deps(g, n) = Deps(h, n)
  BY <1>1 DEF Deps
<1> QED
  BY <1>2 DEF Ordered, Waits

(* One more op, when all it waits for is ordered, keeps the order. *)
LEMMA WaitsAppend ==
    ASSUME NEW g, NEW order \in Seq(NodeTypes), Waits(g, order), NEW n \in NodeTypes,
           Deps(g, n) \subseteq ToSet(order)
    PROVE  Waits(g, Append(order, n))
<1> DEFINE a == Append(order, n)
<1>1. /\ Len(order) \in Nat /\ DOMAIN order = 1 .. Len(order)
      /\ DOMAIN a = 1 .. (Len(order) + 1)
      /\ \A i \in 1 .. Len(order) : a[i] = order[i]
      /\ a[Len(order) + 1] = n
  OBVIOUS
<1> HIDE DEF a
<1>2. ASSUME NEW i \in DOMAIN a PROVE Deps(g, a[i]) \subseteq {a[j] : j \in 1 .. (i - 1)}
  <2>1. {a[j] : j \in 1 .. (i - 1)} = {order[j] : j \in 1 .. (i - 1)}
    BY <1>1
  <2>2. CASE i = Len(order) + 1
    <3>1. ToSet(order) = {order[j] : j \in 1 .. (i - 1)}
      BY <1>1, <2>2 DEF ToSet
    <3> QED
      BY <1>1, <2>1, <2>2, <3>1
  <2>3. CASE i # Len(order) + 1
    <3>1. i \in DOMAIN order /\ a[i] = order[i]
      BY <1>1, <2>3
    <3>2. Deps(g, order[i]) \subseteq {order[j] : j \in 1 .. (i - 1)}
      BY <3>1 DEF Waits
    <3> QED
      BY <2>1, <3>1, <3>2
  <2> QED
    BY <2>2, <2>3
<1> QED
  BY <1>2 DEF Waits, a

(* As many distinct ops as nodes are all the nodes. *)
LEMMA AllOrdered ==
    ASSUME NEW S, NEW s \in Seq(S), NEW t \in Seq(S), Once(s),
           ToSet(s) \subseteq ToSet(t), Len(s) = Len(t)
    PROVE  ToSet(s) = ToSet(t)
<1> DEFINE D == 1 .. Len(t)
           f == [i \in D |-> t[i]]
           h == [i \in D |-> s[i]]
<1>1. Len(t) \in Nat /\ DOMAIN t = D /\ DOMAIN s = D
  OBVIOUS
<1>2. IsFiniteSet(D) /\ Cardinality(D) = Len(t)
  <2> DEFINE n == Len(t)
  <2>1. n \in Nat
    OBVIOUS
  <2> HIDE DEF n
  <2>2. IsFiniteSet(1 .. n) /\ Cardinality(1 .. n) = n
    BY <2>1, FS_Interval
  <2> QED
    BY <2>2 DEF n
<1>3. f \in Surjection(D, ToSet(t))
  BY <1>1 DEF ToSet, Surjection
<1>4. IsFiniteSet(ToSet(t)) /\ Cardinality(ToSet(t)) <= Cardinality(D)
  BY <1>2, <1>3, FS_Surjection
<1>5. h \in Injection(D, ToSet(t))
  BY <1>1 DEF ToSet, Injection, IsInjective, Once
<1>6. Cardinality(D) <= Cardinality(ToSet(t))
  BY <1>4, <1>5, FS_Injection
<1>7. Cardinality(D) = Cardinality(ToSet(t))
  BY <1>2, <1>4, <1>6, FS_CardinalityType
<1>8. h \in Surjection(D, ToSet(t))
  BY <1>4, <1>5, <1>7, FS_Injection
<1> QED
  BY <1>1, <1>8 DEF ToSet, Surjection

LEMMA ToSetFinite == ASSUME NEW S, NEW s \in Seq(S) PROVE IsFiniteSet(ToSet(s))
<1> DEFINE D == 1 .. Len(s)
           f == [i \in D |-> s[i]]
<1>1. Len(s) \in Nat /\ DOMAIN s = D
  OBVIOUS
<1>2. IsFiniteSet(D)
  BY <1>1, FS_Interval
<1>3. f \in Surjection(D, ToSet(s))
  BY <1>1 DEF ToSet, Surjection
<1> QED
  BY <1>2, <1>3, FS_Surjection

LEMMA SortStepKeeps ==
    ASSUME OrderInv, SortStep
    PROVE  SortConsistent'
<1> DEFINE more == Ready(ToSet(ops')) \ ToSet(queue)
           n == Head(queue)
           q == Tail(queue)
           p == Picked(graph.nodes, more)
<1>1. /\ pc = "sort" /\ pc' = "sort" /\ queue # << >> /\ graph' = graph
      /\ ops' = Append(ops, n) /\ queue' = q \o p
  BY DEF SortStep
<1>2. /\ ops \in Seq(NodeTypes) /\ queue \in Seq(NodeTypes)
      /\ Once(ops) /\ Once(queue) /\ ToSet(ops) \cap ToSet(queue) = {}
      /\ ToSet(ops) \cup ToSet(queue) \subseteq ToSet(graph.nodes)
      /\ Waits(graph, ops)
      /\ \A m \in ToSet(queue) : Deps(graph, m) \subseteq ToSet(ops)
      /\ graph.nodes \in Seq(NodeTypes) /\ DistinctIds(graph.nodes)
  BY <1>1 DEF OrderInv, SortConsistent, GraphTyped, DistinctIds
<1>3. /\ n \in ToSet(queue) /\ n \in NodeTypes /\ q \in Seq(NodeTypes) /\ Once(q)
      /\ ToSet(q) \subseteq ToSet(queue) \ {n}
  <2>1. /\ Len(queue) \in Nat \ {0} /\ n = queue[1] /\ DOMAIN queue = 1 .. Len(queue)
        /\ q \in Seq(NodeTypes) /\ DOMAIN q = 1 .. (Len(queue) - 1)
        /\ \A i \in 1 .. (Len(queue) - 1) : q[i] = queue[i + 1]
    BY <1>1, <1>2
  <2> HIDE DEF n, q
  <2>2. \A i \in DOMAIN q : i + 1 \in DOMAIN queue /\ i + 1 # 1
    BY <2>1
  <2>3. n \in ToSet(queue) /\ n \in NodeTypes
    <3>1. 1 \in DOMAIN queue
      BY <2>1
    <3> QED
      BY <1>2, <2>1, <3>1 DEF ToSet
  <2>4. Once(q)
    <3> SUFFICES ASSUME NEW i \in DOMAIN q, NEW j \in DOMAIN q, i # j PROVE q[i] # q[j]
      BY DEF Once
    <3>1. i + 1 # j + 1
      BY <2>1
    <3> QED
      BY <1>2, <2>1, <2>2, <3>1 DEF Once
  <2>5. ToSet(q) \subseteq ToSet(queue) \ {n}
    <3> SUFFICES ASSUME NEW i \in DOMAIN q PROVE q[i] \in ToSet(queue) /\ q[i] # n
      BY DEF ToSet
    <3> QED
      BY <1>2, <2>1, <2>2 DEF Once, ToSet
  <2> QED
    BY <2>1, <2>3, <2>4, <2>5
<1>4. p \in Seq(NodeTypes) /\ Once(p) /\ ToSet(p) = ToSet(graph.nodes) \cap more
  BY <1>2, PickedNodes
<1> HIDE DEF n, q, p
<1>5. /\ ops' \in Seq(NodeTypes) /\ ToSet(ops') = ToSet(ops) \cup {n} /\ Once(ops')
  BY <1>1, <1>2, <1>3, ToSetAppend
<1>6. Waits(graph, ops')
  BY <1>1, <1>2, <1>3, WaitsAppend
<1>7. ToSet(p) \cap ToSet(q) = {} /\ ToSet(p) \cap ToSet(ops') = {}
  BY <1>3, <1>4 DEF Ready
<1>8. /\ queue' \in Seq(NodeTypes) /\ ToSet(queue') = ToSet(q) \cup ToSet(p) /\ Once(queue')
  BY <1>1, <1>3, <1>4, <1>7, ToSetConcat
<1>9. \A m \in ToSet(queue') : Deps(graph, m) \subseteq ToSet(ops')
  BY <1>2, <1>3, <1>4, <1>5, <1>8 DEF Ready
<1>10. ToSet(ops') \cap ToSet(queue') = {}
  BY <1>2, <1>3, <1>5, <1>7, <1>8
<1>11. ToSet(ops') \cup ToSet(queue') \subseteq ToSet(graph.nodes)
  BY <1>2, <1>3, <1>4, <1>5, <1>8
<1> QED
  BY <1>1, <1>5, <1>6, <1>8, <1>9, <1>10, <1>11 DEF SortConsistent, Planned

(* SortBegins puts every node that waits for nothing into the queue once. *)
LEMMA SortBeginsKeeps ==
    ASSUME OrderInv, SortBegins
    PROVE  SortConsistent'
<1> DEFINE R == Ready({})
           D == 1 .. Cardinality(R)
<1>1. /\ pc = "lookup" /\ pc' = "sort" /\ graph' = graph /\ ops' = ops
      /\ queue' \in [D -> R] /\ \A i, j \in D : i # j => queue'[i] # queue'[j]
  BY DEF SortBegins, SetToSeqs
<1>2. ops = << >> /\ graph.nodes \in Seq(NodeTypes)
  BY <1>1 DEF OrderInv, SortConsistent, Planned, GraphTyped
<1>3. IsFiniteSet(R) /\ R \subseteq ToSet(graph.nodes) /\ ToSet(graph.nodes) \subseteq NodeTypes
  <2>1. R \subseteq ToSet(graph.nodes) /\ ToSet(graph.nodes) \subseteq NodeTypes
    BY <1>2 DEF Ready, ToSet
  <2>2. IsFiniteSet(ToSet(graph.nodes))
    BY <1>2, ToSetFinite
  <2> HIDE DEF R
  <2> QED
    BY <2>1, <2>2, FS_Subset
<1>4. \A n \in R : Deps(graph, n) \subseteq {}
  BY DEF Ready
<1> HIDE DEF R
<1>5. queue' \in Seq(NodeTypes) /\ Once(queue') /\ ToSet(queue') \subseteq R
  <2>1. Cardinality(R) \in Nat /\ DOMAIN queue' = D
    BY <1>1, <1>3, FS_CardinalityType
  <2>2. queue' \in Seq(R)
    BY <1>1, <2>1
  <2> QED
    BY <1>1, <1>3, <2>1, <2>2 DEF Once, ToSet
<1>6. ToSet(<< >>) = {} /\ Once(<< >>) /\ Waits(graph, << >>) /\ << >> \in Seq(NodeTypes)
  BY DEF ToSet, Once, Waits
<1>7. \A n \in ToSet(queue') : Deps(graph, n) \subseteq {}
  BY <1>4, <1>5
<1> QED
  BY <1>1, <1>2, <1>3, <1>5, <1>6, <1>7 DEF SortConsistent, Planned

LEMMA EmptyTyped == GraphTyped(NoGraph)
<1> DEFINE g == NoGraph
<1>1. /\ DOMAIN g = GraphFields /\ g.nodes = << >> /\ g.bytes = << >>
  BY DEF NoGraph, GraphFields
<1> HIDE DEF g
<1>2. Tensors(g) = {} /\ g.bytes \in [{} -> Nat]
  <2>1. DOMAIN << >> = {}
    OBVIOUS
  <2>2. << >> \in [{} -> Nat]
    BY <2>1
  <2> QED
    BY <1>1, <2>1, <2>2 DEF Tensors
<1>3. g.nodes \in Seq(NodeTypes) /\ DOMAIN g.nodes = {}
  BY <1>1
<1>4. GraphTyped(g)
  BY <1>1, <1>2, <1>3, FS_EmptySet DEF GraphTyped
<1> QED
  BY <1>4 DEF g

LEMMA InitOrder == PlannerInit => OrderInv
<1> SUFFICES ASSUME PlannerInit PROVE OrderInv
  OBVIOUS
<1>1. graph = NoGraph /\ entries = {} /\ disk = {} /\ pc = "idle" /\ ops = << >> /\ queue = << >>
  BY DEF PlannerInit
<1>2. GraphTyped(graph)
  BY <1>1, EmptyTyped
<1>3. SortConsistent /\ OpsInOrder /\ CachedInOrder
  BY <1>1 DEF SortConsistent, OpsInOrder, CachedInOrder, Planned
<1> QED
  BY <1>2, <1>3 DEF OrderInv

(* destroy(), and the end of the process, leave nothing but the files. *)
LEMMA DestroyedOrder ==
    ASSUME OrderInv, NEW r, Destroyed(r), entries' \subseteq entries, UNCHANGED disk
    PROVE  OrderInv'
<1>1. graph' = NoGraph /\ pc' = "idle" /\ ops' = << >> /\ queue' = << >>
  BY DEF Destroyed
<1>2. GraphTyped(graph)'
  BY <1>1, EmptyTyped
<1>3. SortConsistent' /\ OpsInOrder'
  BY <1>1 DEF SortConsistent, OpsInOrder, Planned
<1>4. CachedInOrder'
  BY DEF OrderInv, CachedInOrder, Readable, Torn
<1> QED
  BY <1>2, <1>3, <1>4 DEF OrderInv

(* So does any step from one state with a plan to another that leaves the    *)
(* plan and the graph alone.                                                  *)
LEMMA PlanStays ==
    ASSUME OrderInv, Planned, Planned', pc' # "sort", UNCHANGED <<graph, ops, queue, entries, disk>>
    PROVE  OrderInv'
<1>1. GraphTyped(graph)' /\ CachedInOrder' /\ OpsInOrder'
  BY DEF OrderInv, CachedInOrder, Readable, Torn, OpsInOrder
<1>2. SortConsistent'
  BY DEF OrderInv, SortConsistent
<1> QED
  BY <1>1, <1>2 DEF OrderInv

LEMMA StepOrder == OrderInv /\ [PlannerNext]_vars => OrderInv'
<1> SUFFICES ASSUME OrderInv, [PlannerNext]_vars PROVE OrderInv'
  OBVIOUS
<1>1. ASSUME NEW g \in Graphs, NEW o \in OptionSets, Create(g, o) PROVE OrderInv'
  <2>1. /\ pc = "idle" /\ pc' = "fuse" /\ graph' = g
        /\ UNCHANGED <<entries, disk, ops, queue>>
    BY <1>1 DEF Create, cacheVars, planVars
  <2>2. GraphTyped(graph')
    BY <2>1, GraphAssumption DEF IsGraph, GraphTyped, Tensors
  <2>3. SortConsistent' /\ OpsInOrder'
    BY <2>1 DEF OrderInv, SortConsistent, OpsInOrder, Planned
  <2>4. CachedInOrder'
    BY <2>1 DEF OrderInv, CachedInOrder, Readable, Torn
  <2> QED
    BY <2>2, <2>3, <2>4 DEF OrderInv
<1>2. CASE Fuse
  <2>1. pc = "fuse" /\ pc' = "lookup" /\ UNCHANGED <<entries, disk, ops, queue>>
    BY <1>2 DEF Fuse, cacheVars, planVars
  <2>2. GraphTyped(graph')
    BY <1>2, WithoutIdentitiesTyped, WithMatMulReluTyped DEF Fuse, OrderInv
  <2>3. SortConsistent' /\ OpsInOrder'
    BY <2>1 DEF OrderInv, SortConsistent, OpsInOrder, Planned
  <2>4. CachedInOrder'
    BY <2>1 DEF OrderInv, CachedInOrder, Readable, Torn
  <2> QED
    BY <2>2, <2>3, <2>4 DEF OrderInv
<1>3. CASE Lookup
  <2>1. /\ pc = "lookup" /\ pc' = "memory" /\ UNCHANGED <<graph, opt, disk, queue>>
    BY <1>3 DEF Lookup
  <2>2. PICK e \in Cached(entries) \cup Cached(disk) :
           /\ e \in entries \/ Readable(e)
           /\ e \in entries \/ e \in disk
           /\ e.key = Key /\ ops' = e.ops
           /\ entries' = entries \/ entries' = entries \cup {e}
    BY <1>3 DEF Lookup, Cached
  <2>3. e.ops \in Seq(NodeTypes) /\ Ordered(e.key, e.ops)
    BY <2>2 DEF OrderInv, CachedInOrder
  <2>4. Key.nodes = graph.nodes
    BY DEF Key, Fingerprint
  <2>5. Ordered(graph, ops')
    BY <2>2, <2>3, <2>4, OrderedByNodes
  <2>6. SortConsistent' /\ OpsInOrder'
    BY <2>1, <2>2, <2>3, <2>5 DEF OrderInv, SortConsistent, OpsInOrder, Planned
  <2>7. CachedInOrder'
    BY <2>1, <2>2, <2>3 DEF OrderInv, CachedInOrder, Readable, Torn
  <2> QED
    BY <2>1, <2>6, <2>7 DEF OrderInv
<1>4. CASE SortBegins
  <2>1. pc' = "sort" /\ UNCHANGED <<graph, entries, disk>>
    BY <1>4 DEF SortBegins, cacheVars
  <2>2. CachedInOrder' /\ OpsInOrder'
    BY <2>1 DEF OrderInv, CachedInOrder, Readable, Torn, OpsInOrder, Planned
  <2> QED
    BY <1>4, <2>1, <2>2, SortBeginsKeeps DEF OrderInv
<1>5. CASE SortStep
  <2>1. pc' = "sort" /\ UNCHANGED <<graph, entries, disk>>
    BY <1>5 DEF SortStep, cacheVars
  <2>2. CachedInOrder' /\ OpsInOrder'
    BY <2>1 DEF OrderInv, CachedInOrder, Readable, Torn, OpsInOrder, Planned
  <2> QED
    BY <1>5, <2>1, <2>2, SortStepKeeps DEF OrderInv
<1>6. CASE SortOver
  <2>1. CASE Destroyed("cycle")
    BY <1>6, <2>1, DestroyedOrder DEF SortOver, cacheVars
  <2>2. CASE Len(ops) = Len(graph.nodes) /\ UNCHANGED <<graph, planVars>> /\ pc' \in {"put", "memory"}
    <3>1. /\ ops \in Seq(NodeTypes) /\ queue \in Seq(NodeTypes) /\ graph.nodes \in Seq(NodeTypes)
          /\ Once(ops) /\ ToSet(ops) \subseteq ToSet(graph.nodes) /\ Waits(graph, ops)
      BY <1>6 DEF SortOver, OrderInv, SortConsistent, GraphTyped
    <3>2. Ordered(graph, ops)
      BY <2>2, <3>1, AllOrdered DEF Ordered
    <3>3. UNCHANGED <<graph, ops, queue, entries, disk>>
      BY <1>6, <2>2 DEF SortOver, cacheVars, planVars
    <3>4. SortConsistent' /\ OpsInOrder'
      BY <2>2, <3>1, <3>2, <3>3 DEF SortConsistent, OpsInOrder, Planned
    <3>5. CachedInOrder'
      BY <3>3 DEF OrderInv, CachedInOrder, Readable, Torn
    <3> QED
      BY <3>3, <3>4, <3>5 DEF OrderInv
  <2> QED
    BY <1>6, <2>1, <2>2 DEF SortOver
<1>7. CASE PutPlan \/ PlanWritten
  <2>1. /\ pc \in {"put", "write"} /\ pc' \in {"write", "memory"} /\ UNCHANGED <<graph, opt, ops, queue>>
        /\ entries' \subseteq entries \cup {[key |-> Key, ops |-> ops]}
        /\ disk' \subseteq disk \cup {[key |-> Key, ops |-> << >>], [key |-> Key, ops |-> ops]}
    BY <1>7 DEF PutPlan, PlanWritten, planVars
  <2>2. ops \in Seq(NodeTypes) /\ Ordered(graph, ops)
    BY <2>1 DEF OrderInv, SortConsistent, OpsInOrder, Planned
  <2>3. Ordered(Key, ops)
    <3>1. Key.nodes = graph.nodes
      BY DEF Key, Fingerprint
    <3> QED
      BY <2>2, <3>1, OrderedByNodes
  <2> DEFINE k == Key
  <2> HIDE DEF k
  <2>4. CachedInOrder'
    <3>1. \A e \in entries' : e.ops \in Seq(NodeTypes) /\ Ordered(e.key, e.ops)
      BY <2>1, <2>2, <2>3 DEF OrderInv, CachedInOrder
    <3>2. ASSUME NEW e \in disk', Readable(e)
          PROVE  e.ops \in Seq(NodeTypes) /\ Ordered(e.key, e.ops)
      <4>1. e # [key |-> Key, ops |-> << >>]
        BY <3>2 DEF Readable, Torn
      <4>2. e \in disk \/ e = [key |-> Key, ops |-> ops]
        BY <2>1, <4>1
      <4> QED
        BY <2>2, <2>3, <3>2, <4>2 DEF OrderInv, CachedInOrder
    <3> QED
      BY <3>1, <3>2 DEF CachedInOrder, Readable, Torn
  <2>5. SortConsistent' /\ OpsInOrder'
    BY <2>1, <2>2 DEF OrderInv, SortConsistent, OpsInOrder, Planned
  <2> QED
    BY <2>1, <2>4, <2>5 DEF OrderInv
<1>8. CASE AssignFixed \/ PlaceNext \/ Placed \/ Allocate \/ RunBegins \/ OpStarts \/ OpEnds
           \/ RunFails \/ RunOver
  BY <1>8, PlanStays DEF AssignFixed, PlaceNext, Placed, Allocate, RunBegins, OpStarts, OpEnds,
     RunFails, RunOver, Planned, cacheVars, planVars
<1>9. CASE Validate
  <2>1. CASE Destroyed("invalid")
    BY <1>9, <2>1, DestroyedOrder DEF Validate, cacheVars
  <2>2. CASE pc' = "allocate" /\ UNCHANGED <<graph, planVars>>
    BY <1>9, <2>2, PlanStays DEF Validate, Planned, cacheVars, planVars
  <2> QED
    BY <1>9, <2>1, <2>2 DEF Validate
<1>10. CASE CreateFails \/ Destroy
  BY <1>10, DestroyedOrder DEF CreateFails, Destroy, cacheVars
<1>11. CASE Crash
  BY <1>11, DestroyedOrder DEF Crash
<1>12. CASE UNCHANGED vars
  <2>1. UNCHANGED <<pc, graph, entries, disk, ops, queue>>
    BY <1>12 DEF vars, cacheVars, planVars
  <2>2. SortConsistent' /\ OpsInOrder'
    BY <2>1 DEF OrderInv, SortConsistent, OpsInOrder, Planned
  <2>3. CachedInOrder'
    BY <2>1 DEF OrderInv, CachedInOrder, Readable, Torn
  <2> QED
    BY <2>1, <2>2, <2>3 DEF OrderInv
<1> QED
  BY <1>1, <1>2, <1>3, <1>4, <1>5, <1>6, <1>7, <1>8, <1>9, <1>10, <1>11, <1>12 DEF PlannerNext, Work

(* Every reachable state satisfies the inductive invariant of the order. *)
THEOREM OrderInvariant == PlannerSpec => []OrderInv
BY InitOrder, StepOrder, PTL DEF PlannerSpec

(* Whether it was sorted now, by this process before, or read back from a    *)
(* file after a crash, the plan in use has every node once and after the      *)
(* nodes it reads from.                                                       *)
THEOREM PlansAreInOrder == PlannerSpec => []OpsInOrder
<1>1. OrderInv => OpsInOrder
  BY DEF OrderInv
<1> QED
  BY <1>1, OrderInvariant, PTL

-----------------------------------------------------------------------------
(* Sharing of buffers *)

(* A free slot that is taken leaves the others in their order. *)
LEMMA SlotTaken ==
    ASSUME NEW S, NEW q \in Seq(S), NEW i \in 1 .. Len(q)
    PROVE  /\ RemoveAt(q, i) \in Seq(S)
           /\ Len(RemoveAt(q, i)) = Len(q) - 1
           /\ \A j \in 1 .. (Len(q) - 1) : RemoveAt(q, i)[j] = q[IF j < i THEN j ELSE j + 1]
<1> DEFINE a == SubSeq(q, 1, i - 1)
           b == SubSeq(q, i + 1, Len(q))
<1>1. /\ Len(q) \in Nat /\ a \in Seq(S) /\ Len(a) = i - 1 /\ b \in Seq(S) /\ Len(b) = Len(q) - i
      /\ \A j \in 1 .. (i - 1) : a[j] = q[j]
      /\ \A j \in 1 .. (Len(q) - i) : b[j] = q[i + j]
  OBVIOUS
<1> HIDE DEF a, b
<1>2. /\ a \o b \in Seq(S) /\ Len(a \o b) = Len(a) + Len(b)
      /\ \A j \in 1 .. Len(a) : (a \o b)[j] = a[j]
      /\ \A j \in 1 .. Len(b) : (a \o b)[Len(a) + j] = b[j]
  <2>1. a \in Seq(S) /\ b \in Seq(S)
    BY <1>1
  <2> QED
    BY <2>1
<1>3. ASSUME NEW j \in 1 .. (Len(q) - 1) PROVE (a \o b)[j] = q[IF j < i THEN j ELSE j + 1]
  <2>1. CASE j < i
    BY <1>1, <1>2, <2>1
  <2>2. CASE ~ (j < i)
    <3>1. /\ j - (i - 1) \in 1 .. (Len(q) - i) /\ (i - 1) + (j - (i - 1)) = j
          /\ i + (j - (i - 1)) = j + 1
      BY <1>1, <2>2
    <3>2. b[j - (i - 1)] = q[j + 1]
      BY <1>1, <3>1
    <3>3. (a \o b)[j] = b[j - (i - 1)]
      BY <1>1, <1>2, <3>1
    <3> QED
      BY <2>2, <3>2, <3>3
  <2> QED
    BY <2>1, <2>2
<1>4. Len(a \o b) = Len(q) - 1
  BY <1>1, <1>2
<1> QED
  BY <1>2, <1>3, <1>4 DEF RemoveAt, a, b

(* The lifetime of a tensor: a tensor is not used last before it is used.    *)
LEMMA Lifetime ==
    ASSUME ops \in Seq(NodeTypes), NEW t
    PROVE  /\ FirstUse(t) \in Int /\ LastUse(t) \in Int
           /\ -1 <= FirstUse(t) /\ FirstUse(t) <= LastUse(t)
           /\ \A i \in At(t) : FirstUse(t) <= i - 1 /\ i - 1 <= LastUse(t)
<1>1. Len(ops) \in Nat /\ At(t) \subseteq 1 .. Len(ops)
  BY DEF At
<1>2. CASE Fixed(t)
  BY <1>1, <1>2 DEF FirstUse, LastUse
<1>3. CASE ~ Fixed(t) /\ At(t) = {}
  BY <1>3 DEF FirstUse, LastUse
<1>4. CASE ~ Fixed(t) /\ At(t) # {}
  <2> DEFINE first == CHOOSE i \in At(t) : \A j \in At(t) : i <= j
             last  == CHOOSE i \in At(t) : \A j \in At(t) : j <= i
             back  == {Len(ops) - i : i \in At(t)}
  <2>1. \E i \in At(t) : \A j \in At(t) : i <= j
    BY <1>1, <1>4, LeastNat
  <2>2. \E i \in At(t) : \A j \in At(t) : j <= i
    <3>1. back \in SUBSET Nat /\ back # {}
      BY <1>1, <1>4
    <3>2. PICK x \in back : \A y \in back : x <= y
      BY <3>1, LeastNat
    <3>3. PICK i \in At(t) : x = Len(ops) - i
      BY <3>2
    <3>4. ASSUME NEW j \in At(t) PROVE j <= i
      <4>1. x <= Len(ops) - j
        BY <3>2
      <4> QED
        BY <1>1, <3>3, <4>1
    <3> QED
      BY <3>4
  <2>3. first \in At(t) /\ \A j \in At(t) : first <= j
    BY <2>1
  <2>4. last \in At(t) /\ \A j \in At(t) : j <= last
    BY <2>2
  <2>5. FirstUse(t) = first - 1 /\ LastUse(t) = last - 1
    BY <1>4 DEF FirstUse, LastUse
  <2> HIDE DEF first, last
  <2> QED
    BY <1>1, <2>3, <2>4, <2>5
<1> QED
  BY <1>2, <1>3, <1>4

(* It depends on the graph and on the order alone. *)
LEMMA LifetimeStays ==
    ASSUME UNCHANGED <<graph, ops>>
    PROVE  \A t : /\ FirstUse(t)' = FirstUse(t) /\ LastUse(t)' = LastUse(t)
                  /\ Fixed(t)' = Fixed(t)
BY DEF FirstUse, LastUse, Fixed, At, GraphIo

(* Among the tensors without a slot one is the first in use. *)
LEMMA NextExists ==
    ASSUME ops \in Seq(NodeTypes), todo \subseteq Nat, todo # {}
    PROVE  \E u \in todo : \A v \in todo \ {u} : Before(u, v)
<1> DEFINE starts == {FirstUse(t) + 1 : t \in todo}
<1>1. starts \in SUBSET Nat /\ starts # {}
  <2>1. \A t \in todo : FirstUse(t) \in Int /\ -1 <= FirstUse(t)
    BY Lifetime
  <2>2. \A t \in todo : FirstUse(t) + 1 \in Nat
    BY <2>1
  <2> QED
    BY <2>2
<1>2. PICK m \in starts : \A y \in starts : m <= y
  BY <1>1, LeastNat
<1> DEFINE earliest == {t \in todo : FirstUse(t) + 1 = m}
<1>3. earliest \in SUBSET Nat /\ earliest # {}
  BY <1>2
<1>4. PICK u \in earliest : \A y \in earliest : u <= y
  BY <1>3, LeastNat
<1>5. ASSUME NEW v \in todo, v # u PROVE Before(u, v)
  <2>1. FirstUse(u) + 1 <= FirstUse(v) + 1
    BY <1>2, <1>4
  <2>2. /\ FirstUse(u) \in Int /\ FirstUse(v) \in Int
        /\ u \in Nat /\ v \in Nat /\ FirstUse(u) + 1 = m
    BY <1>4, Lifetime
  <2>3. CASE FirstUse(u) = FirstUse(v)
    <3>1. v \in earliest
      BY <2>2, <2>3
    <3> QED
      BY <1>4, <1>5, <2>2, <2>3, <3>1 DEF Before
  <2>4. CASE FirstUse(u) # FirstUse(v)
    BY <2>1, <2>2, <2>4 DEF Before
  <2> QED
    BY <2>3, <2>4
<1> QED
  BY <1>4, <1>5

(* The tensors with a slot of their own, numbered in the order of their ids. *)
LEMMA RanksAreSlots ==
    ASSUME NEW own \in SUBSET Nat, IsFiniteSet(own), NEW rank,
           rank = [t \in own |-> Cardinality({u \in own : u <= t})]
    PROVE  /\ Cardinality(own) \in Nat
           /\ \A t \in own : rank[t] \in 1 .. Cardinality(own)
           /\ \A t, u \in own : t # u => rank[t] # rank[u]
           /\ \A i \in 1 .. Cardinality(own) : \E t \in own : rank[t] = i
<1> DEFINE below(t) == {u \in own : u <= t}
           N == Cardinality(own)
<1>1. N \in Nat /\ IsFiniteSet(1 .. N) /\ Cardinality(1 .. N) = N
  <2>1. N \in Nat
    BY FS_CardinalityType
  <2> HIDE DEF N
  <2> QED
    BY <2>1, FS_Interval
<1>2. ASSUME NEW t \in own
      PROVE  /\ IsFiniteSet(below(t)) /\ Cardinality(below(t)) \in 1 .. N
             /\ rank[t] = Cardinality(below(t))
  <2>1. below(t) \in SUBSET own /\ t \in below(t)
    OBVIOUS
  <2>2. rank[t] = Cardinality(below(t))
    OBVIOUS
  <2> HIDE DEF below
  <2>3. IsFiniteSet(below(t)) /\ Cardinality(below(t)) <= N
    BY <2>1, FS_Subset
  <2>4. Cardinality(below(t)) \in Nat /\ Cardinality(below(t)) # 0
    BY <2>1, <2>3, FS_CardinalityType, FS_EmptySet
  <2> QED
    BY <1>1, <2>2, <2>3, <2>4
<1>3. ASSUME NEW t \in own, NEW u \in own, t < u PROVE rank[t] # rank[u]
  <2>1. below(t) \in SUBSET below(u) /\ u \in below(u) /\ u \notin below(t)
    <3>1. t \in Nat /\ u \in Nat
      OBVIOUS
    <3>2. \A x \in own : x <= t => x <= u
      BY <1>3, <3>1
    <3>3. ~ (u <= t)
      BY <1>3, <3>1
    <3>4. \A x \in below(t) : x \in own /\ x <= t
      OBVIOUS
    <3>5. \A x \in below(t) : x \in below(u)
      BY <3>2, <3>4
    <3>6. u \in below(u)
      BY <3>1
    <3>7. u \notin below(t)
      BY <3>3, <3>4
    <3> HIDE DEF below
    <3> QED
      BY <3>5, <3>6, <3>7
  <2> HIDE DEF below
  <2>2. below(t) # below(u)
    BY <2>1
  <2>3. Cardinality(below(t)) # Cardinality(below(u))
    BY <1>2, <2>1, <2>2, FS_Subset
  <2> QED
    BY <1>2, <2>3
<1>4. ASSUME NEW t \in own, NEW u \in own, t # u PROVE rank[t] # rank[u]
  <2>1. t < u \/ u < t
    BY <1>4
  <2> QED
    BY <1>3, <2>1
<1>5. rank \in [own -> 1 .. N]
  <2>1. \A t \in own : rank[t] \in 1 .. N
    BY <1>2
  <2>2. DOMAIN rank = own /\ rank = [t \in own |-> rank[t]]
    OBVIOUS
  <2> HIDE DEF N
  <2> QED
    BY <2>1, <2>2
<1>6. rank \in Injection(own, 1 .. N)
  BY <1>4, <1>5 DEF Injection, IsInjective
<1>7. rank \in Surjection(own, 1 .. N)
  BY <1>1, <1>6, FS_Injection
<1> QED
  BY <1>1, <1>2, <1>4, <1>7 DEF Surjection

LEMMA AssignFixedShares ==
    ASSUME OrderInv, SharingInv, AssignFixed
    PROVE  SharingInv'
<1> DEFINE own  == {t \in Tensors(graph) : ~ opt.reuse \/ Fixed(t)}
           rank == [t \in own |-> Cardinality({u \in own : u <= t})]
           N    == Cardinality(own)
           size(i) == graph.bytes[CHOOSE t \in own : rank[t] = i]
<1>1. /\ pc = "memory" /\ pc' = "place" /\ UNCHANGED <<graph, ops, free_list>>
      /\ slot_of' = rank /\ slots' = [i \in 1 .. N |-> size(i)] /\ todo' = Tensors(graph) \ own
  BY DEF AssignFixed
<1>2. Tensors(graph) \in SUBSET Nat /\ IsFiniteSet(Tensors(graph)) /\ graph.bytes \in [Tensors(graph) -> Nat]
  BY DEF OrderInv, GraphTyped
<1>3. own \in SUBSET Nat /\ own \subseteq Tensors(graph) /\ IsFiniteSet(own)
  BY <1>2, FS_Subset
<1>4. /\ N \in Nat
      /\ \A t \in own : rank[t] \in 1 .. N
      /\ \A t, u \in own : t # u => rank[t] # rank[u]
      /\ \A i \in 1 .. N : \E t \in own : rank[t] = i
  <2> DEFINE r == rank
  <2>1. r = [t \in own |-> Cardinality({u \in own : u <= t})]
    OBVIOUS
  <2> HIDE DEF r, own
  <2>2. /\ N \in Nat
        /\ \A t \in own : r[t] \in 1 .. N
        /\ \A t, u \in own : t # u => r[t] # r[u]
        /\ \A i \in 1 .. N : \E t \in own : r[t] = i
    BY <1>3, <2>1, RanksAreSlots
  <2> QED
    BY <2>2 DEF r
<1>5. DOMAIN rank = own
  OBVIOUS
<1>6. \A t \in todo' : t \in Tensors(graph) /\ ~ Fixed(t)
  BY <1>1
<1> HIDE DEF rank, own
<1>7. \A i \in 1 .. N : size(i) \in Nat
  <2> SUFFICES ASSUME NEW i \in 1 .. N PROVE size(i) \in Nat
    OBVIOUS
  <2>1. (CHOOSE t \in own : rank[t] = i) \in own
    BY <1>4
  <2> QED
    BY <1>2, <1>3, <2>1
<1>8. \A t \in own : size(rank[t]) = graph.bytes[t]
  <2> SUFFICES ASSUME NEW t \in own PROVE size(rank[t]) = graph.bytes[t]
    OBVIOUS
  <2>1. \A u \in own : rank[u] = rank[t] => u = t
    BY <1>4
  <2>2. (CHOOSE u \in own : rank[u] = rank[t]) = t
    BY <2>1
  <2> QED
    BY <2>2
<1> HIDE DEF N, size
<1>9. slots' \in Seq(Nat) /\ DOMAIN slots' = 1 .. N /\ \A i \in 1 .. N : slots'[i] = size(i)
  BY <1>1, <1>4, <1>7
<1>10. free_list' = << >> /\ free_list' \in Seq([slot : DOMAIN slots', bytes : Nat, free_after : Int])
  BY <1>1 DEF SharingInv
<1>11. NoLiveSharing'
  <2> SUFFICES ASSUME NEW t \in own, NEW u \in own
               PROVE  /\ graph.bytes[t] <= slots'[rank[t]]
                      /\ t # u => rank[t] # rank[u]
    BY <1>1, <1>5 DEF NoLiveSharing
  <2>1. slots'[rank[t]] = graph.bytes[t] /\ graph.bytes[t] \in Nat
    BY <1>2, <1>3, <1>4, <1>8, <1>9
  <2> QED
    BY <1>4, <2>1
<1>12. \A t \in todo' : ~ Fixed(t)'
  BY <1>1, <1>6, LifetimeStays
<1>13. /\ DOMAIN slot_of' \subseteq Tensors(graph)'
       /\ \A t \in DOMAIN slot_of' : slot_of'[t] \in DOMAIN slots'
  BY <1>1, <1>3, <1>4, <1>5, <1>9 DEF Tensors
<1>14. todo' \subseteq Tensors(graph)' /\ DOMAIN free_list' = {}
  BY <1>1, <1>6, <1>10 DEF Tensors
<1> QED
  BY <1>1, <1>9, <1>10, <1>11, <1>12, <1>13, <1>14 DEF SharingInv

(* A tensor is placed in a slot that is new, or whose tensors are all dead   *)
(* before its first use; its last use is then the latest of that slot.        *)
LEMMA PlaceNextShares ==
    ASSUME OrderInv, SharingInv, PlaceNext
    PROVE  SharingInv'
<1> DEFINE t == CHOOSE u \in todo : \A v \in todo \ {u} : Before(u, v)
           I == {k \in 1 .. Len(free_list) : Reusable(free_list[k], t)}
           i == SelectInSeq(free_list, LAMBDA f : Reusable(f, t))
           s == IF i = 0 THEN Len(slots) + 1 ELSE free_list[i].slot
           rest == IF i = 0 THEN free_list ELSE RemoveAt(free_list, i)
           freed == Freed(s, slots'[s], t)
           Frees(d) == [slot : d, bytes : Nat, free_after : Int]
<1>1. /\ pc = "place" /\ pc' = "place" /\ todo # {} /\ UNCHANGED <<graph, ops>>
      /\ slot_of' = [u \in DOMAIN slot_of \cup {t} |-> IF u = t THEN s ELSE slot_of[u]]
      /\ slots' = IF i = 0 THEN Append(slots, graph.bytes[t]) ELSE slots
      /\ free_list' = Append(rest, freed)
      /\ todo' = todo \ {t}
  BY DEF PlaceNext
<1>2. /\ ops \in Seq(NodeTypes) /\ Tensors(graph) \subseteq Nat
      /\ graph.bytes \in [Tensors(graph) -> Nat]
  BY DEF OrderInv, GraphTyped, SortConsistent
<1>3. /\ NoLiveSharing
      /\ slots \in Seq(Nat) /\ DOMAIN slot_of \subseteq Tensors(graph)
      /\ \A u \in DOMAIN slot_of : slot_of[u] \in DOMAIN slots
      /\ todo \subseteq Tensors(graph) /\ \A u \in todo : ~ Fixed(u)
      /\ free_list \in Seq(Frees(DOMAIN slots))
      /\ \A k, l \in DOMAIN free_list : k # l => free_list[k].slot # free_list[l].slot
      /\ \A k \in DOMAIN free_list :
            /\ free_list[k].bytes = slots[free_list[k].slot]
            /\ \A u \in DOMAIN slot_of :
                  slot_of[u] = free_list[k].slot => LastUse(u) <= free_list[k].free_after
  BY <1>1 DEF SharingInv
<1> HIDE DEF Frees
<1>4. t \in todo /\ t \in Tensors(graph)
  <2>1. \E u \in todo : \A v \in todo \ {u} : Before(u, v)
    BY <1>1, <1>2, <1>3, NextExists
  <2> QED
    BY <1>3, <2>1
<1>5. /\ i = 0 \/ i \in I
      /\ i = 0 => I = {}
  <2>1. i = IF I # {} THEN Min(I) ELSE 0
    BY DEF SelectInSeq
  <2>2. I # {} => Min(I) \in I
    <3> HAVE I # {}
    <3>1. I \in SUBSET Nat
      OBVIOUS
    <3> HIDE DEF I
    <3>2. \E x \in I : \A y \in I : x <= y
      BY <3>1, LeastNat
    <3> QED
      BY <3>2 DEF Min
  <2>3. 0 \notin I
    OBVIOUS
  <2> HIDE DEF i, I
  <2> QED
    BY <2>1, <2>2, <2>3
<1> HIDE DEF t, i, s, rest, freed, I
<1>6. graph.bytes[t] \in Nat /\ FirstUse(t) \in Int /\ LastUse(t) \in Int /\ FirstUse(t) <= LastUse(t)
  BY <1>2, <1>4, Lifetime
<1>7. /\ slots' \in Seq(Nat) /\ DOMAIN slots \subseteq DOMAIN slots'
      /\ \A x \in DOMAIN slots : slots'[x] = slots[x]
      /\ s \in DOMAIN slots' /\ graph.bytes[t] <= slots'[s] /\ slots'[s] \in Nat
      /\ \A u \in DOMAIN slot_of : slot_of[u] = s => LastUse(u) < FirstUse(t)
  <2>1. CASE i = 0
    <3>1. s = Len(slots) + 1 /\ slots' = Append(slots, graph.bytes[t])
      BY <1>1, <2>1 DEF s
    <3>2. s \notin DOMAIN slots
      BY <1>3, <3>1
    <3> QED
      BY <1>3, <1>6, <3>1, <3>2
  <2>2. CASE i \in I
    <3>1. i \in DOMAIN free_list /\ Reusable(free_list[i], t) /\ i # 0
      BY <1>3, <2>2 DEF I
    <3>2. s = free_list[i].slot /\ slots' = slots
      BY <1>1, <3>1 DEF s
    <3>3. free_list[i] \in Frees(DOMAIN slots)
      BY <1>3, <3>1
    <3>4. s \in DOMAIN slots /\ free_list[i].free_after \in Int /\ free_list[i].bytes = slots[s]
      BY <1>3, <3>1, <3>2, <3>3 DEF Frees
    <3>5. free_list[i].free_after < FirstUse(t) /\ graph.bytes[t] <= slots[s]
      BY <1>3, <1>6, <3>1, <3>4 DEF Reusable
    <3>6. ASSUME NEW u \in DOMAIN slot_of, slot_of[u] = s PROVE LastUse(u) < FirstUse(t)
      <4>1. LastUse(u) <= free_list[i].free_after /\ LastUse(u) \in Int
        BY <1>2, <1>3, <3>1, <3>2, <3>6, Lifetime
      <4> QED
        BY <1>6, <3>4, <3>5, <4>1
    <3> QED
      BY <1>3, <3>2, <3>4, <3>5, <3>6
  <2> QED
    BY <1>5, <2>1, <2>2
<1>8. /\ rest \in Seq(Frees(DOMAIN slots))
      /\ \A k \in DOMAIN rest : rest[k].slot # s /\ \E l \in DOMAIN free_list : rest[k] = free_list[l]
      /\ \A k, l \in DOMAIN rest : k # l => rest[k].slot # rest[l].slot
  <2>1. CASE i = 0
    <3>1. rest = free_list /\ s = Len(slots) + 1
      BY <2>1 DEF rest, s
    <3>2. ASSUME NEW k \in DOMAIN free_list PROVE free_list[k].slot # s
      <4> DEFINE f == free_list[k]
      <4>1. f \in Frees(DOMAIN slots)
        BY <1>3
      <4> HIDE DEF f
      <4>2. f.slot \in DOMAIN slots
        BY <4>1 DEF Frees
      <4>3. Len(slots) + 1 \notin DOMAIN slots
        BY <1>3
      <4> QED
        BY <3>1, <4>2, <4>3 DEF f
    <3> QED
      BY <1>3, <3>1, <3>2
  <2>2. CASE i \in I
    <3> DEFINE from(k) == IF k < i THEN k ELSE k + 1
    <3>1. i \in 1 .. Len(free_list) /\ i # 0 /\ Len(free_list) \in Nat /\ DOMAIN free_list = 1 .. Len(free_list)
      BY <1>3, <2>2 DEF I
    <3>2. rest = RemoveAt(free_list, i) /\ s = free_list[i].slot
      BY <3>1 DEF rest, s
    <3>3. /\ rest \in Seq(Frees(DOMAIN slots)) /\ Len(rest) = Len(free_list) - 1
          /\ \A k \in 1 .. (Len(free_list) - 1) : rest[k] = free_list[from(k)]
      BY <1>3, <3>1, <3>2, SlotTaken
    <3>4. DOMAIN rest = 1 .. (Len(free_list) - 1)
      BY <3>3
    <3>5. \A k \in DOMAIN rest : from(k) \in DOMAIN free_list /\ from(k) # i
      BY <3>1, <3>4
    <3>6. \A k, l \in DOMAIN rest : k # l => from(k) # from(l)
      BY <3>1, <3>4
    <3> HIDE DEF from
    <3>7. \A k, l \in DOMAIN free_list : k # l => free_list[k].slot # free_list[l].slot
      BY <1>3
    <3>8. ASSUME NEW k \in DOMAIN rest
          PROVE  rest[k].slot # s /\ \E l \in DOMAIN free_list : rest[k] = free_list[l]
      <4>1. rest[k] = free_list[from(k)] /\ from(k) \in DOMAIN free_list /\ from(k) # i
        BY <3>3, <3>4, <3>5
      <4>2. free_list[from(k)].slot # free_list[i].slot
        BY <3>1, <3>7, <4>1
      <4> QED
        BY <3>2, <4>1, <4>2
    <3>9. ASSUME NEW k \in DOMAIN rest, NEW l \in DOMAIN rest, k # l
          PROVE  rest[k].slot # rest[l].slot
      <4>1. /\ rest[k] = free_list[from(k)] /\ from(k) \in DOMAIN free_list
            /\ rest[l] = free_list[from(l)] /\ from(l) \in DOMAIN free_list
        BY <3>3, <3>4, <3>5
      <4>2. from(k) # from(l)
        BY <3>6, <3>9
      <4> QED
        BY <3>7, <4>1, <4>2
    <3> QED
      BY <3>3, <3>8, <3>9
  <2> QED
    BY <1>5, <2>1, <2>2
<1>9. /\ DOMAIN slot_of' = DOMAIN slot_of \cup {t} /\ slot_of'[t] = s
      /\ \A u \in DOMAIN slot_of : u # t => slot_of'[u] = slot_of[u]
  BY <1>1
<1>10. freed = [slot |-> s, bytes |-> slots'[s], free_after |-> LastUse(t)]
  BY DEF Freed, freed
<1>11. /\ DOMAIN slot_of' \subseteq Tensors(graph)'
       /\ \A u \in DOMAIN slot_of' : slot_of'[u] \in DOMAIN slots'
       /\ todo' \subseteq Tensors(graph)'
  BY <1>1, <1>3, <1>4, <1>7, <1>9 DEF Tensors
<1>12. \A u \in todo' : ~ Fixed(u)'
  BY <1>1, <1>3, LifetimeStays
<1>13. NoLiveSharing'
  <2> SUFFICES ASSUME NEW u \in DOMAIN slot_of', NEW v \in DOMAIN slot_of'
               PROVE  /\ graph.bytes[u] <= slots'[slot_of'[u]]
                      /\ u # v /\ slot_of'[u] = slot_of'[v] =>
                            LastUse(u) < FirstUse(v) \/ LastUse(v) < FirstUse(u)
    <3>1. \A v : FirstUse(v)' = FirstUse(v) /\ LastUse(v)' = LastUse(v)
      BY <1>1, LifetimeStays
    <3>2. graph' = graph
      BY <1>1
    <3> QED
      BY <3>1, <3>2 DEF NoLiveSharing
  <2>1. graph.bytes[u] <= slots'[slot_of'[u]]
    <3>1. CASE u = t
      BY <1>7, <1>9, <3>1
    <3>2. CASE u # t
      BY <1>3, <1>7, <1>9, <3>2 DEF NoLiveSharing
    <3> QED
      BY <3>1, <3>2
  <2>2. ASSUME u # v, slot_of'[u] = slot_of'[v]
        PROVE  LastUse(u) < FirstUse(v) \/ LastUse(v) < FirstUse(u)
    <3>1. CASE u = t
      BY <1>7, <1>9, <2>2, <3>1
    <3>2. CASE v = t
      BY <1>7, <1>9, <2>2, <3>2
    <3>3. CASE u # t /\ v # t
      BY <1>3, <1>9, <2>2, <3>3 DEF NoLiveSharing
    <3> QED
      BY <3>1, <3>2, <3>3
  <2> QED
    BY <2>1, <2>2
<1>14. /\ Len(rest) \in Nat /\ DOMAIN rest = 1 .. Len(rest)
       /\ DOMAIN free_list' = 1 .. (Len(rest) + 1)
       /\ \A k \in 1 .. Len(rest) : free_list'[k] = rest[k]
       /\ free_list'[Len(rest) + 1] = freed
       /\ free_list' \in Seq(Frees(DOMAIN slots'))
  <2>1. freed \in Frees(DOMAIN slots')
    BY <1>6, <1>7, <1>10 DEF Frees
  <2>2. Frees(DOMAIN slots) \subseteq Frees(DOMAIN slots')
    BY <1>7 DEF Frees
  <2>3. rest \in Seq(Frees(DOMAIN slots'))
    BY <1>8, <2>2
  <2> QED
    BY <1>1, <2>1, <2>3
<1>15. \A k, l \in DOMAIN free_list' : k # l => free_list'[k].slot # free_list'[l].slot
  <2> SUFFICES ASSUME NEW k \in DOMAIN free_list', NEW l \in DOMAIN free_list', k # l
               PROVE  free_list'[k].slot # free_list'[l].slot
    OBVIOUS
  <2>1. freed.slot = s
    BY <1>10
  <2>2. CASE k \in DOMAIN rest /\ l \in DOMAIN rest
    BY <1>8, <1>14, <2>2
  <2>3. CASE k = Len(rest) + 1 /\ l \in DOMAIN rest
    BY <1>8, <1>14, <2>1, <2>3
  <2>4. CASE l = Len(rest) + 1 /\ k \in DOMAIN rest
    BY <1>8, <1>14, <2>1, <2>4
  <2> QED
    BY <1>14, <2>2, <2>3, <2>4
<1>16. ASSUME NEW k \in DOMAIN free_list'
       PROVE  LET f == free_list'[k] IN
              /\ f.bytes = slots'[f.slot]
              /\ \A u \in DOMAIN slot_of' : slot_of'[u] = f.slot => LastUse(u)' <= f.free_after
  <2>1. CASE k = Len(rest) + 1
    <3>1. /\ free_list'[k].bytes = slots'[s] /\ free_list'[k].slot = s
          /\ free_list'[k].free_after = LastUse(t)
      BY <1>10, <1>14, <2>1
    <3>2. ASSUME NEW u \in DOMAIN slot_of', slot_of'[u] = s PROVE LastUse(u) <= LastUse(t)
      <4>1. u = t \/ LastUse(u) < FirstUse(t)
        BY <1>7, <1>9, <3>2
      <4>2. LastUse(u) \in Int
        BY <1>2, Lifetime
      <4> QED
        BY <1>6, <4>1, <4>2
    <3> QED
      BY <1>1, <3>1, <3>2, LifetimeStays
  <2>2. CASE k \in DOMAIN rest
    <3>1. PICK l \in DOMAIN free_list : free_list'[k] = free_list[l] /\ free_list[l].slot # s
      BY <1>8, <1>14, <2>2
    <3>2. free_list[l].slot \in DOMAIN slots
      <4> DEFINE f == free_list[l]
      <4>1. f \in Frees(DOMAIN slots)
        BY <1>3
      <4> HIDE DEF f
      <4>2. f.slot \in DOMAIN slots
        BY <4>1 DEF Frees
      <4> QED
        BY <4>2 DEF f
    <3>3. free_list[l].bytes = slots'[free_list[l].slot]
      BY <1>3, <1>7, <3>2
    <3>4. ASSUME NEW u \in DOMAIN slot_of', slot_of'[u] = free_list[l].slot
          PROVE  LastUse(u) <= free_list[l].free_after
      BY <1>3, <1>9, <3>1, <3>4
    <3> QED
      BY <1>1, <3>1, <3>3, <3>4, LifetimeStays
  <2> QED
    BY <1>14, <2>1, <2>2
<1>17. free_list' \in Seq([slot : DOMAIN slots', bytes : Nat, free_after : Int])
  BY <1>14 DEF Frees
<1> QED
  BY <1>1, <1>7, <1>11, <1>12, <1>13, <1>15, <1>16, <1>17 DEF SharingInv

(* Before the memory plan there is nothing that could share. *)
LEMMA NothingPlaced ==
    ASSUME slot_of' = << >>, free_list' = << >>, slots' \in Seq(Nat), pc' # "place"
    PROVE  SharingInv'
<1>1. DOMAIN slot_of' = {}
  OBVIOUS
<1> QED
  BY <1>1 DEF SharingInv, NoLiveSharing

(* After it slots and lifetimes stay what they are. *)
LEMMA SlotsStay ==
    ASSUME OrderInv, SharingInv, Bound', UNCHANGED <<graph, ops, slot_of, slots>>
    PROVE  SharingInv'
<1>1. pc' \notin {"place", "idle", "fuse", "lookup", "sort", "put", "write", "memory"}
  BY DEF Bound
<1>2. NoLiveSharing'
  BY LifetimeStays DEF SharingInv, NoLiveSharing
<1> QED
  BY <1>1, <1>2 DEF SharingInv, Tensors

LEMMA InitShares == PlannerInit => SharingInv
<1> SUFFICES ASSUME PlannerInit PROVE SharingInv
  OBVIOUS
<1>1. slot_of = << >> /\ free_list = << >> /\ slots = << >> /\ pc = "idle" /\ DOMAIN slot_of = {}
  BY DEF PlannerInit
<1> QED
  BY <1>1 DEF SharingInv, NoLiveSharing

LEMMA StepShares == OrderInv /\ SharingInv /\ [PlannerNext]_vars => SharingInv'
<1> SUFFICES ASSUME OrderInv, SharingInv, [PlannerNext]_vars PROVE SharingInv'
  OBVIOUS
<1>1. CASE \E g \in Graphs, o \in OptionSets : Create(g, o)
  BY <1>1, NothingPlaced DEF Create, SharingInv, Bound, planVars
<1>2. CASE Fuse \/ Lookup \/ SortBegins \/ SortStep
  BY <1>2, NothingPlaced DEF Fuse, Lookup, SortBegins, SortStep, SharingInv, Bound, planVars
<1>3. CASE PutPlan \/ PlanWritten
  BY <1>3, NothingPlaced DEF PutPlan, PlanWritten, SharingInv, Bound, planVars
<1>4. ASSUME NEW r, Destroyed(r) PROVE SharingInv'
  BY <1>4, NothingPlaced DEF Destroyed
<1>5. CASE SortOver
  <2>1. CASE \E r : Destroyed(r)
    BY <1>4, <2>1
  <2>2. CASE pc = "sort" /\ pc' \in {"put", "memory"} /\ UNCHANGED planVars
    BY <2>2, NothingPlaced DEF SharingInv, Bound, planVars
  <2> QED
    BY <1>5, <2>1, <2>2 DEF SortOver
<1>6. CASE AssignFixed
  BY <1>6, AssignFixedShares
<1>7. CASE PlaceNext
  BY <1>7, PlaceNextShares
<1>8. CASE Placed \/ Allocate \/ RunBegins \/ OpStarts \/ OpEnds \/ RunFails \/ RunOver
  BY <1>8, SlotsStay DEF Placed, Allocate, RunBegins, OpStarts, OpEnds, RunFails, RunOver,
     Bound, planVars
<1>9. CASE Validate
  <2>1. CASE Destroyed("invalid")
    BY <1>4, <2>1
  <2>2. CASE pc' = "allocate" /\ UNCHANGED <<graph, planVars>>
    BY <2>2, SlotsStay DEF Bound, planVars
  <2> QED
    BY <1>9, <2>1, <2>2 DEF Validate
<1>10. CASE CreateFails \/ Destroy \/ Crash
  BY <1>4, <1>10 DEF CreateFails, Destroy, Crash
<1>11. CASE UNCHANGED vars
  <2>1. UNCHANGED <<pc, graph, ops, slot_of, slots, todo, free_list>>
    BY <1>11 DEF vars, planVars
  <2>2. NoLiveSharing'
    BY <2>1, LifetimeStays DEF SharingInv, NoLiveSharing
  <2>3. \A t : Fixed(t)' = Fixed(t) /\ LastUse(t)' = LastUse(t)
    BY <2>1, LifetimeStays
  <2> QED
    BY <2>1, <2>2, <2>3 DEF SharingInv, Bound, Tensors
<1> QED
  BY <1>1, <1>2, <1>3, <1>5, <1>6, <1>7, <1>8, <1>9, <1>10, <1>11 DEF PlannerNext, Work

(* Of two tensors that share a buffer one is dead before the other is first  *)
(* written, and the buffer holds either of them, however the greedy memory    *)
(* planner chose among the free slots.                                        *)
THEOREM SharedBuffersAreDead == PlannerSpec => []NoLiveSharing
<1>1. PlannerInit => OrderInv /\ SharingInv
  BY InitOrder, InitShares
<1>2. OrderInv /\ SharingInv /\ [PlannerNext]_vars => (OrderInv /\ SharingInv)'
  BY StepOrder, StepShares
<1>3. OrderInv /\ SharingInv => NoLiveSharing
  BY DEF SharingInv
<1> QED
  BY <1>1, <1>2, <1>3, PTL DEF PlannerSpec
=============================================================================

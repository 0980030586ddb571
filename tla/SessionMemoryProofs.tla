------------------------ MODULE SessionMemoryProofs ------------------------
(* Proofs about the memory of a session: the allocator and its budget, and     *)
(* what build_storage_plan promises.                                           *)
EXTENDS SessionMemory, FiniteSetTheorems, SequenceTheorems, TLAPS

-----------------------------------------------------------------------------
(* Sums over finite sets, as MapThenSumSet computes them: one element after   *)
(* the other, in the order CHOOSE takes them.  The order does not matter.     *)

AnyOf(s) == CHOOSE x \in s : TRUE

(* g gives the sum of f over every subset of S. *)
Sums(g, f, S) ==
    g = [s \in SUBSET S |-> IF s = {} THEN 0 ELSE f[AnyOf(s)] + g[s \ {AnyOf(s)}]]

SumOf(f, S) == (CHOOSE g : Sums(g, f, S))[S]

-----------------------------------------------------------------------------
LEMMA AnyOfIn == ASSUME NEW s, s # {} PROVE AnyOf(s) \in s
BY DEF AnyOf

LEMMA LeastNat == ASSUME NEW S \in SUBSET Nat, S # {} PROVE \E x \in S : \A y \in S : x <= y
<1> DEFINE R == {p \in Nat \X Nat : p[1] < p[2]}
<1>1. IsWellFoundedOn(R, Nat)
  BY NatLessThanWellFounded DEF OpToRel
<1> HIDE DEF R
<1>2. PICK x \in S : \A y \in S : <<y, x>> \notin R
  BY <1>1, WFMin
<1>3. ASSUME NEW y \in S PROVE x <= y
  <2>1. x \in Nat /\ y \in Nat /\ <<y, x>> \notin R
    BY <1>2
  <2>2. <<y, x>>[1] = y /\ <<y, x>>[2] = x /\ <<y, x>> \in Nat \X Nat
    BY <2>1
  <2>3. ~ (y < x)
    BY <2>1, <2>2 DEF R
  <2> QED
    BY <2>1, <2>3
<1> QED
  BY <1>3

(* Induction over finite sets: a family of subsets has a smallest member. *)
LEMMA SmallestSubset ==
    ASSUME NEW S, IsFiniteSet(S), NEW F \in SUBSET (SUBSET S), F # {}
    PROVE  \E t \in F : \A u \in F : u \subseteq t => u = t
<1>1. F \subseteq FiniteSubsetsOf(S)
  BY FS_FiniteSubsetsOfFinite
<1>2. PICK t \in F : \A u \in F : <<u, t>> \notin StrictSubsetOrdering(S)
  BY <1>1, FS_StrictSubsetOrderingWellFounded, WFMin
<1> QED
  BY <1>2 DEF StrictSubsetOrdering

(* What a recursive sum says of one subset. *)
LEMMA SumsAt ==
    ASSUME NEW g, NEW f, NEW S, Sums(g, f, S), NEW s \in SUBSET S
    PROVE  /\ s = {} => g[s] = 0
           /\ s # {} => /\ AnyOf(s) \in s /\ s \ {AnyOf(s)} \in SUBSET S
                        /\ g[s] = f[AnyOf(s)] + g[s \ {AnyOf(s)}]
BY AnyOfIn DEF Sums

(* A sum depends on the values of the elements alone. *)
LEMMA SumsAgree ==
    ASSUME NEW S, IsFiniteSet(S), NEW T, NEW f, NEW h, NEW g, NEW k,
           Sums(g, f, S), Sums(k, h, T),
           NEW u \in SUBSET S, u \subseteq T, \A x \in u : f[x] = h[x]
    PROVE  g[u] = k[u]
<1> DEFINE Bad == {v \in SUBSET u : g[v] # k[v]}
<1>1. SUFFICES ASSUME Bad # {} PROVE FALSE
  OBVIOUS
<1>2. IsFiniteSet(u) /\ Bad \in SUBSET (SUBSET u)
  BY FS_Subset
<1>3. PICK v \in Bad : \A w \in Bad : w \subseteq v => w = v
  <2> HIDE DEF Bad
  <2> QED
    BY <1>1, <1>2, SmallestSubset
<1>4. v \in SUBSET S /\ v \in SUBSET T /\ v \in SUBSET u
  OBVIOUS
<1>5. v # {}
  BY <1>4, SumsAt
<1>6. AnyOf(v) \in v
  BY <1>5, AnyOfIn
<1>7. g[v \ {AnyOf(v)}] = k[v \ {AnyOf(v)}]
  BY <1>3, <1>4, <1>6
<1>8. g[v] = f[AnyOf(v)] + g[v \ {AnyOf(v)}] /\ k[v] = h[AnyOf(v)] + k[v \ {AnyOf(v)}]
  BY <1>4, <1>5, SumsAt
<1> QED
  BY <1>3, <1>4, <1>6, <1>7, <1>8

(* The recursion of MapThenSumSet is well defined. *)
LEMMA SumsExist ==
    ASSUME NEW S, IsFiniteSet(S), NEW f
    PROVE  \E g : Sums(g, f, S)
<1> DEFINE Bad == {t \in SUBSET S : ~ \E g : Sums(g, f, t)}
<1>1. SUFFICES ASSUME Bad # {} PROVE FALSE
  OBVIOUS
<1>2. PICK t \in Bad : \A u \in Bad : u \subseteq t => u = t
  <2>1. Bad \in SUBSET (SUBSET S)
    OBVIOUS
  <2> HIDE DEF Bad
  <2> QED
    BY <1>1, <2>1, SmallestSubset
<1>3. t \in SUBSET S /\ ~ \E g : Sums(g, f, t)
  OBVIOUS
<1>4. \A u \in SUBSET t : u # t => \E g : Sums(g, f, u)
  BY <1>2, <1>3
<1> DEFINE part(u) == CHOOSE g : Sums(g, f, u)
           rest(s) == s \ {AnyOf(s)}
           g0 == [s \in SUBSET t |-> IF s = {} THEN 0 ELSE f[AnyOf(s)] + part(rest(s))[rest(s)]]
<1>5. \A u \in SUBSET t : u # t => Sums(part(u), f, u)
  BY <1>4
<1>6. ASSUME NEW s \in SUBSET t, s # {} PROVE rest(s) \in SUBSET t /\ rest(s) # t
  BY <1>6, AnyOfIn
<1> HIDE DEF Bad
<1>7. ASSUME NEW s \in SUBSET t, s # {} PROVE part(rest(s))[rest(s)] = g0[rest(s)]
  <2> DEFINE u == rest(s)
  <2>1. u \in SUBSET t /\ u # t /\ Sums(part(u), f, u)
    BY <1>5, <1>6, <1>7
  <2>2. CASE u = {}
    <3> HIDE DEF part, u
    <3>1. part(u)[u] = 0
      BY <2>1, <2>2, SumsAt
    <3> QED
      BY <2>1, <2>2, <3>1 DEF u
  <2>3. CASE u # {}
    <3>1. rest(u) \in SUBSET t /\ rest(u) # t /\ Sums(part(rest(u)), f, rest(u)) /\ rest(u) \in SUBSET u
      BY <1>5, <1>6, <2>1, <2>3
    <3>2. IsFiniteSet(u) /\ IsFiniteSet(rest(u))
      BY <1>3, <2>1, <3>1, FS_Subset
    <3> HIDE DEF part, u
    <3>3. part(u)[u] = f[AnyOf(u)] + part(u)[rest(u)]
      BY <2>1, <2>3, SumsAt
    <3>4. part(u)[rest(u)] = part(rest(u))[rest(u)]
      BY <2>1, <3>1, <3>2, SumsAgree
    <3>5. g0[u] = f[AnyOf(u)] + part(rest(u))[rest(u)]
      BY <2>1, <2>3
    <3> QED
      BY <3>3, <3>4, <3>5 DEF u
  <2> QED
    BY <2>2, <2>3
<1>8. g0 = [s \in SUBSET t |-> IF s = {} THEN 0 ELSE f[AnyOf(s)] + g0[rest(s)]]
  <2> HIDE DEF part
  <2> QED
    BY <1>7
<1> QED
  BY <1>3, <1>8 DEF Sums

LEMMA SumsType ==
    ASSUME NEW S, IsFiniteSet(S), NEW f, NEW g, Sums(g, f, S),
           NEW u \in SUBSET S, \A x \in u : f[x] \in Nat
    PROVE  g[u] \in Nat
<1> DEFINE Bad == {v \in SUBSET u : g[v] \notin Nat}
<1>1. SUFFICES ASSUME Bad # {} PROVE FALSE
  OBVIOUS
<1>2. IsFiniteSet(u) /\ Bad \in SUBSET (SUBSET u)
  BY FS_Subset
<1>3. PICK v \in Bad : \A w \in Bad : w \subseteq v => w = v
  <2> HIDE DEF Bad
  <2> QED
    BY <1>1, <1>2, SmallestSubset
<1>4. v \in SUBSET S /\ v \in SUBSET u
  OBVIOUS
<1>5. v # {}
  <2>1. v = {} => g[v] = 0
    BY <1>4, SumsAt
  <2>2. g[v] \notin Nat
    OBVIOUS
  <2> QED
    BY <2>1, <2>2
<1>6. AnyOf(v) \in v
  BY <1>5, AnyOfIn
<1>7. g[v \ {AnyOf(v)}] \in Nat
  BY <1>3, <1>4, <1>6
<1>8. g[v] = f[AnyOf(v)] + g[v \ {AnyOf(v)}]
  BY <1>4, <1>5, SumsAt
<1> QED
  BY <1>3, <1>4, <1>6, <1>7, <1>8

(* Any element may be taken first. *)
LEMMA SumsRemove ==
    ASSUME NEW S, IsFiniteSet(S), NEW f, NEW g, Sums(g, f, S),
           NEW u \in SUBSET S, \A x \in u : f[x] \in Nat, NEW x \in u
    PROVE  g[u] = f[x] + g[u \ {x}]
<1> DEFINE Bad == {v \in SUBSET u : \E y \in v : g[v] # f[y] + g[v \ {y}]}
<1>1. SUFFICES ASSUME Bad # {} PROVE FALSE
  OBVIOUS
<1>2. IsFiniteSet(u) /\ Bad \in SUBSET (SUBSET u)
  BY FS_Subset
<1>3. PICK v \in Bad : \A w \in Bad : w \subseteq v => w = v
  <2> HIDE DEF Bad
  <2> QED
    BY <1>1, <1>2, SmallestSubset
<1>4. v \in SUBSET S /\ v \in SUBSET u
  OBVIOUS
<1>5. PICK y \in v : g[v] # f[y] + g[v \ {y}]
  OBVIOUS
<1> DEFINE c == AnyOf(v)
<1>6. c \in v /\ g[v] = f[c] + g[v \ {c}]
  <2>1. v # {}
    BY <1>5
  <2> HIDE DEF Bad
  <2> QED
    BY <1>4, <2>1, SumsAt
<1>7. c # y
  BY <1>5, <1>6
<1>8. v \ {c} \notin Bad /\ v \ {y} \notin Bad
  BY <1>3, <1>5, <1>6
<1> HIDE DEF c
<1>9. g[v \ {c}] = f[y] + g[(v \ {c}) \ {y}] /\ g[v \ {y}] = f[c] + g[(v \ {y}) \ {c}]
  BY <1>4, <1>5, <1>6, <1>7, <1>8
<1>10. (v \ {c}) \ {y} = (v \ {y}) \ {c} /\ (v \ {c}) \ {y} \in SUBSET S
  BY <1>4
<1>11. f[c] \in Nat /\ f[y] \in Nat /\ g[(v \ {c}) \ {y}] \in Nat
  BY <1>4, <1>5, <1>6, <1>10, SumsType
<1> HIDE DEF Bad
<1>12. g[v] = f[y] + g[v \ {y}]
  <2> DEFINE r == g[(v \ {c}) \ {y}]
  <2>1. g[v \ {c}] = f[y] + r /\ g[v \ {y}] = f[c] + r /\ r \in Nat
    BY <1>9, <1>10, <1>11
  <2> HIDE DEF r
  <2>2. g[v] = f[c] + (f[y] + r)
    BY <1>6, <2>1
  <2>3. f[c] + (f[y] + r) = f[y] + (f[c] + r)
    BY <1>11, <2>1
  <2> QED
    BY <2>1, <2>2, <2>3
<1> QED
  BY <1>5, <1>12

-----------------------------------------------------------------------------
(* The sum of a set: of no element, of a further one, of the same values. *)
LEMMA SumOfSums == ASSUME NEW S, IsFiniteSet(S), NEW f PROVE Sums(CHOOSE g : Sums(g, f, S), f, S)
<1>1. \E g : Sums(g, f, S)
  BY SumsExist
<1> QED
  BY <1>1

LEMMA SumOfNat ==
    ASSUME NEW S, IsFiniteSet(S), NEW f, \A x \in S : f[x] \in Nat
    PROVE  SumOf(f, S) \in Nat
<1> DEFINE g == CHOOSE k : Sums(k, f, S)
<1>1. Sums(g, f, S)
  BY SumOfSums
<1> HIDE DEF g
<1>2. g[S] \in Nat
  BY <1>1, SumsType
<1> QED
  BY <1>2 DEF g, SumOf

LEMMA SumOfEmpty == ASSUME NEW f PROVE SumOf(f, {}) = 0
<1> DEFINE g == CHOOSE k : Sums(k, f, {})
<1>1. Sums(g, f, {})
  BY SumOfSums, FS_EmptySet
<1> HIDE DEF g
<1>2. g[{}] = 0
  BY <1>1, SumsAt
<1> QED
  BY <1>2 DEF g, SumOf

LEMMA SumOfSame ==
    ASSUME NEW S, IsFiniteSet(S), NEW f, NEW h, \A x \in S : f[x] = h[x]
    PROVE  SumOf(f, S) = SumOf(h, S)
<1> DEFINE g == CHOOSE k : Sums(k, f, S)
           l == CHOOSE k : Sums(k, h, S)
<1>1. Sums(g, f, S) /\ Sums(l, h, S)
  BY SumOfSums
<1> HIDE DEF g, l
<1>2. g[S] = l[S]
  BY <1>1, SumsAgree
<1> QED
  BY <1>2 DEF g, l, SumOf

LEMMA SumOfRemove ==
    ASSUME NEW S, IsFiniteSet(S), NEW f, \A y \in S : f[y] \in Nat, NEW x \in S
    PROVE  SumOf(f, S) = f[x] + SumOf(f, S \ {x})
<1> DEFINE g == CHOOSE k : Sums(k, f, S)
           l == CHOOSE k : Sums(k, f, S \ {x})
<1>1. IsFiniteSet(S \ {x})
  BY FS_Subset
<1>2. Sums(g, f, S) /\ Sums(l, f, S \ {x})
  BY <1>1, SumOfSums
<1> HIDE DEF g, l
<1>3. g[S] = f[x] + g[S \ {x}]
  BY <1>2, SumsRemove
<1>4. g[S \ {x}] = l[S \ {x}]
  BY <1>2, SumsAgree
<1> QED
  BY <1>3, <1>4 DEF g, l, SumOf

LEMMA SumOfAdd ==
    ASSUME NEW S, IsFiniteSet(S), NEW f, NEW x, x \notin S, \A y \in S \cup {x} : f[y] \in Nat
    PROVE  SumOf(f, S \cup {x}) = SumOf(f, S) + f[x]
<1>1. IsFiniteSet(S \cup {x}) /\ (S \cup {x}) \ {x} = S
  BY FS_AddElement
<1>2. SumOf(f, S \cup {x}) = f[x] + SumOf(f, S)
  BY <1>1, SumOfRemove
<1> QED
  BY <1>2, SumOfNat

-----------------------------------------------------------------------------
(* Operators *)
LEMMA MaxOfTwo == ASSUME NEW a \in Nat, NEW b \in Nat PROVE Max({a, b}) = IF a >= b THEN a ELSE b
<1>1. \E x \in {a, b} : \A y \in {a, b} : x >= y
  OBVIOUS
<1>2. Max({a, b}) \in {a, b} /\ \A y \in {a, b} : Max({a, b}) >= y
  BY <1>1 DEF Max
<1> QED
  BY <1>2

LEMMA MinOfTwo == ASSUME NEW a \in Nat, NEW b \in Nat PROVE Min({a, b}) = IF a <= b THEN a ELSE b
<1>1. \E x \in {a, b} : \A y \in {a, b} : x =< y
  OBVIOUS
<1>2. Min({a, b}) \in {a, b} /\ \A y \in {a, b} : Min({a, b}) =< y
  BY <1>1 DEF Min
<1> QED
  BY <1>2

LEMMA MinOfSet ==
    ASSUME NEW S \in SUBSET Nat, S # {} PROVE Min(S) \in S /\ \A y \in S : Min(S) <= y
<1>1. \E x \in S : \A y \in S : x =< y
  BY LeastNat
<1> QED
  BY <1>1 DEF Min

LEMMA MaxOfSet ==
    ASSUME NEW S \in SUBSET Nat, S # {}, NEW n \in Nat, \A x \in S : x <= n
    PROVE  Max(S) \in S /\ \A y \in S : Max(S) >= y
<1> DEFINE U == {m \in Nat : \A x \in S : x <= m}
<1>1. PICK m \in U : \A k \in U : m <= k
  <2>1. n \in U
    OBVIOUS
  <2> HIDE DEF U
  <2> QED
    BY <2>1, LeastNat DEF U
<1>2. m \in S
  <2>1. SUFFICES ASSUME m \notin S PROVE FALSE
    OBVIOUS
  <2>2. PICK x \in S : TRUE
    OBVIOUS
  <2>3. \A y \in S : y <= m - 1
    BY <1>1, <2>1
  <2>4. m - 1 \in Nat
    BY <1>1, <2>2, <2>3
  <2>5. m - 1 \in U
    BY <2>3, <2>4
  <2> QED
    BY <1>1, <2>5
<1>3. \E x \in S : \A y \in S : x >= y
  BY <1>1, <1>2
<1> QED
  BY <1>3 DEF Max

(* The sums of the modules are sums. *)
LEMMA SumSizesIs == ASSUME NEW S PROVE SumSizes(S) = SumOf([b \in S |-> b.size], S)
BY DEF SumSizes, MapThenSumSet, MapThenFoldSet, SumOf, Sums, AnyOf

CapacityOf(c) == SumOf([k \in DOMAIN c |-> c[k].capacity], DOMAIN c)

LEMMA SumChunksIs == SumChunks = CapacityOf(chunks) /\ SumChunks' = CapacityOf(chunks')
BY DEF CapacityOf, SumChunks, MapThenSumSet, MapThenFoldSet, SumOf, Sums, AnyOf

LEMMA SumBytesIs == ASSUME NEW W PROVE SumBytes(W) = SumOf([w \in W |-> ResidentBytes(w)], W)
BY DEF SumBytes, MapThenSumSet, MapThenFoldSet, SumOf, Sums, AnyOf

LEMMA SumSizesOf ==
    ASSUME NEW S \in SUBSET Blocks, IsFiniteSet(S)
    PROVE  /\ SumSizes(S) \in Nat /\ SumSizes({}) = 0
           /\ \A b \in S : SumSizes(S) = SumSizes(S \ {b}) + b.size /\ SumSizes(S \ {b}) \in Nat
           /\ \A b \in Blocks \ S : SumSizes(S \cup {b}) = SumSizes(S) + b.size
<1> DEFINE f(T) == [b \in T |-> b.size]
<1>1. ASSUME NEW T \in SUBSET Blocks PROVE \A b \in T : f(T)[b] \in Nat /\ f(T)[b] = b.size
  BY DEF Blocks
<1>2. SumSizes(S) \in Nat
  BY <1>1, SumSizesIs, SumOfNat
<1>3. SumSizes({}) = 0
  BY SumSizesIs, SumOfEmpty
<1>4. ASSUME NEW b \in S
      PROVE  SumSizes(S) = SumSizes(S \ {b}) + b.size /\ SumSizes(S \ {b}) \in Nat
  <2> DEFINE R == S \ {b}
  <2>1. R \in SUBSET Blocks /\ IsFiniteSet(R)
    BY FS_Subset
  <2>2. \A x \in R : f(S)[x] = f(R)[x] /\ f(R)[x] \in Nat
    BY <1>1, <2>1
  <2>3. \A x \in S : f(S)[x] \in Nat
    BY <1>1
  <2> HIDE DEF f
  <2>4. SumOf(f(S), S) = f(S)[b] + SumOf(f(S), R)
    BY <2>3, SumOfRemove
  <2>5. SumOf(f(S), R) = SumOf(f(R), R) /\ SumOf(f(R), R) \in Nat
    BY <2>1, <2>2, SumOfSame, SumOfNat
  <2>6. SumSizes(S) = SumOf(f(S), S) /\ SumSizes(R) = SumOf(f(R), R)
    BY SumSizesIs DEF f
  <2>7. f(S)[b] = b.size /\ b.size \in Nat
    BY DEF f, Blocks
  <2> HIDE DEF R
  <2>8. SumSizes(S) = SumSizes(R) + b.size /\ SumSizes(R) \in Nat
    BY <2>4, <2>5, <2>6, <2>7
  <2> QED
    BY <2>8 DEF R
<1>5. ASSUME NEW b \in Blocks, b \notin S PROVE SumSizes(S \cup {b}) = SumSizes(S) + b.size
  <2> DEFINE R == S \cup {b}
  <2>1. R \in SUBSET Blocks /\ IsFiniteSet(R)
    BY FS_AddElement
  <2>2. \A x \in S : f(S)[x] = f(R)[x]
    OBVIOUS
  <2>3. \A x \in R : f(R)[x] \in Nat
    BY <1>1, <2>1
  <2> HIDE DEF f
  <2>4. SumOf(f(R), R) = SumOf(f(R), S) + f(R)[b]
    BY <1>5, <2>3, SumOfAdd
  <2>5. SumOf(f(R), S) = SumOf(f(S), S)
    BY <2>2, SumOfSame
  <2>6. SumSizes(S) = SumOf(f(S), S) /\ SumSizes(R) = SumOf(f(R), R)
    BY SumSizesIs DEF f
  <2>7. f(R)[b] = b.size
    BY DEF f
  <2> QED
    BY <2>4, <2>5, <2>6, <2>7
<1> QED
  BY <1>2, <1>3, <1>4, <1>5

-----------------------------------------------------------------------------
(* RoundUpSize gives a class that is large enough. *)
LEMMA RoundedUp == ASSUME NEW n \in Nat PROVE RoundUpSize(n) \in Nat /\ n <= RoundUpSize(n)
<1> DEFINE fitting == {c \in SizeClasses : c >= n}
<1>1. fitting \in SUBSET Nat
  BY AllocatorAssumption
<1>2. CASE fitting = {}
  BY <1>2 DEF RoundUpSize
<1>3. CASE fitting # {}
  BY <1>1, <1>3, MinOfSet DEF RoundUpSize
<1> QED
  BY <1>2, <1>3

(* The address of a new block is not the one of another block. *)
LEMMA NewAddressIsFree ==
    ASSUME AllocTypeOK
    PROVE  NewAddress \in Nat /\ \A b \in live \cup cached : b.at # NewAddress
<1> DEFINE B == live \cup cached
           n == Cardinality(B)
           free == {a \in 1 .. (n + 1) : \A b \in B : b.at # a}
<1>1. IsFiniteSet(B) /\ n \in Nat
  BY FS_Union, FS_CardinalityType DEF AllocTypeOK
<1>2. free # {}
  <2>1. SUFFICES ASSUME free = {} PROVE FALSE
    OBVIOUS
  <2>2. \A a \in 1 .. (n + 1) : \E b \in B : b.at = a
    BY <2>1
  <2> DEFINE f == [a \in 1 .. (n + 1) |-> CHOOSE b \in B : b.at = a]
  <2> HIDE DEF B, n, free
  <2>3. \A a \in 1 .. (n + 1) : f[a] \in B /\ f[a].at = a
    BY <2>2
  <2>4. f \in [1 .. (n + 1) -> B]
    BY <2>3
  <2>5. IsFiniteSet(1 .. (n + 1)) /\ Cardinality(1 .. (n + 1)) = n + 1
    BY <1>1, FS_Interval
  <2>6. Cardinality(B) < Cardinality(1 .. (n + 1))
    BY <1>1, <2>5 DEF n
  <2> HIDE DEF f
  <2>7. PICK x, y \in 1 .. (n + 1) : x # y /\ f[x] = f[y]
    BY <1>1, <2>4, <2>5, <2>6, FS_PigeonHole
  <2> QED
    BY <2>3, <2>7
<1>3. free \in SUBSET Nat
  BY <1>1
<1>4. NewAddress = Min(free)
  BY DEF NewAddress
<1> HIDE DEF free
<1>5. NewAddress \in free
  BY <1>2, <1>3, <1>4, MinOfSet
<1> QED
  BY <1>3, <1>5 DEF free

(* Alignment only moves forward. *)
LEMMA AlignedUp == ASSUME NEW n \in Nat PROVE AlignUp(n) \in Nat /\ n <= AlignUp(n)
<1> DEFINE q == (n + Align - 1) \div Align
<1>1. Align \in Nat /\ Align > 0
  BY AllocatorAssumption
<1>2. q \in Nat
  BY <1>1
<1>3. n + Align - 1 = q * Align + ((n + Align - 1) % Align) /\ (n + Align - 1) % Align < Align
  BY <1>1
<1>4. q * Align \in Nat /\ n <= q * Align
  BY <1>1, <1>2, <1>3
<1> QED
  BY <1>4 DEF AlignUp

LEMMA CapacityOfSeq ==
    ASSUME NEW c \in Seq(Chunks)
    PROVE  /\ CapacityOf(c) \in Nat
           /\ CapacityOf(<< >>) = 0
           /\ \A x \in Chunks : CapacityOf(Append(c, x)) = CapacityOf(c) + x.capacity
           /\ \A d \in Seq(Chunks) :
                 (Len(d) = Len(c) /\ \A k \in DOMAIN c : d[k].capacity = c[k].capacity)
                     => CapacityOf(d) = CapacityOf(c)
<1> DEFINE f(e) == [k \in DOMAIN e |-> e[k].capacity]
<1>1. ASSUME NEW e \in Seq(Chunks)
      PROVE  /\ IsFiniteSet(DOMAIN e) /\ DOMAIN e = 1 .. Len(e) /\ Len(e) \in Nat
             /\ \A k \in DOMAIN e : f(e)[k] \in Nat /\ f(e)[k] = e[k].capacity
  <2>1. DOMAIN e = 1 .. Len(e) /\ Len(e) \in Nat /\ \A k \in DOMAIN e : e[k] \in Chunks
    OBVIOUS
  <2>2. IsFiniteSet(1 .. Len(e))
    BY <2>1, FS_Interval
  <2> QED
    BY <2>1, <2>2 DEF Chunks
<1> HIDE DEF f
<1>2. CapacityOf(c) = SumOf(f(c), DOMAIN c)
  BY DEF CapacityOf, f
<1>3. CapacityOf(c) \in Nat
  BY <1>1, <1>2, SumOfNat
<1>4. CapacityOf(<< >>) = 0
  <2>1. DOMAIN << >> = {}
    OBVIOUS
  <2> QED
    BY <2>1, SumOfEmpty DEF CapacityOf
<1>5. ASSUME NEW x \in Chunks PROVE CapacityOf(Append(c, x)) = CapacityOf(c) + x.capacity
  <2> DEFINE d == Append(c, x)
             n == Len(c) + 1
  <2>1. d \in Seq(Chunks) /\ Len(d) = n /\ d[n] = x /\ \A k \in DOMAIN c : d[k] = c[k]
    OBVIOUS
  <2>2. DOMAIN d = DOMAIN c \cup {n} /\ n \notin DOMAIN c
    <3>1. DOMAIN c = 1 .. Len(c) /\ Len(c) \in Nat
      BY <1>1
    <3> HIDE DEF d
    <3>2. DOMAIN d = 1 .. (Len(c) + 1)
      BY <1>1, <2>1
    <3>3. \A k : k \in 1 .. (Len(c) + 1) <=> k \in (1 .. Len(c)) \/ k = Len(c) + 1
      BY <3>1
    <3>4. Len(c) + 1 \notin 1 .. Len(c)
      BY <3>1
    <3> QED
      BY <3>1, <3>2, <3>3, <3>4
  <2> HIDE DEF d, n
  <2>3. SumOf(f(d), DOMAIN c \cup {n}) = SumOf(f(d), DOMAIN c) + f(d)[n]
    <3>1. IsFiniteSet(DOMAIN c) /\ \A k \in DOMAIN c \cup {n} : f(d)[k] \in Nat
      BY <1>1, <2>1, <2>2
    <3> HIDE DEF f
    <3> QED
      BY <2>2, <3>1, SumOfAdd
  <2>4. SumOf(f(d), DOMAIN c) = SumOf(f(c), DOMAIN c)
    <3>1. \A k \in DOMAIN c : f(d)[k] = f(c)[k]
      BY <1>1, <2>1, <2>2
    <3> QED
      BY <1>1, <3>1, SumOfSame
  <2>5. CapacityOf(d) = SumOf(f(d), DOMAIN d)
    BY DEF CapacityOf, f
  <2>6. f(d)[n] = x.capacity
    BY <1>1, <2>1, <2>2
  <2> QED
    BY <1>2, <2>2, <2>3, <2>4, <2>5, <2>6 DEF d
<1>6. ASSUME NEW d \in Seq(Chunks), Len(d) = Len(c), \A k \in DOMAIN c : d[k].capacity = c[k].capacity
      PROVE  CapacityOf(d) = CapacityOf(c)
  <2>1. DOMAIN d = DOMAIN c
    BY <1>1, <1>6
  <2>2. \A k \in DOMAIN c : f(d)[k] = f(c)[k]
    BY <1>1, <1>6, <2>1
  <2>3. SumOf(f(d), DOMAIN c) = SumOf(f(c), DOMAIN c)
    BY <1>1, <2>2, SumOfSame
  <2> QED
    BY <1>2, <2>1, <2>3 DEF CapacityOf, f
<1> QED
  BY <1>3, <1>4, <1>5, <1>6

-----------------------------------------------------------------------------
(* TensorPool *)

(* A block that is not in use yet is handed out. *)
LEMMA PoolHandsOut ==
    ASSUME AllocInv, strategy = "pool", strategy' = strategy, chunks' = chunks,
           NEW owner \in Nat, NEW n \in Nat, NEW m \in Blocks, n <= m.size,
           \A l \in live : l.at # m.at,
           live' = live \cup {m}, HandOut(owner, n, <<m.at, 0>>)
    PROVE  OneBufferEach' /\ BuffersApart'
<1> DEFINE new == [owner |-> owner, bytes |-> n, place |-> <<m.at, 0>>]
<1>1. bufs' = bufs \cup {new}
  BY DEF HandOut
<1>2. new.place[1] = m.at /\ new.bytes = n
  OBVIOUS
<1> HIDE DEF new
<1>3. ASSUME NEW b \in bufs PROVE b.place[1] # m.at /\ Holds(b)'
  <2>1. PICK l \in live : l.at = b.place[1] /\ b.bytes <= l.size
    BY DEF AllocInv, BuffersApart, Holds
  <2> QED
    BY <2>1 DEF Holds
<1>4. Holds(new)'
  BY <1>2 DEF Holds
<1>5. ASSUME NEW a \in bufs', NEW b \in bufs', a # b PROVE a.place[1] # b.place[1]
  BY <1>1, <1>2, <1>3, <1>5 DEF AllocInv, OneBufferEach
<1> QED
  BY <1>1, <1>3, <1>4, <1>5 DEF OneBufferEach, BuffersApart

LEMMA HandOutType ==
    ASSUME AllocTypeOK, NEW owner \in Nat, NEW n \in Nat, NEW x \in Nat, NEW y \in Nat,
           HandOut(owner, n, <<x, y>>)
    PROVE  bufs' \in SUBSET [owner : Nat, bytes : Nat, place : Nat \X Nat]
BY DEF AllocTypeOK, HandOut

LEMMA PoolReusesStep ==
    ASSUME AllocInv, strategy = "pool", UNCHANGED <<strategy, limit>>,
           NEW owner \in Nat, NEW n \in Nat, PoolReuses(owner, n)
    PROVE  AllocInv'
<1>1. PICK b \in Cached(n) :
          /\ cached' = cached \ {b} /\ live' = live \cup {b}
          /\ HandOut(owner, n, <<b.at, 0>>)
          /\ UNCHANGED <<used, peak, chunks>>
  BY DEF PoolReuses
<1>2. b \in cached /\ b \in Blocks /\ b \notin live /\ n <= b.size /\ b.at \in Nat
  BY RoundedUp DEF Cached, AllocInv, AllocTypeOK, BlocksApart, Blocks
<1>3. \A l \in live : l.at # b.at
  BY <1>2 DEF AllocInv, BlocksApart
<1>4. OneBufferEach' /\ BuffersApart'
  BY <1>1, <1>2, <1>3, PoolHandsOut
<1>5. IsFiniteSet(live') /\ IsFiniteSet(cached')
  BY <1>1, FS_AddElement, FS_RemoveElement DEF AllocInv, AllocTypeOK
<1>6. AllocTypeOK'
  BY <1>1, <1>2, <1>5, HandOutType DEF AllocInv, AllocTypeOK
<1>7. BlocksApart'
  BY <1>1, <1>2 DEF AllocInv, BlocksApart
<1>8. BudgetIsTrue'
  <2>1. SumSizes(live') = SumSizes(live) + b.size
    BY <1>1, <1>2, SumSizesOf DEF AllocInv, AllocTypeOK
  <2>2. SumSizes(cached) = SumSizes(cached') + b.size /\ SumSizes(cached') \in Nat
    BY <1>1, <1>2, SumSizesOf DEF AllocInv, AllocTypeOK
  <2>3. SumSizes(live) \in Nat /\ b.size \in Nat
    BY <1>2, SumSizesOf DEF AllocInv, AllocTypeOK, Blocks
  <2>4. SumChunks' = SumChunks
    BY <1>1, SumChunksIs
  <2>5. SumSizes(live') + SumSizes(cached') = SumSizes(live) + SumSizes(cached)
    BY <2>1, <2>2, <2>3
  <2> QED
    BY <1>1, <2>4, <2>5 DEF AllocInv, BudgetIsTrue
<1> QED
  BY <1>4, <1>6, <1>7, <1>8 DEF AllocInv

(* A charge that the budget allows stays below the limit and the peak. *)
LEMMA Charged ==
    ASSUME AllocInv, NEW n \in Nat, Reserves(n)
    PROVE  /\ PeakWith(n) \in Nat /\ peak <= PeakWith(n) /\ used + n <= PeakWith(n)
           /\ limit > 0 => used + n <= limit
<1>1. PeakWith(n) = IF peak >= used + n THEN peak ELSE used + n
  BY MaxOfTwo DEF AllocInv, AllocTypeOK, PeakWith
<1> QED
  BY <1>1 DEF AllocInv, AllocTypeOK, Reserves

LEMMA PoolGrowsStep ==
    ASSUME AllocInv, strategy = "pool", UNCHANGED <<strategy, limit>>,
           NEW owner \in Nat, NEW n \in Nat, PoolGrows(owner, n)
    PROVE  AllocInv'
<1> DEFINE size == RoundUpSize(n)
           m == [at |-> NewAddress, size |-> size]
<1>1. /\ Reserves(size) /\ used' = used + size /\ peak' = PeakWith(size)
      /\ live' = live \cup {m} /\ HandOut(owner, n, <<NewAddress, 0>>)
      /\ UNCHANGED <<cached, chunks>>
  BY DEF PoolGrows
<1>2. size \in Nat /\ n <= size
  BY RoundedUp
<1>3. NewAddress \in Nat /\ \A b \in live \cup cached : b.at # NewAddress
  BY NewAddressIsFree DEF AllocInv
<1>4. m \in Blocks /\ m.at = NewAddress /\ m.size = size
  BY <1>2, <1>3 DEF Blocks
<1> HIDE DEF m, size
<1>5. OneBufferEach' /\ BuffersApart'
  BY <1>1, <1>2, <1>3, <1>4, PoolHandsOut
<1>6. IsFiniteSet(live')
  BY <1>1, FS_AddElement DEF AllocInv, AllocTypeOK
<1>7. AllocTypeOK'
  <2>1. bufs' \in SUBSET [owner : Nat, bytes : Nat, place : Nat \X Nat]
    BY <1>1, <1>3, HandOutType DEF AllocInv
  <2>2. peak' \in Nat
    BY <1>1, <1>2, Charged
  <2> QED
    BY <1>1, <1>2, <1>4, <1>6, <2>1, <2>2 DEF AllocInv, AllocTypeOK
<1>8. BlocksApart'
  BY <1>1, <1>3, <1>4 DEF AllocInv, BlocksApart
<1>9. BudgetIsTrue'
  <2>1. SumSizes(live') = SumSizes(live) + size
    BY <1>1, <1>3, <1>4, SumSizesOf DEF AllocInv, AllocTypeOK
  <2>2. SumSizes(live) \in Nat /\ SumSizes(cached) \in Nat /\ SumChunks \in Nat /\ SumChunks' = SumChunks
    BY <1>1, SumSizesOf, SumChunksIs, CapacityOfSeq DEF AllocInv, AllocTypeOK
  <2>3. used' = SumSizes(live') + SumSizes(cached') + SumChunks'
    BY <1>1, <1>2, <2>1, <2>2 DEF AllocInv, BudgetIsTrue
  <2> QED
    BY <1>1, <1>2, <2>3, Charged DEF BudgetIsTrue
<1> QED
  BY <1>5, <1>7, <1>8, <1>9 DEF AllocInv

LEMMA PoolMallocFailsStep ==
    ASSUME AllocInv, UNCHANGED <<strategy, limit>>, NEW n \in Nat, PoolMallocFails(n)
    PROVE  AllocInv'
<1> DEFINE size == RoundUpSize(n)
<1>1. /\ size \in Nat /\ Reserves(size) /\ used' = (used + size) - size /\ peak' = PeakWith(size)
      /\ UNCHANGED <<live, cached, chunks, bufs>>
  BY RoundedUp DEF PoolMallocFails
<1> HIDE DEF size
<1>2. used' = used /\ used \in Nat
  BY <1>1 DEF AllocInv, AllocTypeOK
<1>3. peak' \in Nat /\ peak <= peak' /\ used <= peak'
  BY <1>1, <1>2, Charged DEF AllocInv, AllocTypeOK
<1>4. AllocTypeOK' /\ BlocksApart' /\ OneBufferEach'
  BY <1>1, <1>2, <1>3 DEF AllocInv, AllocTypeOK, BlocksApart, OneBufferEach
<1>5. BudgetIsTrue'
  BY <1>1, <1>2, <1>3, SumChunksIs DEF AllocInv, BudgetIsTrue
<1>6. BuffersApart'
  BY <1>1 DEF AllocInv, BuffersApart, Holds
<1> QED
  BY <1>4, <1>5, <1>6 DEF AllocInv

-----------------------------------------------------------------------------
(* ArenaAllocator *)

LEMMA UpToLarger ==
    ASSUME NEW a \in Nat, NEW b \in Nat, NEW c \in Nat, NEW d \in Nat, a + b <= c, c <= d
    PROVE  a + b <= d
OBVIOUS

(* A further piece of a chunk is handed out: the pieces before it end below. *)
LEMMA ArenaHandsOut ==
    ASSUME AllocInv, strategy = "arena", strategy' = strategy,
           NEW owner \in Nat, NEW n \in Nat, NEW k \in Nat, NEW at \in Nat,
           HandOut(owner, n, <<k, at>>),
           chunks' \in Seq(Chunks), DOMAIN chunks \subseteq DOMAIN chunks', k \in DOMAIN chunks',
           \A j \in DOMAIN chunks' : chunks'[j].offset <= chunks'[j].capacity,
           \A j \in DOMAIN chunks : chunks[j].offset <= chunks'[j].offset,
           k \in DOMAIN chunks => chunks[k].offset <= at,
           at + n <= chunks'[k].offset
    PROVE  OneBufferEach' /\ BuffersApart'
<1> DEFINE new == [owner |-> owner, bytes |-> n, place |-> <<k, at>>]
           Apart(a, b) == \/ a.place[1] # b.place[1]
                          \/ a.place[2] + a.bytes <= b.place[2] \/ b.place[2] + b.bytes <= a.place[2]
<1>1. bufs' = bufs \cup {new}
  BY DEF HandOut
<1>2. new.place[1] = k /\ new.place[2] = at /\ new.bytes = n
  OBVIOUS
<1> HIDE DEF new
<1>3. \A j \in DOMAIN chunks : chunks[j] \in Chunks
  BY DEF AllocInv, AllocTypeOK
<1>4. \A j \in DOMAIN chunks' : chunks'[j] \in Chunks
  OBVIOUS
<1>5. ASSUME NEW b \in bufs PROVE Holds(b)' /\ Apart(b, new)
  <2>1. b.place[1] \in DOMAIN chunks /\ b.place[2] + b.bytes <= chunks[b.place[1]].offset
    BY DEF AllocInv, BuffersApart, Holds
  <2>2. b.place[1] \in Nat /\ b.place[2] \in Nat /\ b.bytes \in Nat
    BY DEF AllocInv, AllocTypeOK
  <2>3. chunks[b.place[1]].offset \in Nat /\ chunks'[b.place[1]].offset \in Nat
    BY <1>3, <1>4, <2>1 DEF Chunks
  <2>4. chunks[b.place[1]].offset <= chunks'[b.place[1]].offset
    BY <2>1
  <2>5. b.place[2] + b.bytes <= chunks'[b.place[1]].offset
    BY <2>1, <2>2, <2>3, <2>4, UpToLarger
  <2>6. Holds(b)'
    BY <2>1, <2>5 DEF Holds
  <2>7. b.place[1] = k => b.place[2] + b.bytes <= at
    BY <2>1, <2>2, <2>3
  <2> QED
    BY <1>2, <2>6, <2>7
<1>6. Holds(new)'
  BY <1>2 DEF Holds
<1>7. ASSUME NEW a \in bufs', NEW b \in bufs', a # b PROVE Apart(a, b)
  <2>1. CASE a \in bufs /\ b \in bufs
    BY <1>7, <2>1 DEF AllocInv, BuffersApart
  <2>2. CASE a = new /\ b \in bufs
    <3>1. Apart(b, a)
      BY <1>5, <2>2
    <3> QED
      BY <3>1
  <2>3. CASE b = new /\ a \in bufs
    BY <1>5, <2>3
  <2> HIDE DEF Apart
  <2> QED
    BY <1>1, <1>7, <2>1, <2>2, <2>3
<1>8. OneBufferEach'
  BY DEF OneBufferEach
<1> QED
  BY <1>1, <1>5, <1>6, <1>7, <1>8 DEF BuffersApart

LEMMA ChunksFit ==
    ASSUME AllocInv, NEW j \in DOMAIN chunks
    PROVE  chunks[j].offset \in Nat /\ chunks[j].offset <= chunks[j].capacity
<1>1. chunks[j] \in Chunks
  BY DEF AllocInv, AllocTypeOK
<1>2. chunks[j].offset <= chunks[j].capacity
  BY DEF AllocInv, BlocksApart
<1> QED
  BY <1>1, <1>2 DEF Chunks

LEMMA ArenaBumpsStep ==
    ASSUME AllocInv, strategy = "arena", UNCHANGED <<strategy, limit>>,
           NEW owner \in Nat, NEW n \in Nat, ArenaBumps(owner, n)
    PROVE  AllocInv'
<1> DEFINE k == Len(chunks)
           at == AlignUp(chunks[k].offset)
           c == [chunks[k] EXCEPT !.offset = at + n]
<1>1. /\ chunks # << >> /\ Fits(chunks[k], n)
      /\ chunks' = [chunks EXCEPT ![k].offset = at + n]
      /\ HandOut(owner, n, <<k, at>>) /\ UNCHANGED <<used, peak, live, cached>>
  BY DEF ArenaBumps, HasRoom
<1>2. chunks \in Seq(Chunks)
  BY DEF AllocInv, AllocTypeOK
<1>3. k \in Nat /\ k \in DOMAIN chunks /\ DOMAIN chunks = 1 .. k /\ chunks[k] \in Chunks
  BY <1>1, <1>2
<1>4. at \in Nat /\ chunks[k].offset <= at /\ at + n <= chunks[k].capacity /\ chunks[k].capacity \in Nat
  BY <1>1, <1>3, AlignedUp DEF Chunks, Fits
<1>5. c \in Chunks /\ c.offset = at + n /\ c.capacity = chunks[k].capacity
  BY <1>3, <1>4 DEF Chunks
<1>6. chunks' = [chunks EXCEPT ![k] = c]
  BY <1>1, <1>3
<1> HIDE DEF k, at, c
<1>7. /\ chunks' \in Seq(Chunks) /\ DOMAIN chunks' = DOMAIN chunks /\ Len(chunks') = Len(chunks)
      /\ chunks'[k] = c /\ \A j \in DOMAIN chunks \ {k} : chunks'[j] = chunks[j]
  BY <1>2, <1>3, <1>5, <1>6
<1>8. \A j \in DOMAIN chunks : /\ chunks[j].offset \in Nat
                               /\ chunks[j].offset <= chunks'[j].offset
                               /\ chunks'[j].capacity = chunks[j].capacity
                               /\ chunks'[j].offset <= chunks'[j].capacity
  <2>1. \A j \in DOMAIN chunks : chunks[j].offset \in Nat /\ chunks[j].offset <= chunks[j].capacity
    BY ChunksFit
  <2>2. c.offset \in Nat /\ chunks[k].offset <= c.offset /\ c.offset <= c.capacity
    BY <1>4, <1>5, <2>1, <1>3
  <2> QED
    BY <1>5, <1>7, <2>1, <2>2
<1>9. OneBufferEach' /\ BuffersApart'
  <2>1. /\ DOMAIN chunks \subseteq DOMAIN chunks' /\ k \in DOMAIN chunks'
        /\ at + n <= chunks'[k].offset
    BY <1>3, <1>4, <1>5, <1>7
  <2>2. /\ \A j \in DOMAIN chunks' : chunks'[j].offset <= chunks'[j].capacity
        /\ \A j \in DOMAIN chunks : chunks[j].offset <= chunks'[j].offset
    BY <1>7, <1>8
  <2> QED
    BY <1>1, <1>3, <1>4, <1>7, <2>1, <2>2, ArenaHandsOut
<1>10. AllocTypeOK'
  BY <1>1, <1>3, <1>4, <1>7, HandOutType DEF AllocInv, AllocTypeOK
<1>11. BlocksApart'
  BY <1>1, <1>7, <1>8 DEF AllocInv, BlocksApart
<1>12. BudgetIsTrue'
  <2>1. SumChunks' = SumChunks
    BY <1>2, <1>7, <1>8, SumChunksIs, CapacityOfSeq
  <2> QED
    BY <1>1, <2>1 DEF AllocInv, BudgetIsTrue
<1> QED
  BY <1>9, <1>10, <1>11, <1>12 DEF AllocInv

LEMMA ArenaGrowsStep ==
    ASSUME AllocInv, strategy = "arena", UNCHANGED <<strategy, limit>>,
           NEW owner \in Nat, NEW n \in Nat, ArenaGrows(owner, n)
    PROVE  AllocInv'
<1> DEFINE k == Len(chunks) + 1
           size == ChunkFor(n)
           c == [capacity |-> size, offset |-> n]
<1>1. /\ Reserves(size) /\ used' = used + size /\ peak' = PeakWith(size)
      /\ chunks' = Append(chunks, c)
      /\ HandOut(owner, n, <<k, 0>>) /\ UNCHANGED <<live, cached>>
  BY DEF ArenaGrows
<1>2. chunks \in Seq(Chunks)
  BY DEF AllocInv, AllocTypeOK
<1>3. size \in Nat /\ n <= size
  BY MaxOfTwo, AllocatorAssumption DEF ChunkFor
<1>4. c \in Chunks /\ c.offset = n /\ c.capacity = size
  BY <1>3 DEF Chunks
<1> HIDE DEF size, c
<1>5. /\ chunks' \in Seq(Chunks) /\ DOMAIN chunks = 1 .. Len(chunks) /\ Len(chunks) \in Nat
      /\ Len(chunks') = k /\ DOMAIN chunks' = 1 .. k
      /\ chunks'[k] = c /\ \A j \in DOMAIN chunks : chunks'[j] = chunks[j]
  BY <1>1, <1>2, <1>4, AppendProperties
<1>6. k \in Nat /\ k \in DOMAIN chunks' /\ k \notin DOMAIN chunks /\ DOMAIN chunks \subseteq DOMAIN chunks'
      /\ \A j \in DOMAIN chunks' : j = k \/ j \in DOMAIN chunks
  BY <1>5
<1> HIDE DEF k
<1>7. /\ \A j \in DOMAIN chunks : chunks[j].offset <= chunks'[j].offset
      /\ \A j \in DOMAIN chunks' : chunks'[j].offset <= chunks'[j].capacity
  <2>1. \A j \in DOMAIN chunks : chunks[j].offset \in Nat /\ chunks[j].offset <= chunks[j].capacity
    BY ChunksFit
  <2> QED
    BY <1>3, <1>4, <1>5, <1>6, <2>1
<1>8. OneBufferEach' /\ BuffersApart'
  <2>1. 0 + n <= chunks'[k].offset
    BY <1>4, <1>5
  <2> QED
    BY <1>1, <1>5, <1>6, <1>7, <2>1, ArenaHandsOut
<1>9. AllocTypeOK'
  <2>1. bufs' \in SUBSET [owner : Nat, bytes : Nat, place : Nat \X Nat]
    BY <1>1, <1>6, HandOutType DEF AllocInv
  <2>2. peak' \in Nat
    BY <1>1, <1>3, Charged
  <2> QED
    BY <1>1, <1>3, <1>5, <2>1, <2>2 DEF AllocInv, AllocTypeOK
<1>10. BlocksApart'
  BY <1>1, <1>7 DEF AllocInv, BlocksApart
<1>11. BudgetIsTrue'
  <2>1. SumChunks' = SumChunks + size /\ SumChunks \in Nat
    BY <1>1, <1>2, <1>4, SumChunksIs, CapacityOfSeq
  <2>2. SumSizes(live) \in Nat /\ SumSizes(cached) \in Nat
    BY SumSizesOf DEF AllocInv, AllocTypeOK
  <2>3. used' = SumSizes(live') + SumSizes(cached') + SumChunks'
    BY <1>1, <1>3, <2>1, <2>2 DEF AllocInv, BudgetIsTrue
  <2> QED
    BY <1>1, <1>3, <2>3, Charged DEF BudgetIsTrue
<1> QED
  BY <1>8, <1>9, <1>10, <1>11 DEF AllocInv

-----------------------------------------------------------------------------
(* Allocator *)
LEMMA AllocateStep ==
    ASSUME AllocInv, NEW owner \in Nat, NEW n \in Nat,
           AllocateBytes(owner, n) \/ BudgetRefuses(n) \/ MallocFails(n)
    PROVE  AllocInv'
<1>1. CASE BudgetRefuses(n)
  BY <1>1, SumChunksIs
     DEF BudgetRefuses, allocVars, AllocInv, AllocTypeOK, BlocksApart, OneBufferEach, BudgetIsTrue,
         BuffersApart, Holds
<1>2. CASE MallocFails(n)
  BY <1>2, PoolMallocFailsStep DEF MallocFails
<1>3. CASE AllocateBytes(owner, n)
  BY <1>3, PoolReusesStep, PoolGrowsStep, ArenaBumpsStep, ArenaGrowsStep DEF AllocateBytes
<1> QED
  BY <1>1, <1>2, <1>3

LEMMA DeallocateStep == ASSUME AllocInv, NEW b \in bufs, DeallocateBytes(b) PROVE AllocInv'
<1> DEFINE mine == IF strategy = "pool" THEN {m \in live : m.at = b.place[1]} ELSE {}
<1>1. /\ live' = live \ mine /\ cached' = cached \cup mine /\ bufs' = bufs \ {b}
      /\ UNCHANGED <<strategy, limit, used, peak, chunks>>
  BY DEF DeallocateBytes
<1>2. mine = {} \/ (strategy = "pool" /\ \E m \in live : mine = {m} /\ m.at = b.place[1])
  <2>1. \A l, m \in live : l.at = m.at => l = m
    BY DEF AllocInv, BlocksApart
  <2> QED
    BY <2>1
<1>3. \A m \in mine : m \in live /\ m \notin cached /\ m \in Blocks /\ strategy = "pool"
                      /\ m.at = b.place[1]
  BY DEF AllocInv, BlocksApart, AllocTypeOK
<1> HIDE DEF mine
<1>4. AllocTypeOK'
  <2>1. IsFiniteSet(mine)
    BY <1>2, FS_EmptySet, FS_Singleton
  <2>2. IsFiniteSet(live') /\ IsFiniteSet(cached')
    BY <1>1, <2>1, FS_Difference, FS_Union DEF AllocInv, AllocTypeOK
  <2> QED
    BY <1>1, <1>3, <2>2 DEF AllocInv, AllocTypeOK
<1>5. BlocksApart'
  BY <1>1, <1>3 DEF AllocInv, BlocksApart
<1>6. OneBufferEach'
  BY <1>1 DEF AllocInv, OneBufferEach
<1>7. BudgetIsTrue'
  <2>1. SumSizes(live') + SumSizes(cached') = SumSizes(live) + SumSizes(cached)
    <3>1. CASE mine = {}
      <4>1. live' = live /\ cached' = cached
        BY <1>1, <3>1
      <4> QED
        BY <4>1
    <3>2. CASE mine # {}
      <4>1. PICK m \in live : mine = {m}
        BY <1>2, <3>2
      <4>2. m \in Blocks /\ m \notin cached /\ m.size \in Nat
        BY <1>3, <4>1 DEF Blocks
      <4>3. live' = live \ {m} /\ cached' = cached \cup {m}
        BY <1>1, <4>1
      <4>4. SumSizes(live) = SumSizes(live') + m.size /\ SumSizes(live') \in Nat
        BY <4>3, SumSizesOf DEF AllocInv, AllocTypeOK
      <4>5. SumSizes(cached') = SumSizes(cached) + m.size /\ SumSizes(cached) \in Nat
        BY <4>2, <4>3, SumSizesOf DEF AllocInv, AllocTypeOK
      <4> QED
        BY <4>2, <4>4, <4>5
    <3> QED
      BY <3>1, <3>2
  <2>2. SumChunks' = SumChunks
    BY <1>1, SumChunksIs
  <2> QED
    BY <1>1, <2>1, <2>2 DEF AllocInv, BudgetIsTrue
<1>8. BuffersApart'
  <2>1. ASSUME NEW a \in bufs, a # b PROVE Holds(a)'
    <3>1. CASE strategy = "pool"
      <4>1. PICK m \in live : m.at = a.place[1] /\ a.bytes <= m.size
        BY <3>1 DEF AllocInv, BuffersApart, Holds
      <4>2. a.place[1] # b.place[1]
        BY <2>1, <3>1 DEF AllocInv, OneBufferEach
      <4>3. m \in live'
        BY <1>1, <1>3, <4>1, <4>2
      <4> QED
        BY <1>1, <3>1, <4>1, <4>3 DEF Holds
    <3>2. CASE strategy # "pool"
      BY <1>1, <3>2 DEF AllocInv, BuffersApart, Holds
    <3> QED
      BY <3>1, <3>2
  <2> QED
    BY <1>1, <2>1 DEF AllocInv, BuffersApart
<1> QED
  BY <1>4, <1>5, <1>6, <1>7, <1>8 DEF AllocInv

(* An allocator that holds nothing: a new one, or one that was reset. *)
Unused == live = {} /\ cached = {} /\ chunks = << >> /\ bufs = {} /\ used = 0

LEMMA UnusedInv == Unused /\ strategy \in {"pool", "arena"} /\ limit \in Nat /\ peak = 0 => AllocInv
<1> SUFFICES ASSUME Unused, strategy \in {"pool", "arena"}, limit \in Nat, peak = 0 PROVE AllocInv
  OBVIOUS
<1> USE DEF Unused
<1>1. AllocTypeOK
  BY FS_EmptySet DEF AllocTypeOK
<1>2. BlocksApart /\ OneBufferEach /\ BuffersApart
  BY DEF BlocksApart, OneBufferEach, BuffersApart
<1>3. SumSizes({}) = 0 /\ SumChunks = 0
  BY <1>1, SumSizesOf, SumChunksIs, CapacityOfSeq DEF AllocTypeOK
<1> QED
  BY <1>1, <1>2, <1>3 DEF AllocInv, BudgetIsTrue

LEMMA ResetStep == ASSUME AllocInv, ResetAllocator PROVE AllocInv' /\ used' = 0 /\ limit' = 0
<1>1. SumSizes(live) \in Nat /\ SumSizes(cached) \in Nat /\ SumSizes({}) = 0
  BY SumSizesOf DEF AllocInv, AllocTypeOK
<1>2. SumChunks \in Nat /\ (chunks = << >> => SumChunks = 0)
  BY SumChunksIs, CapacityOfSeq DEF AllocInv, AllocTypeOK
<1>3. used = IF strategy = "pool" THEN SumSizes(live) + SumSizes(cached) ELSE SumChunks
  <2>1. used = SumSizes(live) + SumSizes(cached) + SumChunks
    BY DEF AllocInv, BudgetIsTrue
  <2>2. CASE strategy = "pool"
    <3>1. SumChunks = 0
      BY <1>2, <2>2 DEF AllocInv, BlocksApart
    <3> QED
      BY <1>1, <2>1, <2>2, <3>1
  <2>3. CASE strategy = "arena"
    <3>1. SumSizes(live) = 0 /\ SumSizes(cached) = 0
      BY <1>1, <2>3 DEF AllocInv, BlocksApart
    <3> QED
      BY <1>2, <2>1, <2>3, <3>1
  <2> QED
    BY <2>2, <2>3 DEF AllocInv, AllocTypeOK
<1>4. used' = 0
  BY <1>1, <1>2, <1>3 DEF ResetAllocator, Released
<1>5. Unused' /\ strategy' \in {"pool", "arena"} /\ limit' = 0 /\ peak' = 0
  BY <1>4 DEF ResetAllocator, Unused
<1>6. (Unused /\ strategy \in {"pool", "arena"} /\ limit \in Nat /\ peak = 0)'
  BY <1>5
<1>7. AllocInv'
  BY <1>6, UnusedInv, PTL
<1> QED
  BY <1>4, <1>5, <1>7

-----------------------------------------------------------------------------
(* Memory presets *)
LEMMA PresetType ==
    ASSUME NEW p \in PresetNames
    PROVE  /\ PresetConfig(p) \in Configs /\ PresetConfig(p).preset = p
           /\ p = "phone" => PresetConfig(p).budget = 2 * GiB
<1> USE PlanAssumption DEF PresetConfig, Configs, PresetNames
<1>1. CASE p = "laptop"
  BY <1>1
<1>2. CASE p = "desktop"
  BY <1>2
<1>3. CASE p = "server"
  BY <1>3
<1>4. CASE p = "phone"
  BY <1>4
<1>5. CASE p = "none"
  <2> DEFINE c == [preset |-> p, budget |-> 0, pin_layers |-> 0, expert_cache |-> 0,
                   kv_window |-> 0, streaming |-> TRUE, single |-> FALSE]
  <2>1. PresetConfig(p) = [c EXCEPT !.streaming = FALSE]
    BY <1>5
  <2>2. c \in Configs /\ c.preset = p
    OBVIOUS
  <2> HIDE DEF c
  <2>3. [c EXCEPT !.streaming = FALSE] \in Configs /\ [c EXCEPT !.streaming = FALSE].preset = p
    BY <2>2
  <2> QED
    BY <1>5, <2>1, <2>3
<1> QED
  BY <1>1, <1>2, <1>3, <1>4, <1>5

LEMMA OverriddenType ==
    ASSUME NEW c \in Configs, NEW gb \in Nat
    PROVE  /\ Overridden(c, gb) \in Configs /\ Overridden(c, gb).preset = c.preset
           /\ c.budget > 0 => Overridden(c, gb).budget > 0
<1>1. gb * GiB \in Nat /\ (gb # 0 => gb * GiB > 0)
  BY PlanAssumption
<1> DEFINE b == gb * GiB
<1>2. b \in Nat /\ (gb # 0 => b > 0)
  BY <1>1
<1>3. Overridden(c, gb) = IF gb = 0 THEN c ELSE [c EXCEPT !.budget = b, !.streaming = TRUE]
  BY DEF Overridden
<1> HIDE DEF b
<1> QED
  BY <1>2, <1>3 DEF Configs

LEMMA ClampedType ==
    ASSUME NEW c \in Configs, NEW a \in Nat
    PROVE  /\ Clamped(c, a) \in Configs /\ Clamped(c, a).preset = c.preset
           /\ c.preset = "phone" /\ c.budget > 0 /\ a > 1
                 => 0 < Clamped(c, a).budget /\ 2 * Clamped(c, a).budget <= a
<1> DEFINE cap == IF c.preset = "phone" THEN ClampBudgetToAvailable(c.budget, a) ELSE Min({c.budget, a})
<1>1. /\ c.budget \in Nat /\ c.expert_cache \in Nat /\ c.kv_window \in Nat
      /\ c.pin_layers \in Nat /\ c.streaming \in BOOLEAN /\ c.single \in BOOLEAN /\ c.preset \in PresetNames
  BY DEF Configs
<1>2. a \div 2 \in Nat /\ 2 * (a \div 2) <= a /\ (a > 1 => a \div 2 > 0)
  OBVIOUS
<1>3. cap \in Nat
  BY <1>1, <1>2, MinOfTwo DEF ClampBudgetToAvailable
<1>4. c.preset = "phone" => cap = IF c.budget <= a \div 2 THEN c.budget ELSE a \div 2
  BY <1>1, <1>2, MinOfTwo DEF ClampBudgetToAvailable
<1> HIDE DEF cap
<1>5. cap \div 8 \in Nat
  BY <1>3
<1>6. Min({c.expert_cache, cap \div 8}) \in Nat
  BY <1>1, <1>5, MinOfTwo
<1>7. ClampedWindow(c.kv_window, cap) \in Nat
  BY <1>1, MinOfTwo DEF ClampedWindow
<1> DEFINE e == Min({c.expert_cache, cap \div 8})
           v == ClampedWindow(c.kv_window, cap)
           small == [c EXCEPT !.budget = cap, !.kv_window = v, !.expert_cache = e]
<1>8. Clamped(c, a) = IF a = 0 \/ c.budget = 0 \/ c.budget <= cap THEN c ELSE small
  BY DEF Clamped, cap, Configs
<1>9. e \in Nat /\ v \in Nat
  BY <1>6, <1>7
<1> HIDE DEF e, v
<1>10. small \in Configs /\ small.preset = c.preset /\ small.budget = cap
  BY <1>3, <1>9 DEF Configs
<1> HIDE DEF small
<1>11. c.preset = "phone" /\ c.budget > 0 /\ a > 1 => 0 < cap /\ 2 * cap <= a
  BY <1>1, <1>2, <1>4
<1>12. c.preset = "phone" /\ a > 1 /\ c.budget <= cap => 2 * c.budget <= a
  BY <1>1, <1>2, <1>4
<1> QED
  BY <1>8, <1>10, <1>11, <1>12

LEMMA ArgsType ==
    ASSUME NEW args \in ArgTypes, NEW a \in Nat
    PROVE  LET c == ParseMemoryArgs(args, a) IN
           /\ c \in Configs
           /\ c.preset = "phone" /\ a > 1 => 0 < c.budget /\ 2 * c.budget <= a
<1> DEFINE o == Overridden(PresetConfig(args.preset), args.ram_gb)
           c == Clamped(o, a)
           d == ParseMemoryArgs(args, a)
<1>1. args.preset \in PresetNames /\ args.ram_gb \in Nat /\ args.stream \in BOOLEAN /\ args.pin \in Nat
  BY DEF ArgTypes
<1>2. o \in Configs /\ o.preset = args.preset /\ (args.preset = "phone" => o.budget > 0)
  <2>1. GiB > 0 /\ GiB \in Nat
    BY PlanAssumption
  <2> DEFINE q == PresetConfig(args.preset)
  <2>2. q \in Configs /\ q.preset = args.preset /\ (args.preset = "phone" => q.budget = 2 * GiB)
    BY <1>1, PresetType
  <2> HIDE DEF q
  <2>3. args.preset = "phone" => q.budget > 0
    BY <2>1, <2>2
  <2>4. o = Overridden(q, args.ram_gb)
    BY DEF q
  <2> HIDE DEF o
  <2> QED
    BY <1>1, <2>2, <2>3, <2>4, OverriddenType
<1> HIDE DEF o
<1>3. /\ c \in Configs /\ c.preset = o.preset
      /\ o.preset = "phone" /\ o.budget > 0 /\ a > 1 => 0 < c.budget /\ 2 * c.budget <= a
  BY <1>2, ClampedType
<1>4. d = [c EXCEPT !.streaming = @ \/ args.stream,
                    !.pin_layers = IF args.pin = NoLayer THEN @ ELSE args.pin]
  BY DEF ParseMemoryArgs, ResolveMemoryPreset, o
<1> HIDE DEF c, d
<1>5. d \in Configs /\ d.preset = c.preset /\ d.budget = c.budget
  BY <1>1, <1>3, <1>4 DEF Configs
<1> QED
  BY <1>2, <1>3, <1>5 DEF d

-----------------------------------------------------------------------------
(* Bytes of weights *)
LEMMA ResidentNat == ASSUME NEW w \in WeightTypes PROVE ResidentBytes(w) \in Nat
BY DEF WeightTypes, ResidentBytes

LEMMA SumBytesOf ==
    ASSUME NEW W, W \subseteq WeightTypes, IsFiniteSet(W)
    PROVE  SumBytes(W) \in Nat /\ SumBytes({}) = 0 /\ \A w \in W : ResidentBytes(w) <= SumBytes(W)
<1> DEFINE f == [w \in W |-> ResidentBytes(w)]
<1>1. \A w \in W : f[w] = ResidentBytes(w) /\ f[w] \in Nat
  BY ResidentNat
<1>2. SumBytes(W) = SumOf(f, W) /\ SumBytes({}) = 0
  BY SumBytesIs, SumOfEmpty
<1> HIDE DEF f
<1>3. SumBytes(W) \in Nat
  BY <1>1, <1>2, SumOfNat
<1>4. ASSUME NEW w \in W PROVE ResidentBytes(w) <= SumBytes(W)
  <2>1. SumOf(f, W) = f[w] + SumOf(f, W \ {w})
    BY <1>1, SumOfRemove
  <2>2. IsFiniteSet(W \ {w})
    BY FS_RemoveElement
  <2>3. SumOf(f, W \ {w}) \in Nat
    BY <1>1, <2>2, SumOfNat
  <2> QED
    BY <1>1, <1>2, <2>1, <2>3
<1> QED
  BY <1>2, <1>3, <1>4

LEMMA LargestOf ==
    ASSUME NEW W, W \subseteq WeightTypes, IsFiniteSet(W)
    PROVE  Largest(W) \in Nat /\ \A w \in W : ResidentBytes(w) <= Largest(W)
<1> DEFINE S == {ResidentBytes(w) : w \in W}
<1>1. CASE W = {}
  BY <1>1 DEF Largest
<1>2. CASE W # {}
  <2>1. S \in SUBSET Nat /\ S # {} /\ \A x \in S : x <= SumBytes(W)
    BY <1>2, ResidentNat, SumBytesOf
  <2>2. Largest(W) = Max(S)
    BY <1>2 DEF Largest
  <2>3. \A w \in W : ResidentBytes(w) \in S
    OBVIOUS
  <2> HIDE DEF S
  <2>4. Max(S) \in S /\ \A y \in S : Max(S) >= y
    BY <2>1, MaxOfSet, SumBytesOf
  <2> QED
    BY <2>1, <2>2, <2>3, <2>4
<1> QED
  BY <1>1, <1>2

-----------------------------------------------------------------------------
(* The dial *)
LEMMA PinnedParts ==
    ASSUME NEW W, W \subseteq WeightTypes, IsFiniteSet(W), NEW d
    PROVE  /\ Pinned(W, d) \subseteq W /\ Streamed(W, d) \subseteq W
           /\ IsFiniteSet(Pinned(W, d)) /\ IsFiniteSet(Streamed(W, d))
           /\ W \ Streamed(W, d) = Pinned(W, d) /\ Experts(W) \subseteq Streamed(W, d)
           /\ SumBytes(Pinned(W, d)) \in Nat /\ Largest(Streamed(W, d)) \in Nat
<1>1. Pinned(W, d) \subseteq W /\ Streamed(W, d) \subseteq W
  BY DEF Pinned, Streamed
<1>2. IsFiniteSet(Pinned(W, d)) /\ IsFiniteSet(Streamed(W, d))
  BY <1>1, FS_Subset
<1>3. W \ Streamed(W, d) = Pinned(W, d)
  BY DEF Pinned, Streamed
<1>4. Experts(W) \subseteq Streamed(W, d)
  BY DEF Experts, Streamed, Pinned, WouldPin
<1>5. SumBytes(Pinned(W, d)) \in Nat /\ Largest(Streamed(W, d)) \in Nat
  BY <1>1, <1>2, SumBytesOf, LargestOf
<1> QED
  BY <1>1, <1>2, <1>3, <1>4, <1>5

LEMMA NeedNat ==
    ASSUME NEW W, W \subseteq WeightTypes, IsFiniteSet(W), NEW c \in Configs, NEW d
    PROVE  /\ Slots(c) \in {1, 2} /\ Need(W, c, d) \in Nat
           /\ Need(W, c, d) = SumBytes(Pinned(W, d)) + Slots(c) * Largest(Streamed(W, d))
<1>1. Slots(c) \in {1, 2}
  BY DEF Slots
<1>2. SumBytes(Pinned(W, d)) \in Nat /\ Largest(Streamed(W, d)) \in Nat
  BY PinnedParts
<1> DEFINE p == SumBytes(Pinned(W, d))
           l == Largest(Streamed(W, d))
           n == Slots(c)
<1>3. Need(W, c, d) = p + l * n
  BY DEF Need
<1>4. n \in {1, 2} /\ p \in Nat /\ l \in Nat
  BY <1>1, <1>2
<1> HIDE DEF p, l, n
<1>5. p + l * n = p + n * l /\ p + l * n \in Nat
  BY <1>4
<1> QED
  BY <1>1, <1>3, <1>5 DEF p, l, n

LEMMA PlaceIs ==
    ASSUME NEW c \in Configs, NEW d
    PROVE  d \in Places(c) <=> /\ d = [layers |-> d.layers, lm |-> d.lm, embed |-> d.embed]
                               /\ d.layers \in 0 .. c.pin_layers /\ d.lm \in BOOLEAN /\ d.embed \in BOOLEAN
                               /\ (d.layers > 0 => d.lm) /\ (d.lm => d.embed)
<1>1. c.pin_layers \in Nat
  BY DEF Configs
<1>2. ASSUME d \in Places(c)
      PROVE  /\ d = [layers |-> d.layers, lm |-> d.lm, embed |-> d.embed]
             /\ d.layers \in 0 .. c.pin_layers /\ d.lm \in BOOLEAN /\ d.embed \in BOOLEAN
             /\ (d.layers > 0 => d.lm) /\ (d.lm => d.embed)
  <2>1. CASE \E k \in 0 .. c.pin_layers : d = [layers |-> k, lm |-> TRUE, embed |-> TRUE]
    BY <2>1
  <2>2. CASE \E e \in BOOLEAN : d = [layers |-> 0, lm |-> FALSE, embed |-> e]
    BY <1>1, <2>2
  <2> QED
    BY <1>2, <2>1, <2>2 DEF Places
<1>3. ASSUME d = [layers |-> d.layers, lm |-> d.lm, embed |-> d.embed],
             d.layers \in 0 .. c.pin_layers, d.lm \in BOOLEAN, d.embed \in BOOLEAN,
             d.layers > 0 => d.lm, d.lm => d.embed
      PROVE  d \in Places(c)
  <2>1. CASE d.lm = TRUE
    BY <1>3, <2>1 DEF Places
  <2>2. CASE d.lm = FALSE
    <3>1. d.layers = 0
      BY <1>1, <1>3, <2>2
    <3> QED
      BY <1>3, <2>2, <3>1 DEF Places
  <2> QED
    BY <1>3, <2>1, <2>2
<1> QED
  BY <1>2, <1>3

(* A turn gives up one thing: the places before it are those that keep more. *)
LEMMA TurnIsNext ==
    ASSUME NEW c \in Configs, NEW d \in Places(c), ~ DialAtEnd(d)
    PROVE  /\ DialTurned(d) \in Places(c)
           /\ \A e \in Places(c) : KeepsMore(e, DialTurned(d)) => e = d \/ KeepsMore(e, d)
           /\ (c.pin_layers - DialTurned(d).layers) + (IF DialTurned(d).lm THEN 0 ELSE 1)
                    + (IF DialTurned(d).embed THEN 0 ELSE 1)
                 = (c.pin_layers - d.layers) + (IF d.lm THEN 0 ELSE 1) + (IF d.embed THEN 0 ELSE 1) + 1
<1> DEFINE t == DialTurned(d)
<1>1. /\ d = [layers |-> d.layers, lm |-> d.lm, embed |-> d.embed] /\ c.pin_layers \in Nat
      /\ d.layers \in 0 .. c.pin_layers /\ d.lm \in BOOLEAN /\ d.embed \in BOOLEAN
      /\ (d.layers > 0 => d.lm) /\ (d.lm => d.embed)
  BY PlaceIs DEF Configs
<1>2. t = IF d.layers > 0 THEN [layers |-> d.layers - 1, lm |-> TRUE, embed |-> TRUE]
          ELSE IF d.lm THEN [layers |-> 0, lm |-> FALSE, embed |-> TRUE]
          ELSE [layers |-> 0, lm |-> FALSE, embed |-> FALSE]
  <2>0. d \in [layers : Nat, lm : BOOLEAN, embed : BOOLEAN]
    BY <1>1
  <2>1. CASE d.layers > 0
    <3>1. d.lm = TRUE /\ d.embed = TRUE
      BY <1>1, <2>1
    <3>2. t = [d EXCEPT !.layers = d.layers - 1]
      BY <2>1 DEF DialTurned
    <3> QED
      BY <2>0, <2>1, <3>1, <3>2
  <2>2. CASE ~ (d.layers > 0) /\ d.lm
    <3>1. d.layers = 0 /\ d.embed = TRUE
      BY <1>1, <2>2
    <3>2. t = [d EXCEPT !.lm = FALSE]
      BY <2>2 DEF DialTurned
    <3> QED
      BY <2>0, <2>2, <3>1, <3>2
  <2>3. CASE ~ (d.layers > 0) /\ ~ d.lm
    <3>1. d.layers = 0 /\ d.lm = FALSE
      BY <1>1, <2>3
    <3>2. t = [d EXCEPT !.embed = FALSE]
      BY <2>3 DEF DialTurned
    <3> QED
      BY <2>0, <2>3, <3>1, <3>2
  <2> QED
    BY <2>1, <2>2, <2>3
<1>3. ~ (d.layers > 0) => d.layers = 0
  BY <1>1
<1>4. ~ (d.layers > 0) /\ ~ d.lm => d.embed
  BY <1>3 DEF DialAtEnd
<1> HIDE DEF t
<1>5. t \in Places(c)
  <2>1. CASE d.layers > 0
    <3>1. d.layers - 1 \in 0 .. c.pin_layers
      BY <1>1, <2>1
    <3> QED
      BY <1>2, <2>1, <3>1, PlaceIs
  <2>2. CASE ~ (d.layers > 0)
    <3>1. 0 \in 0 .. c.pin_layers
      BY <1>1
    <3>2. PICK b \in BOOLEAN : t = [layers |-> 0, lm |-> FALSE, embed |-> b]
      BY <1>2, <2>2
    <3>3. t.layers = 0 /\ t.lm = FALSE /\ t.embed = b
      BY <3>2
    <3>4. ~ (0 > 0)
      OBVIOUS
    <3> QED
      BY <3>1, <3>2, <3>3, <3>4, PlaceIs
  <2> QED
    BY <2>1, <2>2
<1>6. ASSUME NEW e \in Places(c), KeepsMore(e, t), e # d PROVE KeepsMore(e, d)
  <2>1. /\ e = [layers |-> e.layers, lm |-> e.lm, embed |-> e.embed]
        /\ e.layers \in 0 .. c.pin_layers /\ e.lm \in BOOLEAN /\ e.embed \in BOOLEAN
        /\ (e.layers > 0 => e.lm) /\ (e.lm => e.embed)
    BY PlaceIs
  <2>2. e # t /\ e.layers >= t.layers /\ (t.lm => e.lm) /\ (t.embed => e.embed)
    BY <1>6 DEF KeepsMore
  <2>3. CASE d.layers > 0
    <3>1. t.layers = d.layers - 1 /\ t.lm = TRUE /\ t.embed = TRUE
      BY <1>2, <2>3
    <3>2. e.lm = TRUE /\ e.embed = TRUE
      BY <2>1, <2>2, <3>1
    <3>3. e.layers # d.layers - 1
      BY <1>2, <2>1, <2>2, <2>3, <3>2
    <3> QED
      BY <1>1, <1>6, <2>1, <2>2, <2>3, <3>1, <3>2, <3>3 DEF KeepsMore
  <2>4. CASE ~ (d.layers > 0) /\ d.lm
    <3>1. t = [layers |-> 0, lm |-> FALSE, embed |-> TRUE]
      BY <1>2, <2>4
    <3>2. e.embed = TRUE
      BY <2>1, <2>2, <3>1
    <3>3. e.lm = TRUE
      <4>1. e.lm = FALSE => e.layers = 0
        BY <1>1, <2>1
      <4> QED
        BY <2>1, <2>2, <3>1, <3>2, <4>1
    <3> QED
      BY <1>1, <1>3, <1>6, <2>1, <2>4, <3>2, <3>3 DEF KeepsMore
  <2>5. CASE ~ (d.layers > 0) /\ ~ d.lm
    <3>1. t = [layers |-> 0, lm |-> FALSE, embed |-> FALSE]
      BY <1>2, <2>5
    <3>2. e.embed = TRUE
      <4>1. e.embed = FALSE => e.lm = FALSE /\ e.layers = 0
        BY <1>1, <2>1
      <4> QED
        BY <2>1, <2>2, <3>1, <4>1
    <3> QED
      BY <1>1, <1>3, <1>6, <2>1, <2>5, <3>2 DEF KeepsMore
  <2> QED
    BY <2>3, <2>4, <2>5
<1>7. (c.pin_layers - t.layers) + (IF t.lm THEN 0 ELSE 1) + (IF t.embed THEN 0 ELSE 1)
         = (c.pin_layers - d.layers) + (IF d.lm THEN 0 ELSE 1) + (IF d.embed THEN 0 ELSE 1) + 1
  <2>1. CASE d.layers > 0
    BY <1>1, <1>2, <2>1
  <2>2. CASE ~ (d.layers > 0) /\ d.lm
    BY <1>1, <1>2, <1>3, <2>2
  <2>3. CASE ~ (d.layers > 0) /\ ~ d.lm
    BY <1>1, <1>2, <1>3, <1>4, <2>3
  <2> QED
    BY <2>1, <2>2, <2>3
<1> QED
  BY <1>5, <1>6, <1>7 DEF t

-----------------------------------------------------------------------------
(* The session *)
LEMMA ModelWeights ==
    ASSUME OwnTypeOK PROVE model.weights \subseteq WeightTypes /\ IsFiniteSet(model.weights)
BY MemoryAssumption DEF OwnTypeOK

LEMMA NextAskedIs ==
    ASSUME OwnTypeOK, todo # {}
    PROVE  NextAsked \in todo /\ NextAsked.id \in Nat /\ NextAsked.bytes \in Nat
<1> DEFINE ids == {t.id : t \in todo}
<1>1. todo \subseteq [id : Nat, bytes : Nat]
  BY DEF OwnTypeOK
<1>2. ids \in SUBSET Nat /\ ids # {}
  BY <1>1
<1>3. PICK x \in ids : \A y \in ids : x <= y
  <2> HIDE DEF ids
  <2> QED
    BY <1>2, LeastNat
<1>4. PICK t \in todo : t.id = x
  BY <1>3
<1>5. \A u \in todo : t.id <= u.id
  BY <1>3, <1>4
<1>6. NextAsked \in todo
  BY <1>5 DEF NextAsked
<1> QED
  BY <1>1, <1>6

LEMMA AllocUnchanged == ASSUME AllocInv, UNCHANGED allocVars PROVE AllocInv'
BY SumChunksIs DEF allocVars, AllocInv, AllocTypeOK, BlocksApart, OneBufferEach, BudgetIsTrue, BuffersApart, Holds

LEMMA PlaceAllocates == ASSUME OwnTypeOK, Place PROVE AllocInv'
<1>1. PICK st \in Strategies : NewAllocator(st, cfg.budget)
  BY DEF Place
<1>2. cfg.budget \in Nat /\ st \in {"pool", "arena"}
  BY MemoryAssumption DEF OwnTypeOK, Configs
<1>3. (Unused /\ strategy \in {"pool", "arena"} /\ limit \in Nat /\ peak = 0)'
  BY <1>1, <1>2 DEF NewAllocator, Unused
<1> QED
  BY <1>3, UnusedInv, PTL

(* Nothing is left of the session an arena threw out of. *)
LEMMA ArenaThrowsEmpties ==
    ASSUME ArenaThrows PROVE AllocInv' /\ used' = 0 /\ limit' = 0
<1>1. NewAllocator("pool", 0)
  BY DEF ArenaThrows
<1>2. (Unused /\ strategy \in {"pool", "arena"} /\ limit \in Nat /\ peak = 0)'
  BY <1>1 DEF NewAllocator, Unused
<1> QED
  BY <1>1, <1>2, UnusedInv, PTL DEF NewAllocator

LEMMA AllocInvStep == AllocInv /\ MemoryInv /\ [Next]_memoryVars => AllocInv'
<1> SUFFICES ASSUME AllocInv, MemoryInv, [Next]_memoryVars PROVE AllocInv'
  OBVIOUS
<1>1. OwnTypeOK
  BY DEF MemoryInv
<1>2. ASSUME Create \/ DialTurns \/ DialEnds \/ WeightsLoaded \/ Destroy PROVE AllocInv'
  BY <1>2, AllocUnchanged DEF Create, DialTurns, DialEnds, WeightsLoaded, Destroy
<1>3. CASE Place
  BY <1>1, <1>3, PlaceAllocates
<1>4. ASSUME AllocateSlot \/ AllocateFails PROVE AllocInv'
  <2>1. /\ todo # {}
        /\ \/ AllocateBytes(NextAsked.id, NextAsked.bytes) \/ BudgetRefuses(NextAsked.bytes)
           \/ MallocFails(NextAsked.bytes)
    BY <1>4 DEF AllocateSlot, AllocateFails
  <2> QED
    BY <1>1, <2>1, NextAskedIs, AllocateStep
<1>5. CASE BackendAllocate
  <2>1. PICK o \in Orphans :
           AllocateBytes(o.id, o.bytes) \/ BudgetRefuses(o.bytes) \/ MallocFails(o.bytes)
    BY <1>5 DEF BackendAllocate
  <2>2. o.id \in Nat /\ o.bytes \in Nat
    BY MemoryAssumption
  <2> QED
    BY <2>1, <2>2, AllocateStep
<1>6. ASSUME BackendFree \/ DestroyFrees PROVE AllocInv'
  <2>1. \E b \in bufs : DeallocateBytes(b)
    BY <1>6 DEF BackendFree, DestroyFrees, Owned
  <2> QED
    BY <2>1, DeallocateStep
<1>7. CASE DestroyEnds
  BY <1>7, ResetStep DEF DestroyEnds
<1>8. CASE UNCHANGED memoryVars
  BY <1>8, AllocUnchanged DEF memoryVars
<1>9. CASE ArenaThrows
  BY <1>9, ArenaThrowsEmpties
<1> QED
  BY <1>2, <1>3, <1>4, <1>5, <1>6, <1>7, <1>8, <1>9 DEF Next

-----------------------------------------------------------------------------
(* Nothing keeps more than the full dial. *)
LEMMA FullDialIsFirst ==
    ASSUME NEW c \in Configs
    PROVE  FullDial(c) \in Places(c) /\ \A d \in Places(c) : ~ KeepsMore(d, FullDial(c))
<1> DEFINE f == FullDial(c)
<1>1. f = [layers |-> c.pin_layers, lm |-> TRUE, embed |-> TRUE] /\ c.pin_layers \in Nat
  BY DEF FullDial, Configs
<1> HIDE DEF f
<1>2. f.layers = c.pin_layers /\ f.lm = TRUE /\ f.embed = TRUE /\ c.pin_layers \in 0 .. c.pin_layers
  BY <1>1
<1>3. f \in Places(c)
  BY <1>1, <1>2, PlaceIs
<1>4. ASSUME NEW d \in Places(c), KeepsMore(d, f) PROVE FALSE
  <2>1. /\ d = [layers |-> d.layers, lm |-> d.lm, embed |-> d.embed]
        /\ d.layers \in 0 .. c.pin_layers /\ d.lm \in BOOLEAN /\ d.embed \in BOOLEAN
    BY PlaceIs
  <2>2. d # f /\ d.layers >= c.pin_layers /\ d.lm /\ d.embed
    BY <1>2, <1>4 DEF KeepsMore
  <2>3. d.layers = c.pin_layers /\ d.lm = TRUE /\ d.embed = TRUE
    BY <1>1, <2>1, <2>2
  <2> QED
    BY <1>1, <2>1, <2>2, <2>3
<1> QED
  BY <1>3, <1>4 DEF f

LEMMA MemoryInit == Init => AllocInv /\ MemoryInv
<1> SUFFICES ASSUME Init PROVE AllocInv /\ MemoryInv
  OBVIOUS
<1> USE DEF Init
<1>1. AllocInv
  BY UnusedInv DEF Unused
<1>2. cfg \in Configs /\ cfg.preset = "none" /\ cfg.pin_layers = 0
  BY PresetType DEF PresetNames, PresetConfig
<1>3. dial = [layers |-> 0, lm |-> TRUE, embed |-> TRUE]
  BY <1>2 DEF FullDial
<1>4. OwnTypeOK
  <2>1. dial \in [layers : Nat, lm : BOOLEAN, embed : BOOLEAN]
    BY ONLY <1>3
  <2> QED
    BY <1>2, <2>1 DEF OwnTypeOK, Planless
<1>5. PhaseConsistent
  BY <1>2 DEF PhaseConsistent, Planless
<1>6. DialConsistent
  <2>1. dial \in Places(cfg) /\ \A d \in Places(cfg) : ~ KeepsMore(d, dial)
    BY <1>2, FullDialIsFirst
  <2>2. turns = (cfg.pin_layers - dial.layers) + (IF dial.lm THEN 0 ELSE 1) + (IF dial.embed THEN 0 ELSE 1)
    BY <1>2, <1>3
  <2> QED
    BY <2>1, <2>2 DEF DialConsistent
<1> QED
  BY <1>1, <1>4, <1>5, <1>6 DEF MemoryInv

LEMMA CreateStep == ASSUME MemoryInv, Create PROVE MemoryInv'
<1>1. PICK m \in Models, args \in Args, a \in Avail, ru \in Reuse :
         LET c == ParseMemoryArgs(args, a) IN
         /\ model' = m /\ cfg' = c /\ available' = a /\ reuse' = ru
         /\ dial' = FullDial(c)
         /\ phase' = IF Streams(m.weights, c) /\ TightBudget(c) THEN "dial" ELSE "planned"
  BY DEF Create
<1>2. /\ phase = "idle" /\ turns' = 0 /\ plan' = NoPlan /\ todo' = {} /\ result' = "none"
      /\ UNCHANGED allocVars
  BY DEF Create
<1> DEFINE c == ParseMemoryArgs(args, a)
<1>3. a \in Nat /\ a # 1 /\ args \in ArgTypes
  BY MemoryAssumption
<1>4. /\ c \in Configs
      /\ c.preset = "phone" /\ a > 0 => 0 < c.budget /\ 2 * c.budget <= a
  <2>1. a > 0 => a > 1
    BY <1>3
  <2> QED
    BY <1>3, <2>1, ArgsType
<1>5. /\ model' = m /\ cfg' = c /\ available' = a /\ dial' = FullDial(c)
      /\ phase' = IF Streams(m.weights, c) /\ TightBudget(c) THEN "dial" ELSE "planned"
  BY <1>1
<1>6. cfg' = ParseMemoryArgs(args, available')
  BY <1>1
<1> HIDE DEF c
<1>7. dial' = [layers |-> c.pin_layers, lm |-> TRUE, embed |-> TRUE] /\ c.pin_layers \in Nat
  BY <1>4, <1>5 DEF FullDial, Configs
<1>8. dial' \in Places(c) /\ \A d \in Places(c) : ~ KeepsMore(d, dial')
  BY <1>4, <1>5, FullDialIsFirst
<1>9. OwnTypeOK'
  BY <1>2, <1>4, <1>5, <1>7 DEF OwnTypeOK, Planless
<1>10. PhaseConsistent'
  <2>1. phase' \in {"dial", "planned"} /\ (phase' = "dial" => TightBudget(c))
        /\ (phase' = "planned" => ~ (Streams(m.weights, c) /\ TightBudget(c)))
    BY <1>5
  <2>2. used' = 0 /\ limit' = 0
    BY <1>2 DEF MemoryInv, PhaseConsistent, Planless, allocVars
  <2> QED
    BY <1>2, <1>4, <1>5, <1>6, <2>1, <2>2 DEF PhaseConsistent, Planless
<1>11. DialConsistent'
  <2>1. turns' = (cfg'.pin_layers - dial'.layers)
                    + (IF dial'.lm THEN 0 ELSE 1) + (IF dial'.embed THEN 0 ELSE 1)
    BY <1>2, <1>5, <1>7
  <2>2. dial' \in Places(cfg') /\ \A d \in Places(cfg') : ~ KeepsMore(d, dial')
    BY <1>5, <1>8
  <2>3. result' # "refused"
    BY <1>2
  <2> QED
    BY <2>1, <2>2, <2>3 DEF DialConsistent
<1> QED
  BY <1>9, <1>10, <1>11 DEF MemoryInv

LEMMA DialTurnsStep == ASSUME MemoryInv, DialTurns PROVE MemoryInv'
<1>1. /\ phase = "dial" /\ ~ DialStops(model.weights, cfg, dial, turns)
      /\ dial' = DialTurned(dial) /\ turns' = turns + 1
      /\ UNCHANGED <<allocVars, phase, model, cfg, available, reuse, plan, todo, result>>
  BY DEF DialTurns
<1>2. cfg \in Configs /\ dial \in Places(cfg) /\ ~ DialAtEnd(dial) /\ turns \in Nat
  BY <1>1 DEF MemoryInv, OwnTypeOK, DialConsistent, DialStops
<1>3. TooMuch(dial)
  <2>1. Need(model.weights, cfg, dial) \in Nat /\ cfg.budget \in Nat
    BY <1>2, ModelWeights, NeedNat DEF MemoryInv, Configs
  <2>2. Need(model.weights, cfg, dial) > cfg.budget
    BY <1>1, <2>1 DEF DialStops
  <2> QED
    BY <1>2, <2>2, ModelWeights, NeedNat DEF TooMuch, MemoryInv
<1>4. /\ dial' \in Places(cfg)
      /\ \A d \in Places(cfg) : KeepsMore(d, dial') => d = dial \/ KeepsMore(d, dial)
      /\ turns' = (cfg.pin_layers - dial'.layers)
                    + (IF dial'.lm THEN 0 ELSE 1) + (IF dial'.embed THEN 0 ELSE 1)
  BY <1>1, <1>2, TurnIsNext DEF MemoryInv, DialConsistent
<1>5. \A d : TooMuch(d)' <=> TooMuch(d)
  BY <1>1 DEF TooMuch
<1>6. DialConsistent'
  <2>1. result' # "refused"
    BY <1>1 DEF MemoryInv, PhaseConsistent, Planless, DialConsistent, OwnTypeOK
  <2> QED
    BY <1>1, <1>3, <1>4, <1>5, <2>1 DEF MemoryInv, DialConsistent
<1>7. OwnTypeOK'
  <2>1. dial' \in [layers : Nat, lm : BOOLEAN, embed : BOOLEAN]
    BY <1>2, <1>4, PlaceIs
  <2> QED
    BY <1>1, <1>2, <2>1 DEF MemoryInv, OwnTypeOK
<1>8. PhaseConsistent'
  BY <1>1 DEF MemoryInv, PhaseConsistent, Planless, allocVars
<1> QED
  BY <1>6, <1>7, <1>8 DEF MemoryInv

LEMMA TooMuchAsBefore == ASSUME UNCHANGED <<model, cfg>>, NEW d PROVE TooMuch(d)' <=> TooMuch(d)
BY DEF TooMuch

LEMMA DialEndsStep == ASSUME MemoryInv, DialEnds PROVE MemoryInv'
<1>1. /\ phase = "dial" /\ DialStops(model.weights, cfg, dial, turns)
      /\ UNCHANGED <<allocVars, model, cfg, available, reuse, dial, turns, plan, todo>>
      /\ IF PlanRefused(model.weights, cfg, dial)
         THEN phase' = "idle" /\ result' = "refused"
         ELSE phase' = "planned" /\ UNCHANGED result
  BY DEF DialEnds
<1>2. cfg \in Configs /\ result # "refused"
  BY <1>1 DEF MemoryInv, OwnTypeOK, DialConsistent
<1>3. OwnTypeOK'
  BY <1>1 DEF MemoryInv, OwnTypeOK, Planless
<1>4. PhaseConsistent'
  BY <1>1 DEF MemoryInv, PhaseConsistent, Planless, allocVars
<1>5. result' = "refused" => phase' = "idle" /\ TooMuch(dial) /\ (DialAtEnd(dial) \/ turns = DialSteps)
  <2>1. SUFFICES ASSUME result' = "refused" PROVE phase' = "idle" /\ TooMuch(dial) /\ (DialAtEnd(dial) \/ turns = DialSteps)
    OBVIOUS
  <2>2. PlanRefused(model.weights, cfg, dial) /\ phase' = "idle"
    BY <1>1, <1>2, <2>1
  <2>3. Need(model.weights, cfg, dial) \in Nat /\ cfg.budget \in Nat
    BY <1>2, ModelWeights, NeedNat DEF MemoryInv, Configs
  <2>4. Need(model.weights, cfg, dial) > cfg.budget
    BY <2>2 DEF PlanRefused
  <2>5. TooMuch(dial)
    BY <1>2, <2>4, ModelWeights, NeedNat DEF TooMuch, MemoryInv
  <2>6. ~ (Need(model.weights, cfg, dial) <= cfg.budget)
    BY <2>3, <2>4
  <2> QED
    BY <1>1, <2>2, <2>5, <2>6 DEF DialStops
<1>6. DialConsistent'
  BY <1>1, <1>5, TooMuchAsBefore DEF MemoryInv, DialConsistent
<1> QED
  BY <1>3, <1>4, <1>6 DEF MemoryInv

(* From the plan on, the dial rests and nothing is refused any more. *)
LEMMA DialRests ==
    ASSUME MemoryInv, UNCHANGED <<model, cfg, dial, turns>>, phase # "idle",
           result' = result \/ result' \in {"no memory", "malloc", "ok", "load", "bad_alloc"}
    PROVE  DialConsistent'
<1>1. result' # "refused"
  BY DEF MemoryInv, DialConsistent
<1> QED
  BY <1>1, TooMuchAsBefore DEF MemoryInv, DialConsistent

LEMMA LimitStays ==
    ASSUME NEW owner, NEW n,
           \/ AllocateBytes(owner, n) \/ BudgetRefuses(n) \/ MallocFails(n)
           \/ \E b \in bufs : DeallocateBytes(b)
    PROVE  limit' = limit
BY DEF AllocateBytes, BudgetRefuses, MallocFails, DeallocateBytes, allocVars

LEMMA PlaceStep == ASSUME MemoryInv, Place PROVE MemoryInv'
<1>1. /\ phase = "planned" /\ phase' = "allocating" /\ plan' = PlanFor(model.weights, cfg, dial)
      /\ todo' = Asked(model, plan'.streamed, reuse)
      /\ used' = 0 /\ limit' = cfg.budget
      /\ UNCHANGED <<model, cfg, available, reuse, dial, turns, result>>
  BY DEF Place, NewAllocator
<1>2. DialConsistent'
  BY <1>1, DialRests
<1>3. todo' \in SUBSET [id : Nat, bytes : Nat]
  <2>1. model.acts \subseteq [id : Nat, bytes : Nat]
    BY MemoryAssumption DEF MemoryInv, OwnTypeOK
  <2>2. \A w \in model.weights : w.id \in Nat /\ w.full \in Nat /\ w.packed \in Nat
    BY ModelWeights DEF MemoryInv, WeightTypes
  <2> QED
    BY <1>1, <2>1, <2>2 DEF Asked
<1>4. OwnTypeOK'
  BY <1>1, <1>3 DEF MemoryInv, OwnTypeOK, Planless
<1>5. PhaseConsistent'
  BY <1>1 DEF MemoryInv, PhaseConsistent, Planless
<1> QED
  BY <1>2, <1>4, <1>5 DEF MemoryInv

(* The later steps of a session keep its plan and its budget. *)
LEMMA PlanRests ==
    ASSUME MemoryInv, UNCHANGED <<model, cfg, available, dial, turns, plan>>, limit' = limit,
           phase \in {"allocating", "ready", "destroying"},
           phase' \in {"allocating", "ready", "destroying"}, todo' \subseteq todo,
           result' = result \/ result' \in {"no memory", "malloc", "ok", "load", "bad_alloc"}
    PROVE  MemoryInv'
<1>1. DialConsistent'
  BY DialRests
<1>2. OwnTypeOK'
  BY DEF MemoryInv, OwnTypeOK, Planless
<1>3. PhaseConsistent'
  BY DEF MemoryInv, PhaseConsistent, Planless
<1> QED
  BY <1>1, <1>2, <1>3 DEF MemoryInv

LEMMA DestroyEndsStep == ASSUME AllocInv, MemoryInv, DestroyEnds PROVE MemoryInv'
<1>1. /\ phase = "destroying" /\ phase' = "idle" /\ plan' = NoPlan /\ todo' = {}
      /\ UNCHANGED <<model, cfg, available, reuse, dial, turns, result>>
      /\ used' = 0 /\ limit' = 0
  BY ResetStep DEF DestroyEnds
<1>2. DialConsistent'
  BY <1>1, DialRests
<1>3. OwnTypeOK'
  BY <1>1 DEF MemoryInv, OwnTypeOK, Planless
<1>4. PhaseConsistent'
  BY <1>1 DEF MemoryInv, PhaseConsistent, Planless
<1> QED
  BY <1>2, <1>3, <1>4 DEF MemoryInv

LEMMA ArenaThrowsStep == ASSUME MemoryInv, ArenaThrows PROVE MemoryInv'
<1>1. /\ phase \in {"allocating", "ready"} /\ phase' = "idle" /\ plan' = NoPlan /\ todo' = {}
      /\ result' = "bad_alloc" /\ UNCHANGED <<model, cfg, available, reuse, dial, turns>>
      /\ used' = 0 /\ limit' = 0
  BY ArenaThrowsEmpties DEF ArenaThrows
<1>2. DialConsistent'
  BY <1>1, DialRests
<1>3. OwnTypeOK'
  BY <1>1 DEF MemoryInv, OwnTypeOK, Planless
<1>4. PhaseConsistent'
  BY <1>1 DEF MemoryInv, PhaseConsistent, Planless
<1> QED
  BY <1>2, <1>3, <1>4 DEF MemoryInv

LEMMA MemoryStep == AllocInv /\ MemoryInv /\ [Next]_memoryVars => MemoryInv'
<1> SUFFICES ASSUME AllocInv, MemoryInv, [Next]_memoryVars PROVE MemoryInv'
  OBVIOUS
<1>1. CASE Create
  BY <1>1, CreateStep
<1>2. CASE DialTurns
  BY <1>2, DialTurnsStep
<1>3. CASE DialEnds
  BY <1>3, DialEndsStep
<1>4. CASE Place
  BY <1>4, PlaceStep
<1>5. CASE AllocateSlot
  BY <1>5, LimitStays, PlanRests DEF AllocateSlot
<1>6. CASE AllocateFails
  <2>1. /\ phase = "allocating" /\ phase' = "destroying" /\ result' \in {"no memory", "malloc"}
        /\ BudgetRefuses(NextAsked.bytes) \/ MallocFails(NextAsked.bytes)
        /\ UNCHANGED <<model, cfg, available, reuse, dial, turns, plan, todo>>
    BY <1>6 DEF AllocateFails
  <2> QED
    BY <2>1, LimitStays, PlanRests
<1>7. CASE WeightsLoaded
  BY <1>7, PlanRests DEF WeightsLoaded, allocVars
<1>8. CASE BackendAllocate
  BY <1>8, LimitStays, PlanRests DEF BackendAllocate, ownVars
<1>9. CASE BackendFree
  BY <1>9, LimitStays, PlanRests DEF BackendFree, Owned, ownVars
<1>10. CASE Destroy
  BY <1>10, PlanRests DEF Destroy, allocVars
<1>11. CASE DestroyFrees
  BY <1>11, LimitStays, PlanRests DEF DestroyFrees, ownVars
<1>12. CASE DestroyEnds
  BY <1>12, DestroyEndsStep
<1>13. CASE UNCHANGED memoryVars
  <2>1. \A d : TooMuch(d)' <=> TooMuch(d)
    BY <1>13, TooMuchAsBefore DEF memoryVars, ownVars
  <2> QED
    BY <1>13, <2>1
       DEF memoryVars, allocVars, ownVars, MemoryInv, OwnTypeOK, PhaseConsistent, DialConsistent
<1>14. CASE ArenaThrows
  BY <1>14, ArenaThrowsStep
<1> QED
  BY <1>1, <1>2, <1>3, <1>4, <1>5, <1>6, <1>7, <1>8, <1>9, <1>10, <1>11, <1>12, <1>13, <1>14 DEF Next

-----------------------------------------------------------------------------
(* The allocator with what uses it, and the plan with the dial it comes from,  *)
(* keep their invariants for any models, sizes, budgets and refusals.          *)
THEOREM MemoryInvariant == Spec => [](AllocInv /\ MemoryInv)
<1>1. AllocInv /\ MemoryInv /\ [Next]_memoryVars => (AllocInv /\ MemoryInv)'
  BY AllocInvStep, MemoryStep
<1> QED
  BY <1>1, MemoryInit, PTL DEF Spec

(* MemoryBudget is charged with exactly the blocks and chunks the allocator    *)
(* holds, whatever was reused, refused, failed, freed or reset.                *)
THEOREM BudgetHolds == Spec => []BudgetIsTrue
<1>1. AllocInv => BudgetIsTrue
  BY DEF AllocInv
<1> QED
  BY <1>1, MemoryInvariant, PTL

(* No two buffers of an Allocator overlap, and none is larger than its memory. *)
THEOREM BuffersNeverOverlap == Spec => []BuffersApart
<1>1. AllocInv => BuffersApart
  BY DEF AllocInv
<1> QED
  BY <1>1, MemoryInvariant, PTL

-----------------------------------------------------------------------------
(* What build_storage_plan promises *)

(* With enough turns the dial only stops where the need fits, or at its end. *)
LEMMA TurnsSuffice ==
    ASSUME MemoryInv, EnoughTurns, ~ (phase = "idle" /\ result = "none"),
           DialAtEnd(dial) \/ turns = DialSteps
    PROVE  DialAtEnd(dial)
<1>1. PICK args \in Args : cfg = ParseMemoryArgs(args, available)
  BY DEF MemoryInv, PhaseConsistent
<1>2. cfg.pin_layers + 2 <= DialSteps
  BY <1>1 DEF EnoughTurns, MemoryInv, OwnTypeOK
<1>3. /\ cfg.pin_layers \in Nat /\ dial.layers \in 0 .. cfg.pin_layers
      /\ dial.lm \in BOOLEAN /\ dial.embed \in BOOLEAN
  BY PlaceIs DEF MemoryInv, OwnTypeOK, DialConsistent, Configs
<1>4. turns = (cfg.pin_layers - dial.layers)
                 + (IF dial.lm THEN 0 ELSE 1) + (IF dial.embed THEN 0 ELSE 1)
  BY DEF MemoryInv, DialConsistent
<1>5. turns = DialSteps => dial.layers = 0 /\ ~ dial.lm /\ ~ dial.embed
  BY <1>2, <1>3, <1>4, PlanAssumption
<1> QED
  BY <1>5 DEF DialAtEnd

(* At the end of the dial every place keeps more, or is the end. *)
LEMMA EndKeepsLeast ==
    ASSUME NEW c \in Configs, NEW e \in Places(c), DialAtEnd(e), NEW d \in Places(c)
    PROVE  d = e \/ KeepsMore(d, e)
<1>1. d.layers \in 0 .. c.pin_layers /\ c.pin_layers \in Nat
  BY PlaceIs DEF Configs
<1>2. e.layers = 0 /\ ~ e.lm /\ ~ e.embed
  BY DEF DialAtEnd
<1> QED
  BY <1>1, <1>2 DEF KeepsMore

(* build_storage_plan gives up only what does not fit, and refuses only a      *)
(* model that fits nowhere on the dial.                                        *)
THEOREM TrunkIsAsLargeAsFits == ASSUME EnoughTurns PROVE Spec => []TrunkIsLargest
<1>1. MemoryInv => TrunkIsLargest
  <2> SUFFICES ASSUME MemoryInv PROVE TrunkIsLargest
    OBVIOUS
  <2>1. ASSUME result = "refused", NEW d \in Places(cfg) PROVE TooMuch(d)
    <3>1. TooMuch(dial) /\ (DialAtEnd(dial) \/ turns = DialSteps)
      BY <2>1 DEF MemoryInv, DialConsistent
    <3>2. DialAtEnd(dial)
      BY <2>1, <3>1, TurnsSuffice
    <3>3. d = dial \/ KeepsMore(d, dial)
      BY <3>2, EndKeepsLeast DEF MemoryInv, OwnTypeOK, DialConsistent
    <3> QED
      BY <3>1, <3>3 DEF MemoryInv, DialConsistent
  <2> QED
    BY <2>1 DEF TrunkIsLargest, MemoryInv, DialConsistent
<1> QED
  BY <1>1, MemoryInvariant, PTL

(* At the end of the dial only norms are pinned. *)
LEMMA EndStreams ==
    ASSUME OwnTypeOK, SomethingToStream, DialAtEnd(dial)
    PROVE  Largest(Streamed(model.weights, dial)) > 0
<1> DEFINE W == model.weights
           S == Streamed(W, dial)
<1>1. PICK w \in W : (w.expert \/ ~ w.norm) /\ ResidentBytes(w) > 0
  BY DEF SomethingToStream, OwnTypeOK
<1>2. w.layer \in Nat /\ dial.layers = 0 /\ ~ dial.lm /\ ~ dial.embed
  BY ModelWeights DEF DialAtEnd, WeightTypes
<1>3. ~ WouldPin(w, dial)
  BY <1>1, <1>2 DEF WouldPin
<1>4. w \in S
  BY <1>3 DEF Streamed, Pinned
<1>5. S \subseteq WeightTypes /\ IsFiniteSet(S)
  BY ModelWeights, PinnedParts
<1> HIDE DEF S
<1>6. Largest(S) \in Nat /\ ResidentBytes(w) <= Largest(S)
  BY <1>4, <1>5, LargestOf
<1>7. ResidentBytes(w) \in Nat
  BY <1>4, <1>5, ResidentNat
<1> QED
  BY <1>1, <1>6, <1>7 DEF S

LEMMA ExpertsBytes ==
    ASSUME NEW W, W \subseteq WeightTypes, IsFiniteSet(W), SumBytes(Experts(W)) > 0
    PROVE  Experts(W) # {}
BY SumBytesOf

LEMMA PlanInBudget ==
    ASSUME MemoryInv, EnoughTurns, SomethingToStream, plan.streaming
    PROVE  /\ PlanKeepsBudget
           /\ cfg.budget > 0 => plan.slots * plan.staging + plan.expert_cache <= cfg.budget
           /\ plan.slots * plan.staging \in Nat /\ plan.expert_cache \in Nat
<1> DEFINE W == model.weights
           S == Streamed(W, dial)
           P == Pinned(W, dial)
           n == Need(W, cfg, dial)
           k == Slots(cfg)
           l == Largest(S)
           e == plan.expert_cache
<1>1. phase \in {"allocating", "ready", "destroying"}
  BY DEF MemoryInv, OwnTypeOK, PhaseConsistent, Planless, NoPlan
<1>2. plan = PlanFor(W, cfg, dial)
  BY <1>1 DEF MemoryInv, PhaseConsistent, Planless
<1>3. /\ Streams(W, cfg) /\ plan.streamed = S /\ plan.slots = k
      /\ plan.staging = (IF S = {} THEN Largest(W) ELSE l)
      /\ plan.expert_cache = ExpertCacheFor(W, cfg, dial)
  <2>1. Streams(W, cfg)
    BY <1>2 DEF PlanFor
  <2>2. plan = [streaming |-> Streams(W, cfg), streamed |-> S,
                staging |-> IF S = {} THEN Largest(W) ELSE l,
                slots |-> k, expert_cache |-> ExpertCacheFor(W, cfg, dial)]
    BY <1>2, <2>1 DEF PlanFor
  <2> HIDE DEF W, S, k, l
  <2> QED
    BY <2>1, <2>2
<1>4. W \subseteq WeightTypes /\ IsFiniteSet(W) /\ cfg \in Configs /\ cfg.budget \in Nat
      /\ cfg.expert_cache \in Nat
  BY ModelWeights DEF MemoryInv, OwnTypeOK, Configs
<1>5. /\ S \subseteq W /\ IsFiniteSet(S) /\ W \ S = P /\ Experts(W) \subseteq S
      /\ SumBytes(P) \in Nat /\ l \in Nat
  BY <1>4, PinnedParts
<1>6. k \in {1, 2} /\ n \in Nat /\ n = SumBytes(P) + k * l
  BY <1>4, NeedNat
<1> DEFINE b == SumBytes(P)
<1> HIDE DEF W, S, P, n, k, l, e, b
<1>7. ASSUME cfg.budget > 0 PROVE n <= cfg.budget /\ S # {}
  <2>1. DialStops(W, cfg, dial, turns) /\ ~ PlanRefused(W, cfg, dial)
    BY <1>1, <1>3, <1>7 DEF MemoryInv, PhaseConsistent, TightBudget, W
  <2>2. l > 0 => n <= cfg.budget
    BY <1>4, <1>6, <2>1 DEF PlanRefused, n, l, S
  <2>3. n <= cfg.budget
    <3>1. CASE n <= cfg.budget
      BY <3>1
    <3>2. CASE ~ (n <= cfg.budget)
      <4>1. DialAtEnd(dial)
        BY <1>1, <2>1, <3>2, TurnsSuffice DEF DialStops, n
      <4> QED
        BY <2>2, <4>1, EndStreams DEF MemoryInv, l, S, W
    <3> QED
      BY <3>1, <3>2
  <2>4. ASSUME S = {} PROVE FALSE
    <3>1. P = W /\ Experts(W) = {}
      BY <1>5, <2>4
    <3>2. ~ (SumBytes(Experts(W)) > 0)
      BY <1>4, <3>1, ExpertsBytes
    <3>3. SumBytes(W) > cfg.budget
      BY <1>3, <3>2 DEF Streams, ExpertPage, Pressure
    <3>4. SumBytes(W) <= n
      <4>1. k * l \in Nat
        BY <1>5, <1>6
      <4>2. SumBytes(W) \in Nat /\ n = SumBytes(W) + k * l
        BY <1>5, <1>6, <3>1
      <4> QED
        BY <4>1, <4>2
    <3>5. SumBytes(W) \in Nat
      BY <1>5, <3>1
    <3> QED
      BY <1>4, <1>6, <2>3, <3>3, <3>4, <3>5
  <2> QED
    BY <2>3, <2>4
<1>8. Largest(W) \in Nat /\ plan.staging \in Nat /\ plan.slots * plan.staging \in Nat
  <2>1. Largest(W) \in Nat
    BY <1>4, LargestOf
  <2>2. plan.staging \in Nat
    BY <1>3, <1>5, <2>1
  <2> QED
    BY <1>3, <1>6, <2>1, <2>2
<1>9. e \in Nat /\ (cfg.budget > 0 => e + n <= cfg.budget)
  <2>1. e = ExpertCacheFor(W, cfg, dial)
    BY <1>3 DEF e
  <2>2. CASE cfg.budget > 0
    <3> DEFINE left == IF cfg.budget > n THEN cfg.budget - n ELSE 0
    <3>1. left \in Nat /\ left + n <= cfg.budget
      BY <1>4, <1>6, <1>7, <2>2
    <3>2. e = Min({cfg.expert_cache, left})
      BY <1>3, <2>1, <2>2 DEF ExpertCacheFor, TightBudget, n
    <3> HIDE DEF left
    <3>3. e = IF cfg.expert_cache <= left THEN cfg.expert_cache ELSE left
      BY <1>4, <3>1, <3>2, MinOfTwo
    <3> QED
      BY <1>4, <1>6, <3>1, <3>3
  <2>3. CASE ~ (cfg.budget > 0)
    BY <1>4, <2>1, <2>3 DEF ExpertCacheFor, TightBudget
  <2> QED
    BY <2>2, <2>3
<1>10. ASSUME cfg.budget > 0
       PROVE  /\ SumBytes(W \ plan.streamed) + plan.slots * plan.staging + plan.expert_cache <= cfg.budget
              /\ plan.slots * plan.staging + plan.expert_cache <= cfg.budget
  <2> DEFINE kl == k * l
  <2>1. plan.staging = l /\ plan.slots = k /\ W \ plan.streamed = P
    BY <1>3, <1>5, <1>7, <1>10
  <2>2. kl \in Nat /\ b \in Nat /\ n = b + kl
    BY <1>5, <1>6 DEF b
  <2>3. e + n <= cfg.budget
    BY <1>9, <1>10
  <2>4. SumBytes(W \ plan.streamed) = b /\ plan.slots * plan.staging = kl /\ plan.expert_cache = e
    BY <2>1 DEF b, e
  <2> HIDE DEF kl
  <2>5. b + kl + e <= cfg.budget /\ kl + e <= cfg.budget
    BY <1>4, <1>9, <2>2, <2>3
  <2> QED
    BY <2>4, <2>5
<1>11. \A w \in plan.streamed : ResidentBytes(w) <= plan.staging
  <2>1. S \subseteq WeightTypes
    BY <1>4, <1>5
  <2>2. \A w \in S : ResidentBytes(w) <= l
    BY <1>5, <2>1, LargestOf DEF l
  <2> QED
    BY <1>3, <2>2
<1>12. Experts(model.weights) \subseteq plan.streamed
  BY <1>3, <1>5 DEF W
<1>13. PlanKeepsBudget
  BY <1>10, <1>11, <1>12 DEF PlanKeepsBudget, W
<1> QED
  BY <1>8, <1>9, <1>10, <1>13 DEF e

(* What build_storage_plan says it keeps, stages and caches fits the budget. *)
THEOREM PlanFitsBudget == ASSUME EnoughTurns, SomethingToStream PROVE Spec => []PlanKeepsBudget
<1>1. MemoryInv => PlanKeepsBudget
  BY PlanInBudget DEF PlanKeepsBudget
<1> QED
  BY <1>1, MemoryInvariant, PTL

(* The clamp of the phone preset leaves the session, its staging buffer and    *)
(* its expert cache within the memory that was free.                           *)
THEOREM PhoneStaysInFreeMemory ==
    ASSUME EnoughTurns, SomethingToStream PROVE Spec => []PhoneFitsFreeMemory
<1>1. AllocInv /\ MemoryInv => PhoneFitsFreeMemory
  <2> SUFFICES ASSUME AllocInv, MemoryInv, cfg.preset = "phone", available > 0,
                      plan.expert_cache > 0 \/ Experts(plan.streamed) = {}
               PROVE  used + StoreBytes <= available
    BY DEF PhoneFitsFreeMemory
  <2>1. available \in Nat /\ cfg.budget \in Nat /\ used \in Nat
    BY MemoryAssumption DEF MemoryInv, OwnTypeOK, Configs, AllocInv, AllocTypeOK
  <2>2. 0 < cfg.budget /\ 2 * cfg.budget <= available
    BY DEF MemoryInv, PhaseConsistent
  <2>3. used <= cfg.budget
    <3>1. CASE phase \in Planless
      BY <2>1, <2>2, <3>1 DEF MemoryInv, PhaseConsistent
    <3>2. CASE phase \notin Planless
      BY <2>2, <3>2 DEF MemoryInv, PhaseConsistent, AllocInv, BudgetIsTrue
    <3> QED
      BY <3>1, <3>2
  <2>4. StoreBytes \in Nat /\ StoreBytes <= cfg.budget
    <3>1. CASE plan.streaming
      <4> DEFINE s == plan.slots * plan.staging
      <4>1. s \in Nat /\ plan.expert_cache \in Nat /\ s + plan.expert_cache <= cfg.budget
        BY <2>2, <3>1, PlanInBudget
      <4>2. ExpertCacheLimit = plan.expert_cache
        <5>1. CASE plan.expert_cache # 0
          BY <5>1 DEF ExpertCacheLimit
        <5>2. CASE plan.expert_cache = 0
          <6>1. Experts(plan.streamed) = {}
            BY <5>2
          <6>2. Largest(Experts(plan.streamed)) = 0
            BY <6>1 DEF Largest
          <6> QED
            BY <5>2, <6>2 DEF ExpertCacheLimit
        <5> QED
          BY <5>1, <5>2
      <4>3. StoreBytes = s + plan.expert_cache
        BY <3>1, <4>2 DEF StoreBytes
      <4> HIDE DEF s
      <4> QED
        BY <4>1, <4>3
    <3>2. CASE ~ plan.streaming
      BY <2>1, <3>2 DEF StoreBytes
    <3> QED
      BY <3>1, <3>2
  <2> QED
    BY <2>1, <2>2, <2>3, <2>4
<1> QED
  BY <1>1, MemoryInvariant, PTL
=============================================================================

------------------------ MODULE SessionStreamingProofs ------------------------
(* Proofs that the streaming store keeps its slots, its task and its expert    *)
(* cache consistent, for every set of weights, size, budget and hot window, and *)
(* that every kernel of run() reads the weights it was given, for every plan in  *)
(* which no staged weight can be given away before its op runs.                   *)
EXTENDS SessionStreaming, FiniteSetTheorems, TLAPS

(***************************************************************************)
(* The streaming store on its own.                                          *)
(***************************************************************************)

(* A set of numbers has a least one. *)
LEMMA LeastNat == ASSUME NEW S \in SUBSET Nat, S # {} PROVE \E x \in S : \A y \in S : x <= y
<1> DEFINE R == {p \in Nat \X Nat : p[1] < p[2]}
<1>1. IsWellFoundedOn(R, Nat)
  BY NatLessThanWellFounded DEF OpToRel
<1> HIDE DEF R
<1>2. PICK x \in S : \A y \in S : <<y, x>> \notin R
  BY <1>1, WFMin
<1>3. ASSUME NEW y \in S PROVE x <= y
  <2>1. x \in Nat /\ y \in Nat /\ <<y, x>> \notin R
    BY <1>2
  <2>2. <<y, x>>[1] = y /\ <<y, x>>[2] = x /\ <<y, x>> \in Nat \X Nat
    BY <2>1
  <2>3. ~ (y < x)
    BY <2>1, <2>2 DEF R
  <2> QED
    BY <2>1, <2>3
<1> QED
  BY <1>3

Elements(s) == {s[i] : i \in DOMAIN s}

(* Removing an element keeps a sequence a sequence over the same set. *)
LEMMA WithoutType ==
    ASSUME NEW S, NEW s \in Seq(S), NEW x
    PROVE  /\ Without(s, x) \in Seq(S)
           /\ Elements(Without(s, x)) \subseteq Elements(s)
<1>1. CASE \E i \in DOMAIN s : s[i] = x
  <2> DEFINE i == CHOOSE i \in DOMAIN s : s[i] = x
  <2>1. i \in DOMAIN s
    BY <1>1
  <2>2. i \in 1..Len(s)
    BY <2>1
  <2> DEFINE l == SubSeq(s, 1, i - 1)
             r == SubSeq(s, i + 1, Len(s))
  <2> HIDE DEF i
  <2>3. /\ l \in Seq(S) /\ Len(l) = i - 1
        /\ \A j \in 1..(i - 1) : l[j] = s[j]
    BY <2>2
  <2>4. /\ r \in Seq(S) /\ Len(r) = Len(s) - i
        /\ \A j \in 1..(Len(s) - i) : r[j] = s[i + j]
    BY <2>2
  <2>5. Without(s, x) = l \o r
    BY <1>1 DEF Without, i
  <2> HIDE DEF l, r
  <2>6. l \o r \in Seq(S)
    BY <2>3, <2>4
  <2>7. Elements(l \o r) \subseteq Elements(s)
    <3> SUFFICES ASSUME NEW j \in DOMAIN (l \o r)
                 PROVE  (l \o r)[j] \in Elements(s)
      BY DEF Elements
    <3>1. j \in 1..(Len(l) + Len(r))
      BY <2>3, <2>4
    <3>2. CASE j <= Len(l)
      BY <3>1, <3>2, <2>2, <2>3, <2>4 DEF Elements
    <3>3. CASE j > Len(l)
      <4>1. (l \o r)[j] = r[j - Len(l)]
        BY <3>1, <3>3, <2>3, <2>4
      <4>2. j - Len(l) \in 1..(Len(s) - i) /\ i + (j - Len(l)) \in DOMAIN s
        BY <3>1, <3>3, <2>2, <2>3, <2>4
      <4> QED
        BY <4>1, <4>2, <2>4 DEF Elements
    <3> QED
      BY <3>1, <3>2, <3>3, <2>3, <2>4
  <2> QED
    BY <2>5, <2>6, <2>7
<1>2. CASE ~ \E i \in DOMAIN s : s[i] = x
  BY <1>2 DEF Without
<1> QED
  BY <1>1, <1>2

(* Marking an expert hot keeps it and forgets others only. *)
LEMMA MarkedHotType ==
    ASSUME NEW hot \in Seq(Experts), NEW id \in Experts
    PROVE  /\ MarkedHot(hot, id) \in Seq(Experts)
           /\ Elements(MarkedHot(hot, id)) \subseteq Elements(hot) \cup {id}
           /\ id \in Elements(MarkedHot(hot, id))
<1> DEFINE w   == Without(hot, id)
           all == Append(w, id)
           a   == IF Len(all) > MaxHot THEN Len(all) - MaxHot + 1 ELSE 1
<1>0. MaxHot \in Nat \ {0}
  BY StoreAssumption
<1>1. w \in Seq(Experts) /\ Elements(w) \subseteq Elements(hot)
  BY WithoutType
<1>2. MarkedHot(hot, id) = SubSeq(all, a, Len(all))
  BY DEF MarkedHot
<1> HIDE DEF w
<1>3. /\ all \in Seq(Experts) /\ Len(all) = Len(w) + 1
      /\ \A j \in 1..Len(all) : all[j] = IF j = Len(all) THEN id ELSE w[j]
  BY <1>1
<1> HIDE DEF all
<1>4. a \in 1..Len(all)
  BY <1>0, <1>1, <1>3
<1> HIDE DEF a
<1>5. /\ SubSeq(all, a, Len(all)) \in Seq(Experts)
      /\ DOMAIN SubSeq(all, a, Len(all)) = 1..(Len(all) - a + 1)
      /\ \A j \in 1..(Len(all) - a + 1) : SubSeq(all, a, Len(all))[j] = all[a + j - 1]
  BY <1>3, <1>4
<1>6. Elements(SubSeq(all, a, Len(all))) \subseteq Elements(hot) \cup {id}
  <2> SUFFICES ASSUME NEW j \in 1..(Len(all) - a + 1)
               PROVE  all[a + j - 1] \in Elements(hot) \cup {id}
    BY <1>5 DEF Elements
  <2>1. a + j - 1 \in 1..Len(all)
    BY <1>3, <1>4
  <2>2. CASE a + j - 1 = Len(all)
    BY <2>1, <2>2, <1>3
  <2>3. CASE a + j - 1 # Len(all)
    <3>1. a + j - 1 \in DOMAIN w
      BY <2>1, <2>3, <1>1, <1>3
    <3> QED
      BY <3>1, <2>1, <2>3, <1>1, <1>3 DEF Elements
  <2> QED
    BY <2>2, <2>3
<1>7. id \in Elements(SubSeq(all, a, Len(all)))
  <2> DEFINE n == Len(all) - a + 1
  <2>1. n \in 1..(Len(all) - a + 1) /\ a + n - 1 = Len(all) /\ Len(all) \in 1..Len(all)
    BY <1>3, <1>4
  <2> HIDE DEF n
  <2>2. SubSeq(all, a, Len(all))[n] = id
    BY <2>1, <1>3, <1>5
  <2>3. n \in DOMAIN SubSeq(all, a, Len(all))
    BY <2>1, <1>5
  <2> QED
    BY <2>2, <2>3 DEF Elements
<1> QED
  BY <1>2, <1>5, <1>6, <1>7

-----------------------------------------------------------------------------
(* The part of the invariant that concerns the expert cache alone. *)
CacheInv ==
    /\ expert_store \in [Experts -> Content]
    /\ expert_lru \subseteq Experts \X Experts
    /\ expert_hot \in Seq(Experts)
    /\ expert_used \in Nat /\ expert_budget \in Nat
    /\ ExpertAccounting

(* Bytes are additive: taking a subset away takes its bytes away. *)
LEMMA BytesOfRest ==
    ASSUME NEW S \in SUBSET Experts, NEW T \in SUBSET S
    PROVE  /\ TotalBytes[S] \in Nat /\ TotalBytes[T] \in Nat /\ TotalBytes[S \ T] \in Nat
           /\ TotalBytes[S \ T] = TotalBytes[S] - TotalBytes[T]
<1>1. /\ T \in SUBSET Experts /\ S \ T \in SUBSET Experts
      /\ T \cap (S \ T) = {} /\ T \cup (S \ T) = S
  OBVIOUS
<1>2. TotalBytes[T \cup (S \ T)] = TotalBytes[T] + TotalBytes[S \ T]
  BY <1>1, StoreAssumption
<1>3. TotalBytes[S] \in Nat /\ TotalBytes[T] \in Nat /\ TotalBytes[S \ T] \in Nat
  BY <1>1, StoreAssumption
<1> QED
  BY <1>1, <1>2, <1>3

(* ... and caching one more expert adds its size to the counter. *)
LEMMA BytesOfOneMore ==
    ASSUME NEW S \in SUBSET Experts, NEW e \in Experts, e \notin S
    PROVE  /\ TotalBytes[S] \in Nat /\ Bytes[e] \in Nat
           /\ TotalBytes[S \cup {e}] = TotalBytes[S] + Bytes[e]
<1>1. {e} \in SUBSET Experts /\ S \cap {e} = {}
  OBVIOUS
<1>2. TotalBytes[S \cup {e}] = TotalBytes[S] + TotalBytes[{e}]
  BY <1>1, StoreAssumption
<1>3. TotalBytes[{e}] = Bytes[e] /\ TotalBytes[S] \in Nat /\ Bytes[e] \in Nat
  BY StoreAssumption
<1> QED
  BY <1>2, <1>3

(* expert_put of an expert that is not cached keeps the cache consistent     *)
(* and evicts nothing that is hot.                                            *)
LEMMA PutKeepsCache ==
    ASSUME CacheInv, NEW id \in Experts, id \notin Cached, ExpertPut(id, id),
           expert_hot' \in Seq(Experts), HotSet' \subseteq HotSet \cup {id}
    PROVE  CacheInv' /\ HotSet \cup {id} \subseteq Cached'
<1> DEFINE budget == IF expert_budget # 0 THEN expert_budget
                     ELSE IF 4 * Bytes[id] > MinExpertBudget THEN 4 * Bytes[id]
                     ELSE MinExpertBudget
           gone == Evicted(Bytes[id], budget)
           kept == Cached \ (gone \cup {id})
<1>1. gone \subseteq Cached \ HotSet
  BY DEF Evicted
<1>2. Cached \subseteq Experts /\ id \in Weights /\ id # NoWeight /\ Bytes[id] \in Nat
  BY StoreAssumption DEF Cached
<1>3. /\ budget \in Nat /\ expert_budget' = budget
      /\ expert_store' = [e \in Experts |-> IF e = id THEN id
                                            ELSE IF e \in kept THEN expert_store[e]
                                            ELSE NoWeight]
      /\ expert_used' = expert_used - TotalBytes[gone \cup (Cached \cap {id})] + Bytes[id]
      /\ expert_lru' = {p \in expert_lru : p[1] \in kept /\ p[2] \in kept}
                           \cup {<<e, id>> : e \in kept}
  BY <1>2, StoreAssumption DEF ExpertPut, CacheInv
<1> HIDE DEF budget, gone
<1>4. Cached' = kept \cup {id} /\ kept = Cached \ gone /\ id \notin kept
  BY <1>1, <1>2, <1>3 DEF Cached
<1>5. HotSet \subseteq Cached
  BY DEF CacheInv, ExpertAccounting
<1>6. HotSet \cup {id} \subseteq Cached'
  BY <1>1, <1>4, <1>5
<1>7. expert_used' \in Nat /\ expert_used' = TotalBytes[Cached']
  <2>1. expert_used = TotalBytes[Cached]
    BY DEF CacheInv, ExpertAccounting
  <2>2. /\ TotalBytes[Cached] \in Nat /\ TotalBytes[gone] \in Nat /\ TotalBytes[kept] \in Nat
        /\ TotalBytes[kept] = TotalBytes[Cached] - TotalBytes[gone]
    BY <1>1, <1>2, <1>4, BytesOfRest
  <2>3. gone \cup (Cached \cap {id}) = gone
    BY <1>1
  <2>4. TotalBytes[Cached'] = TotalBytes[kept] + Bytes[id]
    <3>1. kept \in SUBSET Experts /\ id \notin kept
      BY <1>2, <1>4
    <3>2. TotalBytes[kept \cup {id}] = TotalBytes[kept] + Bytes[id]
      BY <3>1, BytesOfOneMore
    <3> QED
      BY <3>2, <1>4
  <2>5. expert_used' = TotalBytes[Cached] - TotalBytes[gone] + Bytes[id]
    BY <2>1, <2>3, <1>3
  <2> QED
    BY <2>2, <2>4, <2>5, <1>2
<1>8. expert_store' \in [Experts -> Content] /\ \A e \in Cached' : expert_store'[e] = e
  <2>1. \A e \in Cached : expert_store[e] = e
    BY DEF CacheInv, ExpertAccounting
  <2> QED
    BY <2>1, <1>2, <1>3, <1>4 DEF Content, CacheInv
<1>9. expert_lru' \subseteq Experts \X Experts
  BY <1>2, <1>3, <1>4 DEF CacheInv
<1>10. \A p \in expert_lru' : p[1] \in Cached' /\ p[2] \in Cached' /\ p[1] # p[2]
  <2>1. \A p \in expert_lru : p[1] # p[2]
    BY DEF CacheInv, ExpertAccounting
  <2> QED
    BY <2>1, <1>3, <1>4
<1>11. \A d, e \in Cached' : d # e => (<<d, e>> \in expert_lru' <=> <<e, d>> \notin expert_lru')
  <2>1. \A d, e \in Cached : d # e => (<<d, e>> \in expert_lru <=> <<e, d>> \notin expert_lru)
    BY DEF CacheInv, ExpertAccounting
  <2>2. \A p \in expert_lru : p[1] \in Cached /\ p[2] \in Cached
    BY DEF CacheInv, ExpertAccounting
  <2>3. \A d, e \in kept : <<d, e>> \in expert_lru' <=> <<d, e>> \in expert_lru
    BY <1>3, <1>4
  <2>4. \A e \in kept : <<e, id>> \in expert_lru' /\ <<id, e>> \notin expert_lru'
    BY <1>3, <1>4
  <2> QED
    BY <2>1, <2>3, <2>4, <1>4
<1> QED
  BY <1>3, <1>6, <1>7, <1>8, <1>9, <1>10, <1>11 DEF CacheInv, ExpertAccounting

(* A hit only changes the order of the LRU list. *)
LEMMA GetKeepsCache ==
    ASSUME CacheInv, NEW id \in Cached, ExpertGet(id),
           expert_hot' \in Seq(Experts), HotSet' \subseteq HotSet \cup {id}
    PROVE  CacheInv' /\ Cached' = Cached
<1>1. Cached' = Cached
  BY DEF ExpertGet, Cached
<1>2. /\ expert_lru' = {p \in expert_lru : id \notin {p[1], p[2]}}
                           \cup {<<e, id>> : e \in Cached \ {id}}
      /\ Cached \subseteq Experts
  BY DEF ExpertGet, Touched, Cached
<1>3. /\ \A p \in expert_lru : p[1] \in Cached /\ p[2] \in Cached /\ p[1] # p[2]
      /\ \A d, e \in Cached : d # e => (<<d, e>> \in expert_lru <=> <<e, d>> \notin expert_lru)
  BY DEF CacheInv, ExpertAccounting
<1>4. expert_lru' \subseteq Experts \X Experts
  BY <1>2 DEF CacheInv
<1>5. \A p \in expert_lru' : p[1] \in Cached' /\ p[2] \in Cached' /\ p[1] # p[2]
  BY <1>1, <1>2, <1>3
<1>6. \A d, e \in Cached' : d # e => (<<d, e>> \in expert_lru' <=> <<e, d>> \notin expert_lru')
  <2>1. \A d, e \in Cached \ {id} : <<d, e>> \in expert_lru' <=> <<d, e>> \in expert_lru
    BY <1>2
  <2>2. \A e \in Cached \ {id} : <<e, id>> \in expert_lru' /\ <<id, e>> \notin expert_lru'
    BY <1>2
  <2> QED
    BY <2>1, <2>2, <1>1, <1>3
<1> QED
  BY <1>1, <1>4, <1>5, <1>6 DEF CacheInv, ExpertAccounting, ExpertGet

(* A load that succeeds keeps the cache consistent, leaves the weight in the *)
(* slot it was loaded into, and evicts nothing hot.                           *)
LEMMA LoadKeepsCache ==
    ASSUME CacheInv, NEW id \in Weights, NEW slot \in Slot, StagedInto(slot, id),
           expert_hot' \in Seq(Experts), HotSet' \subseteq HotSet \cup ({id} \cap Experts)
    PROVE  /\ CacheInv'
           /\ HotSet \subseteq Cached'
           /\ id \in Experts => id \in Cached'
           /\ buffers' = [buffers EXCEPT ![slot] = id]
           /\ resident' = [resident EXCEPT ![slot] = id]
<1>1. buffers' = [buffers EXCEPT ![slot] = id] /\ resident' = [resident EXCEPT ![slot] = id]
  BY DEF StagedInto, IsHit, CacheInv, ExpertAccounting
<1>2. HotSet \subseteq Cached
  BY DEF CacheInv, ExpertAccounting
<1>3. CASE id \in Cached /\ ExpertGet(id)
  <2>1. id \in Experts
    BY <1>3 DEF Cached
  <2> QED
    BY <1>1, <1>2, <1>3, <2>1, GetKeepsCache
<1>4. CASE id \in Experts /\ id \notin Cached /\ ExpertPut(id, id)
  BY <1>1, <1>4, PutKeepsCache
<1>5. CASE id \notin Experts /\ UNCHANGED <<expert_store, expert_lru, expert_used, expert_budget>>
  BY <1>1, <1>2, <1>5 DEF CacheInv, ExpertAccounting, Cached
<1> QED
  BY <1>3, <1>4, <1>5 DEF StagedInto, IsHit

-----------------------------------------------------------------------------
(* The part that concerns the slots and the task. *)
SlotInv ==
    /\ buffers \in [Slot -> Content] /\ resident \in [Slot -> Id] /\ active \in Slot
    /\ future \in {"none", "running", "writing", "ok", "failed"}
    /\ prefetch_id \in Id /\ task \in [slot : Slot, id : Id]
    /\ SlotHoldsItsResident /\ TaskOwnsInactiveSlot /\ FetchConsistent

OutInv == out \in [id : Id, at : {0, 1, InStore}] /\ OutConsistent

(* The invariant, split into the parts that different steps disturb. *)
LEMMA InvParts == StoreInv <=> SlotInv /\ CacheInv /\ OutInv
BY DEF StoreInv, SlotInv, CacheInv, OutInv, TypeOK

(* A store that was never configured satisfies the invariant. *)
LEMMA InitInv == Init => StoreInv
<1> SUFFICES ASSUME Init PROVE SlotInv /\ CacheInv /\ OutInv
  BY InvParts
<1>1. SlotInv
  BY StoreAssumption DEF Init, SlotInv, SlotHoldsItsResident, TaskOwnsInactiveSlot,
     FetchConsistent, TaskAlive, HasSlot, Slot, Content, Id
<1>2. Cached = {} /\ HotSet = {}
  BY DEF Init, Cached, HotSet
<1>3. TotalBytes[{}] = 0
  <2> DEFINE n == TotalBytes[{}]
  <2>1. {} \in SUBSET Experts /\ {} \cap {} = {} /\ {} \cup {} = {}
    OBVIOUS
  <2>2. n \in Nat
    BY <2>1, StoreAssumption
  <2>3. TotalBytes[{} \cup {}] = n + n
    BY <2>1, StoreAssumption
  <2>4. n = n + n
    BY <2>1, <2>3
  <2> HIDE DEF n
  <2>5. n = 0
    BY <2>2, <2>4
  <2> QED
    BY <2>5 DEF n
<1>4. CacheInv
  BY <1>2, <1>3, StoreAssumption DEF Init, CacheInv, ExpertAccounting, Content
<1>5. OutInv
  BY DEF Init, OutInv, OutConsistent, Nothing, Id, InStore
<1> QED
  BY <1>1, <1>4, <1>5

(* The hot window after stage() has handed out a pointer. *)
LEMMA HandOutInv ==
    ASSUME NEW id \in Weights, NEW hot \in Seq(Experts), HandOut(id, hot),
           active' \in Slot, resident'[active'] = id, future' = "none"
    PROVE  /\ expert_hot' \in Seq(Experts)
           /\ HotSet' \subseteq Elements(hot) \cup ({id} \cap Experts)
           /\ OutInv'
<1>1. CASE id \in Experts /\ expert_store'[id] # NoWeight
  <2>1. expert_hot' = MarkedHot(hot, id) /\ out' = [id |-> id, at |-> InStore]
    BY <1>1 DEF HandOut
  <2>2. /\ expert_hot' \in Seq(Experts)
        /\ Elements(expert_hot') \subseteq Elements(hot) \cup {id}
        /\ id \in Elements(expert_hot')
    BY <1>1, <2>1, MarkedHotType
  <2>3. HotSet' = Elements(expert_hot')
    BY DEF HotSet, Elements
  <2>4. id \in Cached' /\ id \in HotSet'
    BY <1>1, <2>2, <2>3 DEF Cached
  <2>5. OutInv'
    BY <2>1, <2>4 DEF OutInv, OutConsistent, Id
  <2> QED
    BY <1>1, <2>2, <2>3, <2>5
<1>2. CASE ~ (id \in Experts /\ expert_store'[id] # NoWeight)
  <2>1. expert_hot' = hot /\ out' = [id |-> id, at |-> active']
    BY <1>2 DEF HandOut
  <2>2. OutInv'
    BY <2>1 DEF OutInv, OutConsistent, Id, Slot, InStore
  <2> QED
    BY <2>1, <2>2 DEF HotSet, Elements
<1> QED
  BY <1>1, <1>2

(* Marking hot what is cached does not disturb the cache. *)
LEMMA HotKeepsCache ==
    ASSUME CacheInv, NEW id \in Weights,
           UNCHANGED <<expert_store, expert_lru, expert_used, expert_budget>>,
           expert_hot' \in Seq(Experts), HotSet' \subseteq HotSet \cup ({id} \cap Cached)
    PROVE  CacheInv'
<1>1. Cached' = Cached
  BY DEF Cached
<1> QED
  BY <1>1 DEF CacheInv, ExpertAccounting

(* Every step of the store, one case per action, keeps the invariant.       *)
LEMMA StepInv == StoreInv /\ [Next]_storeVars => StoreInv'
<1> SUFFICES ASSUME SlotInv, CacheInv, OutInv, [Next]_storeVars
             PROVE  SlotInv' /\ CacheInv' /\ OutInv'
  BY DEF StoreInv, SlotInv, CacheInv, OutInv, TypeOK
<1> USE StoreAssumption DEF Slot
<1>1. CASE Configure
  <2>1. SlotInv'
    BY <1>1 DEF Configure, SlotInv, SlotHoldsItsResident, TaskOwnsInactiveSlot,
       FetchConsistent, TaskAlive, HasSlot, Content, Id
  <2>2. Cached' = {} /\ HotSet' = {}
    BY <1>1 DEF Configure, Cached, HotSet
  <2>3. TotalBytes[{}] = 0
    BY BytesOfRest
  <2>4. CacheInv'
    BY <1>1, <2>2, <2>3 DEF Configure, CacheInv, ExpertAccounting, Content
  <2>5. OutInv'
    BY <1>1 DEF Configure, OutInv, OutConsistent, Nothing, Id, InStore
  <2> QED
    BY <2>1, <2>4, <2>5
<1>2. ASSUME NEW id \in Weights, Prefetch(id)
      PROVE  SlotInv' /\ CacheInv' /\ OutInv'
  <2>1. SlotInv'
    BY <1>2 DEF Prefetch, CanPrefetch, SlotInv, SlotHoldsItsResident,
       TaskOwnsInactiveSlot, FetchConsistent, TaskAlive, HasSlot, slotVars, Id
  <2>2. CacheInv'
    BY <1>2 DEF Prefetch, cacheVars, CacheInv, ExpertAccounting, Cached, HotSet
  <2>3. OutInv'
    BY <1>2 DEF Prefetch, CanPrefetch, slotVars, cacheVars, OutInv, OutConsistent, Cached, HotSet
  <2> QED
    BY <2>1, <2>2, <2>3
<1>3. CASE TaskWrites
  <2>1. SlotInv'
    BY <1>3 DEF TaskWrites, SlotInv, SlotHoldsItsResident, TaskOwnsInactiveSlot,
       FetchConsistent, TaskAlive, HasSlot, Content, Id
  <2>2. CacheInv'
    BY <1>3 DEF TaskWrites, cacheVars, CacheInv, ExpertAccounting, Cached, HotSet
  <2>3. OutInv'
    BY <1>3 DEF TaskWrites, cacheVars, OutInv, OutConsistent, Cached, HotSet
  <2> QED
    BY <2>1, <2>2, <2>3
<1>4. CASE TaskDone
  <2>1. /\ future = "writing" /\ future' = "ok" /\ StagedInto(task.slot, task.id)
        /\ expert_hot' = HotAfter(task.id) /\ UNCHANGED <<active, prefetch_id, task, out>>
    BY <1>4 DEF TaskDone
  <2>2. /\ task.id \in Weights /\ task.slot \in Slot /\ task.slot = 1 - active
        /\ prefetch_id = task.id /\ task.id \notin {resident[0], resident[1]}
    BY <2>1 DEF SlotInv, FetchConsistent, TaskOwnsInactiveSlot, TaskAlive
  <2>3. /\ expert_hot' \in Seq(Experts)
        /\ HotSet' \subseteq HotSet \cup ({task.id} \cap Experts)
    <3>1. CASE task.id \in Experts /\ ~ IsHit(task.id)
      <4>1. expert_hot' = MarkedHot(expert_hot, task.id)
        BY <2>1, <3>1 DEF HotAfter
      <4>2. expert_hot \in Seq(Experts)
        BY DEF CacheInv
      <4>3. HotSet = Elements(expert_hot) /\ HotSet' = Elements(expert_hot')
        BY DEF Elements, HotSet
      <4>4. /\ MarkedHot(expert_hot, task.id) \in Seq(Experts)
            /\ Elements(MarkedHot(expert_hot, task.id)) \subseteq Elements(expert_hot) \cup {task.id}
        BY <3>1, <4>2, MarkedHotType
      <4> QED
        BY <3>1, <4>1, <4>3, <4>4
    <3>2. CASE ~ (task.id \in Experts /\ ~ IsHit(task.id))
      BY <2>1, <3>2 DEF HotAfter, HotSet, CacheInv
    <3> QED
      BY <3>1, <3>2
  <2>4. /\ CacheInv' /\ HotSet \subseteq Cached'
        /\ buffers' = [buffers EXCEPT ![task.slot] = task.id]
        /\ resident' = [resident EXCEPT ![task.slot] = task.id]
    BY <2>1, <2>2, <2>3, LoadKeepsCache
  <2>5. SlotInv'
    BY <2>1, <2>2, <2>4 DEF SlotInv, SlotHoldsItsResident, TaskOwnsInactiveSlot,
       FetchConsistent, TaskAlive, HasSlot, Content, Id
  <2>6. OutInv'
    BY <2>1, <2>2, <2>4 DEF OutInv, OutConsistent, SlotInv
  <2> QED
    BY <2>4, <2>5, <2>6
<1>5. CASE TaskFailed
  <2>1. SlotInv'
    BY <1>5 DEF TaskFailed, FailsTorn, slotVars, SlotInv, SlotHoldsItsResident,
       TaskOwnsInactiveSlot, FetchConsistent, TaskAlive, HasSlot
  <2>2. CacheInv'
    BY <1>5 DEF TaskFailed, cacheVars, CacheInv, ExpertAccounting, Cached, HotSet
  <2>3. OutInv'
    BY <1>5 DEF TaskFailed, slotVars, cacheVars, OutInv, OutConsistent, Cached, HotSet
  <2> QED
    BY <2>1, <2>2, <2>3
<1>6. ASSUME NEW id \in Weights, StagePrefetched(id) \/ StageResident(id)
      PROVE  SlotInv' /\ CacheInv' /\ OutInv'
  <2>1. /\ future' = "none" /\ ~ TaskAlive /\ prefetch_id' \in Id
        /\ UNCHANGED <<task, buffers, resident>>
        /\ UNCHANGED <<expert_store, expert_lru, expert_used, expert_budget>>
        /\ HandOut(id, expert_hot)
    BY <1>6 DEF StagePrefetched, StageResident, FutureConsumed, SlotInv, Id
  <2>2. active' \in Slot /\ resident'[active'] = id
    BY <1>6, <2>1 DEF StagePrefetched, StageResident, IsPrefetched, SlotInv, FetchConsistent, HasSlot
  <2>3. /\ expert_hot' \in Seq(Experts) /\ OutInv'
        /\ HotSet' \subseteq HotSet \cup ({id} \cap Experts)
    <3>1. expert_hot \in Seq(Experts) /\ Elements(expert_hot) = HotSet
      BY DEF CacheInv, Elements, HotSet
    <3> QED
      BY <2>1, <2>2, <3>1, HandOutInv
  <2>4. HotSet' \subseteq HotSet \cup ({id} \cap Cached)
    <3>1. CASE id \in Cached
      BY <2>3, <3>1
    <3>2. CASE id \notin Cached
      BY <2>1, <3>2 DEF HandOut, Cached, HotSet
    <3> QED
      BY <3>1, <3>2
  <2>5. CacheInv'
    BY <2>1, <2>3, <2>4, HotKeepsCache
  <2>6. SlotInv'
    BY <2>1, <2>2 DEF SlotInv, SlotHoldsItsResident, TaskOwnsInactiveSlot,
       FetchConsistent, TaskAlive, HasSlot
  <2> QED
    BY <2>3, <2>5, <2>6
<1>7. ASSUME NEW id \in Weights, StagePrefetchFailed(id)
      PROVE  SlotInv' /\ CacheInv' /\ OutInv'
  <2>1. SlotInv'
    BY <1>7 DEF StagePrefetchFailed, FutureConsumed, slotVars, SlotInv, SlotHoldsItsResident,
       TaskOwnsInactiveSlot, FetchConsistent, TaskAlive, HasSlot, Id
  <2>2. CacheInv'
    BY <1>7 DEF StagePrefetchFailed, cacheVars, CacheInv, ExpertAccounting, Cached, HotSet
  <2>3. OutInv'
    BY <1>7 DEF StagePrefetchFailed, OutInv, OutConsistent, Nothing, Id, InStore
  <2> QED
    BY <2>1, <2>2, <2>3
<1>8. ASSUME NEW id \in Weights, StageLoad(id)
      PROVE  SlotInv' /\ CacheInv' /\ OutInv'
  <2>1. /\ MustLoad(id) /\ future' = "none" /\ ~ TaskAlive /\ prefetch_id' \in Id
        /\ UNCHANGED <<task, active>> /\ StagedInto(active, id) /\ HandOut(id, HotAfter(id))
    BY <1>8 DEF StageLoad, FutureConsumed, SlotInv, Id
  <2>2. active \in Slot /\ active' \in Slot /\ resident'[active'] = id
    BY <2>1 DEF SlotInv, StagedInto
  <2>3. HotAfter(id) \in Seq(Experts) /\ Elements(HotAfter(id)) \subseteq HotSet \cup ({id} \cap Experts)
    <3>1. expert_hot \in Seq(Experts) /\ Elements(expert_hot) = HotSet
      BY DEF CacheInv, Elements, HotSet
    <3>2. CASE id \in Experts /\ ~ IsHit(id)
      BY <3>1, <3>2, MarkedHotType DEF HotAfter
    <3>3. CASE ~ (id \in Experts /\ ~ IsHit(id))
      BY <3>1, <3>3 DEF HotAfter
    <3> QED
      BY <3>2, <3>3
  <2>4. /\ expert_hot' \in Seq(Experts) /\ OutInv'
        /\ HotSet' \subseteq HotSet \cup ({id} \cap Experts)
    BY <2>1, <2>2, <2>3, HandOutInv
  <2>5. /\ CacheInv'
        /\ buffers' = [buffers EXCEPT ![active] = id]
        /\ resident' = [resident EXCEPT ![active] = id]
    BY <2>1, <2>2, <2>4, LoadKeepsCache
  <2>6. resident[1 - active] # id
    BY <2>1, <2>2 DEF MustLoad, HasSlot, SlotInv, FetchConsistent
  <2>7. SlotInv'
    BY <2>1, <2>2, <2>5, <2>6 DEF SlotInv, SlotHoldsItsResident, TaskOwnsInactiveSlot,
       FetchConsistent, TaskAlive, HasSlot, Content, Id
  <2> QED
    BY <2>4, <2>5, <2>7
<1>9. ASSUME NEW id \in Weights, StageLoadFailed(id)
      PROVE  SlotInv' /\ CacheInv' /\ OutInv'
  <2>1. SlotInv'
    BY <1>9 DEF StageLoadFailed, StageIntoFailed, FailsTorn, FutureConsumed, SlotInv,
       SlotHoldsItsResident, TaskOwnsInactiveSlot, FetchConsistent, TaskAlive, HasSlot, Content, Id
  <2>2. CacheInv'
    BY <1>9 DEF StageLoadFailed, StageIntoFailed, cacheVars, CacheInv, ExpertAccounting, Cached, HotSet
  <2>3. OutInv'
    BY <1>9 DEF StageLoadFailed, OutInv, OutConsistent, Nothing, Id, InStore
  <2> QED
    BY <2>1, <2>2, <2>3
<1>10. CASE UNCHANGED storeVars
  <2>1. SlotInv'
    BY <1>10 DEF storeVars, SlotInv, SlotHoldsItsResident, TaskOwnsInactiveSlot,
       FetchConsistent, TaskAlive, HasSlot
  <2>2. CacheInv'
    BY <1>10 DEF storeVars, CacheInv, ExpertAccounting, Cached, HotSet
  <2>3. OutInv'
    BY <1>10 DEF storeVars, OutInv, OutConsistent, Cached, HotSet
  <2> QED
    BY <2>1, <2>2, <2>3
<1> QED
  BY <1>1, <1>2, <1>3, <1>4, <1>5, <1>6, <1>7, <1>8, <1>9, <1>10 DEF Next, Stage

(* Every reachable state satisfies the inductive invariant. *)
THEOREM StoreInvariant == Spec => []StoreInv
BY InitInv, StepInv, PTL DEF Spec

(* Every variable keeps its type. *)
THEOREM StoreTypeCorrect == Spec => []TypeOK
<1>1. StoreInv => TypeOK
  BY DEF StoreInv
<1> QED
  BY <1>1, StoreInvariant, PTL

(* The task never writes the slot compute reads from, and a slot on which    *)
(* no task works never holds another weight than resident_ says.              *)
THEOREM SlotsAreSafe == Spec => [](SlotHoldsItsResident /\ TaskOwnsInactiveSlot)
<1>1. StoreInv => SlotHoldsItsResident /\ TaskOwnsInactiveSlot
  BY DEF StoreInv
<1> QED
  BY <1>1, StoreInvariant, PTL

(* The counters and lists of the expert cache describe what is cached. *)
THEOREM ExpertCacheConsistent == Spec => []ExpertAccounting
<1>1. StoreInv => ExpertAccounting
  BY DEF StoreInv
<1> QED
  BY <1>1, StoreInvariant, PTL

(* If no load fails half way, what stage() returned reads the weight that    *)
(* was asked for: a pointer into the cache or into an intact active slot.     *)
LEMMA StagedReads == ASSUME "torn" \notin Failures PROVE StoreInv => StagedIntact
<1> SUFFICES ASSUME StoreInv, out.id # NoWeight PROVE Reads(out) = out.id
  BY DEF StagedIntact
<1>1. CASE out.at = InStore
  BY <1>1 DEF StoreInv, OutConsistent, ExpertAccounting, Reads, ReadsFrom
<1>2. CASE out.at # InStore
  <2>1. out.at = active /\ resident[active] = out.id /\ active \in Slot
    BY <1>2 DEF StoreInv, OutConsistent, TypeOK
  <2>2. buffers[active] = resident[active]
    BY <2>1, StoreAssumption DEF StoreInv, SlotHoldsItsResident, TaskOwnsInactiveSlot,
       TaskAlive, Slot
  <2> QED
    BY <1>2, <2>1, <2>2 DEF Reads, ReadsFrom
<1> QED
  BY <1>1, <1>2

(* It does so until the next stage(), whatever the task does meanwhile. *)
THEOREM StagedStaysIntact ==
    ASSUME "torn" \notin Failures
    PROVE  Spec => []StagedIntact
BY StagedReads, StoreInvariant, PTL

-----------------------------------------------------------------------------
(* The hot window never grows beyond its width ... *)
LEMMA MarkedHotLength ==
    ASSUME NEW hot \in Seq(Experts), NEW id \in Experts
    PROVE  Len(MarkedHot(hot, id)) <= MaxHot
<1> DEFINE all == Append(Without(hot, id), id)
           a   == IF Len(all) > MaxHot THEN Len(all) - MaxHot + 1 ELSE 1
<1>1. MaxHot \in Nat \ {0}
  BY StoreAssumption
<1>2. Without(hot, id) \in Seq(Experts)
  BY WithoutType
<1>3. all \in Seq(Experts) /\ Len(all) \in Nat \ {0}
  BY <1>2
<1>4. MarkedHot(hot, id) = SubSeq(all, a, Len(all))
  BY DEF MarkedHot
<1> HIDE DEF all
<1>5. a \in 1 .. Len(all) /\ Len(all) - a + 1 <= MaxHot
  BY <1>1, <1>3
<1> HIDE DEF a
<1>6. Len(SubSeq(all, a, Len(all))) = Len(all) - a + 1
  BY <1>3, <1>5
<1> QED
  BY <1>4, <1>5, <1>6

(* ... and has no more members than entries. *)
LEMMA HotSetSmall ==
    ASSUME expert_hot \in Seq(Experts)
    PROVE  IsFiniteSet(HotSet) /\ Cardinality(HotSet) <= Len(expert_hot)
<1> DEFINE D == 1 .. Len(expert_hot)
           f == [i \in D |-> expert_hot[i]]
<1>1. Len(expert_hot) \in Nat /\ DOMAIN expert_hot = D
  OBVIOUS
<1>2. IsFiniteSet(D) /\ Cardinality(D) = Len(expert_hot)
  BY <1>1, FS_Interval
<1>3. f \in Surjection(D, HotSet)
  BY <1>1 DEF HotSet, Surjection
<1> QED
  BY <1>2, <1>3, FS_Surjection

(* The survivors of the eviction loop fit, unless all of them are hot: the   *)
(* least recent cold survivor has only evicted experts before it.            *)
LEMMA ColdSurvivorsFit ==
    ASSUME CacheInv, EvictionInv, NEW incoming \in Nat, NEW budget \in Nat,
           Cached \ (HotSet \cup Evicted(incoming, budget)) # {}
    PROVE  expert_used - TotalBytes[Evicted(incoming, budget)] + incoming <= budget
<1> DEFINE cold == Cached \ HotSet
           before(e) == {c \in cold : <<c, e>> \in expert_lru}
           gone == Evicted(incoming, budget)
           left == cold \ gone
<1>1. gone = {e \in cold : expert_used - TotalBytes[before(e)] + incoming > budget}
  BY DEF Evicted
<1>2. cold \in SUBSET Experts /\ gone \subseteq cold /\ left # {} /\ left \subseteq cold
  BY <1>1 DEF Cached
<1>3. /\ \A c, d \in Cached : c # d => (<<c, d>> \in expert_lru <=> <<d, c>> \notin expert_lru)
      /\ \A p \in expert_lru : p[1] # p[2]
      /\ expert_used \in Nat
  BY DEF CacheInv, ExpertAccounting
<1>4. \A c, d, e \in Cached :
         <<c, d>> \in expert_lru /\ <<d, e>> \in expert_lru => <<c, e>> \in expert_lru
  BY DEF EvictionInv
<1>5. \A e \in cold : before(e) \in SUBSET cold /\ before(e) \in SUBSET Experts
  BY <1>2
<1> HIDE DEF gone
<1>6. \A e \in left : before(e) \in SUBSET Experts /\ TotalBytes[before(e)] \in Nat
  BY <1>2, <1>5, StoreAssumption
<1>7. PICK e \in left : \A d \in left : TotalBytes[before(e)] <= TotalBytes[before(d)]
  <2> HIDE DEF before, left
  <2> DEFINE sizes == {TotalBytes[before(e)] : e \in left}
  <2>1. sizes \in SUBSET Nat /\ sizes # {}
    BY <1>2, <1>6
  <2> HIDE DEF sizes
  <2>2. PICK n \in sizes : \A m \in sizes : n <= m
    BY <2>1, LeastNat
  <2> USE DEF sizes
  <2>3. PICK e \in left : n = TotalBytes[before(e)]
    BY <2>2
  <2>4. \A d \in left : TotalBytes[before(d)] \in sizes
    OBVIOUS
  <2> HIDE DEF sizes
  <2> QED
    BY <2>2, <2>3, <2>4
<1>8. before(e) \subseteq gone
  <2> SUFFICES ASSUME NEW c \in before(e), c \in left PROVE FALSE
    BY <1>2
  <2>1. before(c) \subseteq before(e)
    BY <1>2, <1>4
  <2>2. c \notin before(c)
    BY <1>3
  <2>3. before(c) \cup {c} \in SUBSET before(e)
    BY <2>1
  <2>4. TotalBytes[before(c) \cup {c}] = TotalBytes[before(c)] + Bytes[c]
    BY <1>2, <1>5, <2>2, BytesOfOneMore
  <2>5. /\ TotalBytes[before(e)] \in Nat /\ TotalBytes[before(c) \cup {c}] \in Nat
        /\ TotalBytes[before(e) \ (before(c) \cup {c})] \in Nat
        /\ TotalBytes[before(e) \ (before(c) \cup {c})]
             = TotalBytes[before(e)] - TotalBytes[before(c) \cup {c}]
    BY <1>2, <1>5, <2>3, BytesOfRest
  <2>6. Bytes[c] \in Nat \ {0} /\ TotalBytes[before(c)] \in Nat
    BY <1>2, <1>5, StoreAssumption
  <2>7. TotalBytes[before(e)] <= TotalBytes[before(c)]
    BY <1>7
  <2> HIDE DEF before
  <2> QED
    BY <2>4, <2>5, <2>6, <2>7
<1>9. /\ TotalBytes[gone] \in Nat /\ TotalBytes[before(e)] \in Nat
      /\ TotalBytes[before(e)] <= TotalBytes[gone]
  <2>1. gone \in SUBSET Experts /\ before(e) \in SUBSET gone
    BY <1>2, <1>8
  <2>2. /\ TotalBytes[gone] \in Nat /\ TotalBytes[before(e)] \in Nat
        /\ TotalBytes[gone \ before(e)] \in Nat
        /\ TotalBytes[gone \ before(e)] = TotalBytes[gone] - TotalBytes[before(e)]
    BY <2>1, BytesOfRest
  <2> HIDE DEF before
  <2> QED
    BY <2>2
<1>10. ~ (expert_used - TotalBytes[before(e)] + incoming > budget)
  BY <1>1, <1>2
<1> HIDE DEF before
<1> QED
  BY <1>3, <1>9, <1>10 DEF gone

(* A step that leaves the cache alone leaves its bound and its order alone. *)
LEMMA CacheUntouched ==
    ASSUME EvictionInv, UNCHANGED <<expert_store, expert_lru, expert_used, expert_budget>>
    PROVE  /\ ExpertCacheBounded'
           /\ \A c, d, e \in Cached' :
                 <<c, d>> \in expert_lru' /\ <<d, e>> \in expert_lru' => <<c, e>> \in expert_lru'
<1>1. Cached' = Cached
  BY DEF Cached
<1> QED
  BY <1>1 DEF EvictionInv, ExpertCacheBounded

(* expert_put leaves a cache within its budget, or nothing in it but the hot *)
(* experts and the new one.                                                   *)
LEMMA PutKeepsBound ==
    ASSUME CacheInv, CacheInv', EvictionInv, NEW id \in Experts, id \notin Cached, ExpertPut(id, id)
    PROVE  /\ ExpertCacheBounded'
           /\ \A c, d, e \in Cached' :
                 <<c, d>> \in expert_lru' /\ <<d, e>> \in expert_lru' => <<c, e>> \in expert_lru'
<1> DEFINE budget == IF expert_budget # 0 THEN expert_budget
                     ELSE IF 4 * Bytes[id] > MinExpertBudget THEN 4 * Bytes[id]
                     ELSE MinExpertBudget
           gone == Evicted(Bytes[id], budget)
           kept == Cached \ (gone \cup {id})
<1>1. Bytes[id] \in Nat /\ id # NoWeight /\ budget \in Nat
  BY StoreAssumption DEF CacheInv
<1>2. /\ expert_budget' = budget
      /\ expert_store' = [e \in Experts |-> IF e = id THEN id
                                            ELSE IF e \in kept THEN expert_store[e]
                                            ELSE NoWeight]
      /\ expert_used' = expert_used - TotalBytes[gone \cup (Cached \cap {id})] + Bytes[id]
      /\ expert_lru' = {p \in expert_lru : p[1] \in kept /\ p[2] \in kept}
                           \cup {<<e, id>> : e \in kept}
  BY DEF ExpertPut
<1>3. gone \subseteq Cached
  BY DEF Evicted
<1> HIDE DEF budget
<1>4. kept \ HotSet # {} => expert_used - TotalBytes[gone] + Bytes[id] <= budget
  <2>1. kept \ HotSet \subseteq Cached \ (HotSet \cup gone)
    OBVIOUS
  <2> QED
    BY <1>1, <2>1, ColdSurvivorsFit
<1> HIDE DEF gone
<1>5. Cached' = kept \cup {id} /\ id \notin kept
  BY <1>1, <1>2 DEF Cached
<1>6. ExpertCacheBounded'
  <2>1. CASE kept \ HotSet # {}
    <3>1. gone \cup (Cached \cap {id}) = gone
      OBVIOUS
    <3> QED
      BY <1>2, <1>4, <2>1, <3>1 DEF ExpertCacheBounded
  <2>2. CASE kept \subseteq HotSet
    <3>1. /\ IsFiniteSet(HotSet) /\ Cardinality(HotSet) <= Len(expert_hot)
          /\ Len(expert_hot) \in Nat /\ Len(expert_hot) <= MaxHot
      BY HotSetSmall DEF CacheInv, EvictionInv
    <3>2. IsFiniteSet(kept) /\ Cardinality(kept) <= Cardinality(HotSet)
      BY <2>2, <3>1, FS_Subset
    <3>3. Cardinality(kept \cup {id}) = Cardinality(kept) + 1
      BY <1>5, <3>2, FS_AddElement
    <3>4. Cardinality(kept) \in Nat /\ Cardinality(HotSet) \in Nat /\ MaxHot \in Nat
      BY <3>1, <3>2, FS_CardinalityType, StoreAssumption
    <3>5. Cardinality(Cached') <= MaxHot + 1
      BY <1>5, <3>1, <3>2, <3>3, <3>4
    <3> QED
      BY <3>5 DEF ExpertCacheBounded
  <2> QED
    BY <2>1, <2>2
<1>7. ASSUME NEW c \in Cached', NEW d \in Cached', NEW e \in Cached',
             <<c, d>> \in expert_lru', <<d, e>> \in expert_lru'
      PROVE  <<c, e>> \in expert_lru'
  <2>1. <<c, d>> \in expert_lru /\ c \in kept /\ d \in kept
    <3>1. d # id
      BY <1>2, <1>5, <1>7
    <3> QED
      BY <1>2, <1>7, <3>1
  <2>2. CASE e = id
    BY <1>2, <2>1, <2>2
  <2>3. CASE e # id
    <3>1. <<d, e>> \in expert_lru /\ e \in kept
      BY <1>2, <1>7, <2>3
    <3>2. <<c, e>> \in expert_lru
      BY <2>1, <3>1 DEF EvictionInv
    <3> QED
      BY <1>2, <2>1, <3>1, <3>2
  <2> QED
    BY <2>2, <2>3
<1> QED
  BY <1>6, <1>7

(* A hit keeps the list transitive and the cache as large as it was. *)
LEMMA GetKeepsBound ==
    ASSUME CacheInv, EvictionInv, NEW id \in Cached, ExpertGet(id)
    PROVE  /\ ExpertCacheBounded'
           /\ \A c, d, e \in Cached' :
                 <<c, d>> \in expert_lru' /\ <<d, e>> \in expert_lru' => <<c, e>> \in expert_lru'
<1>1. Cached' = Cached
  BY DEF ExpertGet, Cached
<1>2. expert_lru' = {p \in expert_lru : id \notin {p[1], p[2]}}
                        \cup {<<e, id>> : e \in Cached \ {id}}
  BY DEF ExpertGet, Touched
<1>3. ExpertCacheBounded'
  BY <1>1 DEF ExpertGet, EvictionInv, ExpertCacheBounded
<1>4. ASSUME NEW c \in Cached, NEW d \in Cached, NEW e \in Cached,
             <<c, d>> \in expert_lru', <<d, e>> \in expert_lru'
      PROVE  <<c, e>> \in expert_lru'
  <2>1. d # id /\ c # id
    BY <1>2, <1>4
  <2>2. <<c, d>> \in expert_lru
    BY <1>2, <1>4, <2>1
  <2>3. CASE e = id
    BY <1>2, <2>1, <2>3
  <2>4. CASE e # id
    <3>1. <<d, e>> \in expert_lru
      BY <1>2, <1>4, <2>4
    <3>2. <<c, e>> \in expert_lru
      BY <2>2, <3>1 DEF EvictionInv
    <3> QED
      BY <1>2, <2>1, <2>4, <3>2
  <2> QED
    BY <2>3, <2>4
<1> QED
  BY <1>1, <1>3, <1>4

(* So does any load that succeeds. *)
LEMMA LoadKeepsBound ==
    ASSUME CacheInv, CacheInv', EvictionInv, NEW id \in Weights, NEW slot, StagedInto(slot, id)
    PROVE  /\ ExpertCacheBounded'
           /\ \A c, d, e \in Cached' :
                 <<c, d>> \in expert_lru' /\ <<d, e>> \in expert_lru' => <<c, e>> \in expert_lru'
<1>1. CASE id \in Cached /\ ExpertGet(id)
  BY <1>1, GetKeepsBound
<1>2. CASE id \in Experts /\ id \notin Cached /\ ExpertPut(id, id)
  BY <1>2, PutKeepsBound
<1>3. CASE UNCHANGED <<expert_store, expert_lru, expert_used, expert_budget>>
  BY <1>3, CacheUntouched
<1> QED
  BY <1>1, <1>2, <1>3 DEF StagedInto, IsHit

(* Every handing out keeps the hot window within its width. *)
LEMMA HandOutLength ==
    ASSUME NEW id, NEW hot \in Seq(Experts), Len(hot) <= MaxHot, HandOut(id, hot)
    PROVE  Len(expert_hot') <= MaxHot
BY MarkedHotLength DEF HandOut

LEMMA HotAfterLength ==
    ASSUME CacheInv, EvictionInv, NEW id
    PROVE  HotAfter(id) \in Seq(Experts) /\ Len(HotAfter(id)) <= MaxHot
BY MarkedHotLength, MarkedHotType DEF HotAfter, CacheInv, EvictionInv

LEMMA StepEviction == StoreInv /\ StoreInv' /\ EvictionInv /\ [Next]_storeVars => EvictionInv'
<1> SUFFICES ASSUME SlotInv, CacheInv, CacheInv', EvictionInv, [Next]_storeVars
             PROVE  EvictionInv'
  BY InvParts DEF StoreInv, CacheInv, TypeOK
<1>0. expert_hot \in Seq(Experts) /\ Len(expert_hot) <= MaxHot
  BY DEF CacheInv, EvictionInv
<1>1. CASE Configure
  <2>1. Cached' = {} /\ expert_used' = 0 /\ expert_hot' = << >> /\ expert_budget' \in Nat
    BY <1>1, StoreAssumption DEF Configure, Cached
  <2> QED
    BY <2>1, StoreAssumption DEF EvictionInv, ExpertCacheBounded
<1>2. CASE UNCHANGED cacheVars
  BY <1>0, <1>2, CacheUntouched DEF cacheVars, EvictionInv
<1>3. CASE TaskDone
  <2>1. /\ task.id \in Weights /\ StagedInto(task.slot, task.id)
        /\ expert_hot' = HotAfter(task.id)
    BY <1>3 DEF TaskDone, SlotInv, FetchConsistent, TaskAlive
  <2>2. Len(expert_hot') <= MaxHot
    BY <2>1, HotAfterLength
  <2> QED
    BY <2>1, <2>2, LoadKeepsBound DEF EvictionInv
<1>4. ASSUME NEW id \in Weights, StagePrefetched(id) \/ StageResident(id)
      PROVE  EvictionInv'
  <2>1. /\ UNCHANGED <<expert_store, expert_lru, expert_used, expert_budget>>
        /\ HandOut(id, expert_hot)
    BY <1>4 DEF StagePrefetched, StageResident
  <2>2. Len(expert_hot') <= MaxHot
    BY <1>0, <2>1, HandOutLength
  <2> QED
    BY <2>1, <2>2, CacheUntouched DEF EvictionInv
<1>5. ASSUME NEW id \in Weights, StageLoad(id)
      PROVE  EvictionInv'
  <2>1. StagedInto(active, id) /\ HandOut(id, HotAfter(id))
    BY <1>5 DEF StageLoad
  <2>2. Len(expert_hot') <= MaxHot
    BY <2>1, HotAfterLength, HandOutLength
  <2> QED
    BY <2>1, <2>2, LoadKeepsBound DEF EvictionInv
<1>6. ASSUME Next, ~ Configure, ~ TaskDone,
             \A id \in Weights : ~ (StagePrefetched(id) \/ StageResident(id) \/ StageLoad(id))
      PROVE  UNCHANGED cacheVars
  BY <1>6 DEF Next, Prefetch, TaskWrites, TaskFailed, Stage, StagePrefetchFailed,
     StageLoadFailed, StageIntoFailed
<1> QED
  BY <1>1, <1>2, <1>3, <1>4, <1>5, <1>6 DEF storeVars, cacheVars

(* The expert cache exceeds its budget only while nothing cold is left to    *)
(* evict, for every window, budget and size of the experts.                   *)
THEOREM ExpertCacheStaysBounded == Spec => []ExpertCacheBounded
<1>1. Init => EvictionInv
  <2> SUFFICES ASSUME Init PROVE EvictionInv
    OBVIOUS
  <2>1. Cached = {} /\ expert_used = 0 /\ expert_hot = << >> /\ expert_budget \in Nat
    BY StoreAssumption DEF Init, Cached
  <2> QED
    BY <2>1, StoreAssumption DEF EvictionInv, ExpertCacheBounded
<1>2. EvictionInv => ExpertCacheBounded
  BY DEF EvictionInv
<1> QED
  BY <1>1, <1>2, StepEviction, StoreInvariant, PTL DEF Spec

(***************************************************************************)
(* The hot window.                                                          *)
(***************************************************************************)

(* Removing an element that occurs once moves the later ones down by one. *)
LEMMA WithoutAt ==
    ASSUME NEW S, NEW s \in Seq(S), EachOnce(s), NEW i \in 1 .. Len(s)
    PROVE  /\ Without(s, s[i]) \in Seq(S)
           /\ Len(Without(s, s[i])) = Len(s) - 1
           /\ \A j \in 1 .. (Len(s) - 1) :
                 Without(s, s[i])[j] = IF j < i THEN s[j] ELSE s[j + 1]
<1> DEFINE x == s[i]
           c == CHOOSE j \in DOMAIN s : s[j] = x
           l == SubSeq(s, 1, i - 1)
           r == SubSeq(s, i + 1, Len(s))
<1>1. c = i /\ \E j \in DOMAIN s : s[j] = x
  BY DEF EachOnce
<1>2. Without(s, x) = SubSeq(s, 1, c - 1) \o SubSeq(s, c + 1, Len(s))
  <2> HIDE DEF x
  <2> QED
    BY <1>1 DEF Without
<1>3. /\ l \in Seq(S) /\ Len(l) = i - 1
      /\ \A j \in 1 .. (i - 1) : l[j] = s[j]
  OBVIOUS
<1>4. /\ r \in Seq(S) /\ Len(r) = Len(s) - i
      /\ \A j \in 1 .. (Len(s) - i) : r[j] = s[i + j]
  OBVIOUS
<1> HIDE DEF l, r
<1>5. Len(l) \in Nat /\ Len(r) \in Nat /\ Len(l) + Len(r) = Len(s) - 1
  BY <1>3, <1>4
<1>6. /\ l \o r \in Seq(S) /\ Len(l \o r) = Len(l) + Len(r)
      /\ \A j \in 1 .. (Len(l) + Len(r)) :
            (l \o r)[j] = IF j <= Len(l) THEN l[j] ELSE r[j - Len(l)]
  <2>1. l \in Seq(S) /\ r \in Seq(S)
    BY <1>3, <1>4
  <2> QED
    BY <2>1
<1>7. ASSUME NEW j \in 1 .. (Len(s) - 1)
      PROVE  (l \o r)[j] = IF j < i THEN s[j] ELSE s[j + 1]
  <2>1. CASE j < i
    BY <2>1, <1>3, <1>5, <1>6
  <2>2. CASE ~ (j < i)
    <3>1. j - (i - 1) \in 1 .. (Len(s) - i) /\ i + (j - (i - 1)) = j + 1
      BY <2>2
    <3> QED
      BY <3>1, <2>2, <1>3, <1>4, <1>5, <1>6
  <2> QED
    BY <2>1, <2>2
<1>8. Without(s, x) = l \o r
  BY <1>1, <1>2 DEF l, r
<1> QED
  BY <1>6, <1>7, <1>8, <1>5

(* Marking an expert hot lists it once, as the newest. *)
LEMMA MarkedHotAt ==
    ASSUME NEW hot \in Seq(Experts), NEW x \in Experts
    PROVE  LET all == Append(Without(hot, x), x)
               m   == MarkedHot(hot, x)
           IN  /\ Without(hot, x) \in Seq(Experts)
               /\ Len(m) = IF Len(all) > MaxHot THEN MaxHot ELSE Len(all)
               /\ m \in Seq(Experts)
               /\ \A j \in 1 .. Len(m) : m[j] = all[j + (Len(all) - Len(m))]
<1> DEFINE w   == Without(hot, x)
           all == Append(w, x)
           a   == IF Len(all) > MaxHot THEN Len(all) - MaxHot + 1 ELSE 1
<1>1. w \in Seq(Experts)
  BY WithoutType
<1>2. MarkedHot(hot, x) = SubSeq(all, a, Len(all))
  BY DEF MarkedHot
<1>3. all \in Seq(Experts) /\ Len(all) \in Nat \ {0} /\ MaxHot \in Nat \ {0}
  BY <1>1, StoreAssumption
<1> HIDE DEF w, all
<1>4. a \in 1 .. Len(all) /\ Len(all) - a + 1 = IF Len(all) > MaxHot THEN MaxHot ELSE Len(all)
  BY <1>3
<1> HIDE DEF a
<1>5. /\ SubSeq(all, a, Len(all)) \in Seq(Experts)
      /\ Len(SubSeq(all, a, Len(all))) = Len(all) - a + 1
      /\ \A j \in 1 .. (Len(all) - a + 1) : SubSeq(all, a, Len(all))[j] = all[a + j - 1]
  BY <1>3, <1>4
<1>6. \A j \in 1 .. (Len(all) - a + 1) : a + j - 1 = j + (Len(all) - (Len(all) - a + 1))
  BY <1>3, <1>4
<1> QED
  BY <1>1, <1>2, <1>4, <1>5, <1>6 DEF w, all

LEMMA WithoutEachOnce ==
    ASSUME NEW hot \in Seq(Experts), EachOnce(hot), NEW x \in Experts
    PROVE  LET all == Append(Without(hot, x), x) IN all \in Seq(Experts) /\ EachOnce(all)
<1> DEFINE w == Without(hot, x)
<1>1. /\ w \in Seq(Experts) /\ EachOnce(w) /\ \A j \in DOMAIN w : w[j] # x
  <2>1. CASE \E i \in 1 .. Len(hot) : hot[i] = x
    <3>1. PICK i \in 1 .. Len(hot) : hot[i] = x
      BY <2>1
    <3>2. /\ w \in Seq(Experts) /\ Len(w) = Len(hot) - 1
          /\ \A j \in 1 .. (Len(hot) - 1) : w[j] = IF j < i THEN hot[j] ELSE hot[j + 1]
      BY <3>1, WithoutAt
    <3> HIDE DEF w
    <3>3. DOMAIN w = 1 .. (Len(hot) - 1)
      BY <3>2
    <3>4. ASSUME NEW j \in 1 .. (Len(hot) - 1) PROVE w[j] # x
      BY <3>1, <3>2 DEF EachOnce
    <3>5. ASSUME NEW j \in 1 .. (Len(hot) - 1), NEW l \in 1 .. (Len(hot) - 1), j # l
          PROVE  w[j] # w[l]
      <4> DEFINE from(q) == IF q < i THEN q ELSE q + 1
      <4>1. from(j) \in DOMAIN hot /\ from(l) \in DOMAIN hot /\ from(j) # from(l)
        BY <3>1, <3>5
      <4>2. w[j] = hot[from(j)] /\ w[l] = hot[from(l)]
        BY <3>2
      <4> QED
        BY <4>1, <4>2 DEF EachOnce
    <3> QED
      BY <3>2, <3>3, <3>4, <3>5 DEF EachOnce
  <2>2. CASE ~ \E i \in 1 .. Len(hot) : hot[i] = x
    BY <2>2 DEF Without, EachOnce
  <2> QED
    BY <2>1, <2>2
<1> HIDE DEF w
<1>2. /\ Append(w, x) \in Seq(Experts) /\ DOMAIN Append(w, x) = 1 .. (Len(w) + 1)
      /\ \A j \in 1 .. (Len(w) + 1) : Append(w, x)[j] = IF j = Len(w) + 1 THEN x ELSE w[j]
  BY <1>1
<1>3. \A j, l \in 1 .. (Len(w) + 1) : j # l => Append(w, x)[j] # Append(w, x)[l]
  <2> SUFFICES ASSUME NEW j \in 1 .. (Len(w) + 1), NEW l \in 1 .. (Len(w) + 1), j # l
               PROVE  Append(w, x)[j] # Append(w, x)[l]
    OBVIOUS
  <2>1. /\ j # Len(w) + 1 => j \in DOMAIN w
        /\ l # Len(w) + 1 => l \in DOMAIN w
    BY <1>1
  <2> QED
    BY <1>1, <1>2, <2>1 DEF EachOnce
<1> QED
  BY <1>2, <1>3 DEF EachOnce, w

(* The hot window never lists an expert twice. *)
LEMMA MarkedHotOnce ==
    ASSUME NEW hot \in Seq(Experts), EachOnce(hot), NEW x \in Experts
    PROVE  MarkedHot(hot, x) \in Seq(Experts) /\ EachOnce(MarkedHot(hot, x))
<1> DEFINE all == Append(Without(hot, x), x)
           m   == MarkedHot(hot, x)
<1>1. all \in Seq(Experts) /\ EachOnce(all)
  BY WithoutEachOnce
<1>2. /\ Len(m) = IF Len(all) > MaxHot THEN MaxHot ELSE Len(all)
      /\ m \in Seq(Experts)
      /\ \A j \in 1 .. Len(m) : m[j] = all[j + (Len(all) - Len(m))]
  BY MarkedHotAt
<1> HIDE DEF all, m
<1>3. MaxHot \in Nat
  BY StoreAssumption
<1>4. \A j \in 1 .. Len(m) : j + (Len(all) - Len(m)) \in 1 .. Len(all)
  BY <1>1, <1>2, <1>3
<1>5. \A j, l \in 1 .. Len(m) : j # l => m[j] # m[l]
  <2> SUFFICES ASSUME NEW j \in 1 .. Len(m), NEW l \in 1 .. Len(m), j # l PROVE m[j] # m[l]
    OBVIOUS
  <2>1. j + (Len(all) - Len(m)) # l + (Len(all) - Len(m))
    BY <1>1, <1>2
  <2>2. /\ j + (Len(all) - Len(m)) \in DOMAIN all /\ l + (Len(all) - Len(m)) \in DOMAIN all
        /\ m[j] = all[j + (Len(all) - Len(m))] /\ m[l] = all[l + (Len(all) - Len(m))]
    BY <1>1, <1>2, <1>4
  <2> QED
    BY <2>1, <2>2, <1>1 DEF EachOnce
<1> QED
  BY <1>2, <1>5 DEF EachOnce, m

(* What was among the n newest stays among them when one of them is marked   *)
(* again, and among the n + 1 newest when another one is, while they fit.     *)
LEMMA NewestMarked ==
    ASSUME NEW hot \in Seq(Experts), EachOnce(hot), NEW x \in Experts,
           NEW S \in SUBSET Experts, NEW n \in Nat, S \subseteq Newest(hot, n),
           NEW n2 \in Nat, n2 <= MaxHot, (x \in S /\ n2 = n) \/ n2 = n + 1
    PROVE  S \cup {x} \subseteq Newest(MarkedHot(hot, x), n2)
<1> DEFINE w   == Without(hot, x)
           all == Append(w, x)
           m   == MarkedHot(hot, x)
<1>1. /\ w \in Seq(Experts)
      /\ Len(m) = IF Len(all) > MaxHot THEN MaxHot ELSE Len(all)
      /\ m \in Seq(Experts)
      /\ \A j \in 1 .. Len(m) : m[j] = all[j + (Len(all) - Len(m))]
  BY MarkedHotAt
<1> HIDE DEF w, m
<1>2. /\ all \in Seq(Experts) /\ Len(all) = Len(w) + 1 /\ MaxHot \in Nat \ {0}
      /\ all[Len(w) + 1] = x
      /\ \A j \in 1 .. Len(w) : all[j] = w[j]
  BY <1>1, StoreAssumption
<1> HIDE DEF all
<1>3. ASSUME NEW p \in 1 .. Len(all), p > Len(all) - n2
      PROVE  all[p] \in Newest(m, n2)
  <2> DEFINE q == p - (Len(all) - Len(m))
  <2>1. q \in 1 .. Len(m) /\ q > Len(m) - n2 /\ q + (Len(all) - Len(m)) = p
    <3>1. /\ p \in Int /\ p <= Len(all) /\ p >= 1 /\ p > Len(all) - n2 /\ n2 <= MaxHot
          /\ Len(all) \in Nat /\ MaxHot \in Nat /\ Len(m) \in Nat
          /\ Len(m) = Len(all) \/ (Len(all) > MaxHot /\ Len(m) = MaxHot)
      BY <1>1, <1>2, <1>3
    <3> HIDE DEF q
    <3>2. q = p - (Len(all) - Len(m))
      BY DEF q
    <3> QED
      BY <3>1, <3>2
  <2> HIDE DEF q
  <2>2. m[q] = all[p] /\ q \in DOMAIN m
    BY <2>1, <1>1
  <2> QED
    BY <2>1, <2>2 DEF Newest
<1>4. n2 >= 1
  <2>1. CASE n2 = n + 1
    BY <2>1
  <2>2. CASE x \in S /\ n2 = n
    <3>1. PICK l \in DOMAIN hot : l > Len(hot) - n
      BY <2>2 DEF Newest
    <3> QED
      BY <2>2, <3>1
  <2> QED
    BY <2>1, <2>2
<1>5. x \in Newest(m, n2)
  <2>1. Len(w) + 1 \in 1 .. Len(all) /\ Len(w) + 1 > Len(all) - n2
    BY <1>1, <1>2, <1>4
  <2> QED
    BY <2>1, <1>2, <1>3
<1>6. ASSUME NEW y \in S, y # x PROVE y \in Newest(m, n2)
  <2>1. PICK l \in DOMAIN hot : l > Len(hot) - n /\ hot[l] = y
    BY DEF Newest
  <2>2. \E p \in 1 .. Len(w) : p > Len(all) - n2 /\ w[p] = y
    <3>1. CASE \E i \in 1 .. Len(hot) : hot[i] = x
      <4>1. PICK i \in 1 .. Len(hot) : hot[i] = x
        BY <3>1
      <4>2. /\ Len(w) = Len(hot) - 1
            /\ \A j \in 1 .. (Len(hot) - 1) : w[j] = IF j < i THEN hot[j] ELSE hot[j + 1]
        BY <4>1, WithoutAt DEF w
      <4>3. l # i /\ l \in 1 .. Len(hot)
        BY <2>1, <4>1, <1>6
      <4>4. CASE l < i
        <5>1. l \in 1 .. Len(w) /\ l > Len(all) - n2 /\ w[l] = y
          BY <4>2, <4>3, <4>4, <2>1, <1>2
        <5> QED
          BY <5>1
      <4>5. CASE l > i
        <5>1. l - 1 \in 1 .. (Len(hot) - 1) /\ ~ (l - 1 < i) /\ (l - 1) + 1 = l
          BY <4>3, <4>5
        <5>2. w[l - 1] = y
          BY <5>1, <4>2, <2>1
        <5>3. l - 1 > Len(all) - n2
          <6>1. CASE n2 = n + 1
            BY <6>1, <2>1, <4>2, <4>3, <1>2
          <6>2. CASE x \in S /\ n2 = n
            <7>1. PICK h \in DOMAIN hot : h > Len(hot) - n /\ hot[h] = x
              BY <6>2 DEF Newest
            <7>2. h = i
              BY <7>1, <4>1 DEF EachOnce
            <7> QED
              BY <6>2, <7>1, <7>2, <4>2, <4>3, <4>5, <1>2
          <6> QED
            BY <6>1, <6>2
        <5> QED
          BY <5>1, <5>2, <5>3, <4>2
      <4> QED
        BY <4>3, <4>4, <4>5
    <3>2. CASE ~ \E i \in 1 .. Len(hot) : hot[i] = x
      <4>1. w = hot
        BY <3>2 DEF Without, w
      <4>2. x \notin S
        BY <3>2 DEF Newest
      <4>3. n2 = n + 1 /\ l \in 1 .. Len(w) /\ l > Len(all) - n2
        BY <4>1, <4>2, <2>1, <1>2
      <4> QED
        BY <4>1, <4>3, <2>1
    <3> QED
      BY <3>1, <3>2
  <2>3. PICK p \in 1 .. Len(w) : p > Len(all) - n2 /\ w[p] = y
    BY <2>2
  <2>4. p \in 1 .. Len(all) /\ all[p] = y
    BY <2>3, <1>1, <1>2
  <2> QED
    BY <2>3, <2>4, <1>3
<1> QED
  BY <1>5, <1>6 DEF m

(***************************************************************************)
(* What one step of run() does to the store and to the staged inputs.        *)
(***************************************************************************)

(* The ops of a plan and their inputs have the types the assumption gives. *)
LEMMA PlanTypes ==
    ASSUME RunTypeOK
    PROVE  /\ Len(Plan) \in Nat \ {0} /\ DOMAIN Plan = 1 .. Len(Plan)
           /\ oi \in 1 .. Len(Plan)
           /\ \A i \in 1 .. Len(Plan) :
                 /\ Inputs(i) \in Seq(Weights) /\ Plan[i].listed \in BOOLEAN
                 /\ DOMAIN Inputs(i) = 1 .. Len(Inputs(i))
                 /\ InputSet(i) = OpInputs(mode, i) /\ OpInputs(mode, i) \subseteq Weights
<1>1. mode \in Modes /\ oi \in 1 .. Len(Plan)
  BY DEF RunTypeOK
<1>2. Plan \in Seq([inputs : Seq(Weights), listed : BOOLEAN]) /\ Len(Plan) > 0
  BY <1>1, PlanAssumption DEF Plan
<1>3. ASSUME NEW i \in 1 .. Len(Plan)
      PROVE  /\ Inputs(i) \in Seq(Weights) /\ Plan[i].listed \in BOOLEAN
             /\ InputSet(i) = OpInputs(mode, i) /\ OpInputs(mode, i) \subseteq Weights
  <2>1. Plan[i] \in [inputs : Seq(Weights), listed : BOOLEAN]
    <3> DEFINE Ops == [inputs : Seq(Weights), listed : BOOLEAN]
    <3>1. Plan \in Seq(Ops)
      BY <1>2
    <3> HIDE DEF Ops
    <3>2. Plan[i] \in Ops
      BY <3>1
    <3> QED
      BY <3>2 DEF Ops
  <2>2. Inputs(i) \in Seq(Weights) /\ Plan[i].listed \in BOOLEAN
    BY <2>1 DEF Inputs
  <2>3. InputSet(i) = OpInputs(mode, i)
    BY DEF InputSet, OpInputs, Inputs, Plan
  <2>4. InputSet(i) \subseteq Weights
    BY <2>2 DEF InputSet
  <2> QED
    BY <2>2, <2>3, <2>4
<1> QED
  BY <1>1, <1>2, <1>3

(* The input that StageInput handles is one of the plan's weights. *)
LEMMA NextInput ==
    ASSUME RunTypeOK, pc = "stage", k <= Len(Inputs(oi))
    PROVE  /\ k \in DOMAIN Inputs(oi) /\ Inputs(oi)[k] \in Weights
           /\ Inputs(oi)[k] \in OpInputs(mode, oi)
<1>1. oi \in 1 .. Len(Plan) /\ k \in Nat \ {0}
  BY DEF RunTypeOK
<1>2. Inputs(oi) \in Seq(Weights) /\ k \in DOMAIN Inputs(oi)
  BY <1>1, PlanTypes
<1> QED
  BY <1>1, <1>2, PlanTypes DEF InputSet

(* The input that PrefetchNext handles is one of the next op's. *)
LEMMA AheadInput ==
    ASSUME RunTypeOK, pc \in {"prefetch", "peek"}, k <= Len(Inputs(oi + 1))
    PROVE  /\ oi + 1 \in 2 .. Len(Plan) /\ k \in DOMAIN Inputs(oi + 1)
           /\ Inputs(oi + 1)[k] \in Weights
           /\ Inputs(oi + 1)[k] \in OpInputs(mode, oi + 1)
           /\ ~ (Plan[oi + 1].listed /\ Inputs(oi + 1)[k] \in Experts) =>
                 Inputs(oi + 1)[k] \in Ahead(mode, oi + 1)
<1>1. oi \in 1 .. Len(Plan) /\ k \in Nat \ {0} /\ oi < Len(Plan) /\ Len(Plan) \in Nat
  BY PlanTypes DEF RunTypeOK
<1>2. oi + 1 \in 1 .. Len(Plan) /\ oi + 1 \in 2 .. Len(Plan)
  BY <1>1
<1>3. Inputs(oi + 1) \in Seq(Weights) /\ k \in DOMAIN Inputs(oi + 1)
  BY <1>1, <1>2, PlanTypes
<1>4. Inputs(oi + 1)[k] \in OpInputs(mode, oi + 1)
  BY <1>2, <1>3, PlanTypes DEF InputSet
<1> QED
  BY <1>2, <1>3, <1>4 DEF Ahead, Plan

(* Every step of run(), of the task and of the copy engine is a step of the  *)
(* store or leaves it alone: what is proved of the store holds in run().      *)
LEMMA StoreSteps ==
    ASSUME RunTypeOK, [NextRun]_vars
    PROVE  [Next]_storeVars
<1>1. CASE StageInput \/ UploadFails \/ SyncFails
  <2>1. /\ k <= Len(Inputs(oi)) /\ pc = "stage"
        /\ UNCHANGED storeVars \/ Stage(Inputs(oi)[k])
    BY <1>1 DEF StageInput, UploadFails, SyncFails
  <2> QED
    BY <2>1, NextInput DEF Next
<1>2. CASE PrefetchNext
  <2>1. /\ k <= Len(Inputs(oi + 1)) /\ pc \in {"prefetch", "peek"}
        /\ UNCHANGED storeVars \/ Prefetch(Inputs(oi + 1)[k])
    BY <1>2 DEF PrefetchNext
  <2> QED
    BY <2>1, AheadInput DEF Next
<1>3. CASE Task
  BY <1>3 DEF Task, Next
<1>4. CASE RunBegins \/ AllStaged \/ PeekNext \/ AllPrefetched \/ OpDone \/ RunDone \/ OpFails
           \/ CopyLands \/ UNCHANGED vars
  BY <1>4 DEF RunBegins, AllStaged, PeekNext, AllPrefetched, OpDone, RunDone, OpFails,
     CopyLands, vars
<1> QED
  BY <1>1, <1>2, <1>3, <1>4 DEF NextRun, Compute

(* A successful stage() hands out the weight it was asked for. *)
LEMMA StageOut ==
    ASSUME NEW w \in Weights, Stage(w), StoreInv', out'.id # NoWeight
    PROVE  /\ out'.id = w /\ out' \in [id : Weights, at : {0, 1, InStore}]
           /\ out'.at = InStore => w \in Cached' /\ w \in Experts
<1>1. out'.id = w
  BY DEF Stage, StagePrefetched, StagePrefetchFailed, StageResident, StageLoad, StageLoadFailed,
     HandOut, Nothing
<1>2. out' \in [id : Id, at : {0, 1, InStore}] /\ (out'.at = InStore => w \in Cached')
  BY <1>1 DEF StoreInv, TypeOK, OutConsistent
<1>3. w \in Cached' => w \in Experts
  BY DEF Cached
<1> QED
  BY <1>1, <1>2, <1>3

(* How far run() has got with the op in progress. *)
StagesOne(w) ==
    /\ pc = "stage" /\ k <= Len(Inputs(oi)) /\ w = Inputs(oi)[k] /\ ~ Skipped(oi, w)
    /\ Stage(w) /\ out'.id # NoWeight /\ Upload(w)
    /\ Goto("stage", oi, k + 1) /\ UNCHANGED <<keep, mode>>

(* The input just staged is one more staged input of the op ... *)
LEMMA StagedOne ==
    ASSUME RunTypeOK, NEW w \in Weights, StagesOne(w)
    PROVE  /\ Staged' = Staged \cup {w} /\ w \in Read(oi)
           /\ Read(oi)' = Read(oi) /\ oi' = oi
<1>1. k \in Nat \ {0}
  BY DEF RunTypeOK
<1>2. k \in DOMAIN Inputs(oi) /\ w \in InputSet(oi)
  BY NextInput, PlanTypes DEF StagesOne, RunTypeOK
<1>3. Read(oi)' = Read(oi) /\ oi' = oi
  BY DEF Read, Skipped, InputSet, Inputs, Plan, Goto, StagesOne
<1>4. Staged' = {v \in Read(oi) : \E j \in 1 .. k : Inputs(oi)[j] = v}
  BY <1>1, <1>3 DEF Staged, Goto, Inputs, Plan, StagesOne
<1>5. Staged = {v \in Read(oi) : \E j \in 1 .. (k - 1) : Inputs(oi)[j] = v}
  BY DEF Staged, StagesOne
<1>6. w \in Read(oi) /\ Inputs(oi)[k] = w
  BY <1>2 DEF Read, StagesOne
<1>7. \A j \in 1 .. k : j = k \/ j \in 1 .. (k - 1)
  BY <1>1
<1>8. k \in 1 .. k /\ 1 .. (k - 1) \subseteq 1 .. k
  BY <1>1
<1>9. Staged' = Staged \cup {w}
  BY <1>4, <1>5, <1>6, <1>7, <1>8
<1> QED
  BY <1>3, <1>6, <1>9

(* ... and otherwise the staged inputs stay what they are, or are dropped     *)
(* because the op is over.                                                     *)
LEMMA StagedStep ==
    ASSUME RunTypeOK, [NextRun]_vars, ~ \E w \in Weights : StagesOne(w)
    PROVE  \/ Staged' = {}
           \/ /\ Staged' = Staged /\ oi' = oi /\ Read(oi)' = Read(oi)
              /\ UNCHANGED <<keep, data>>
<1>1. oi \in 1 .. Len(Plan) /\ k \in Nat \ {0}
  BY DEF RunTypeOK
<1>2. ASSUME UNCHANGED <<pc, oi, k, keep, mode>>
      PROVE  Staged' = Staged /\ Read(oi)' = Read(oi)
  BY <1>2 DEF Staged, Read, Skipped, InputSet, Inputs, Plan
<1>3. CASE StageInput
  <2> DEFINE w == Inputs(oi)[k]
  <2>1. w \in Weights /\ k \in DOMAIN Inputs(oi) /\ w \in InputSet(oi)
    BY <1>3, <1>1, NextInput, PlanTypes DEF StageInput
  <2>2. CASE Skipped(oi, w) /\ Goto("stage", oi, k + 1)
             /\ UNCHANGED <<storeVars, keep, data, device, copies, in_flight, mode>>
    <3>1. Read(oi)' = Read(oi) /\ oi' = oi /\ UNCHANGED <<keep, data>>
      BY <2>2 DEF Read, Skipped, InputSet, Inputs, Plan, Goto
    <3>2. Staged' = {v \in Read(oi) : \E j \in 1 .. k : Inputs(oi)[j] = v}
      BY <2>2, <3>1, <1>1 DEF Staged, Goto, Inputs, Plan
    <3>3. Staged = {v \in Read(oi) : \E j \in 1 .. (k - 1) : Inputs(oi)[j] = v}
      BY <1>3 DEF Staged, StageInput
    <3>4. w \notin Read(oi)
      BY <2>2 DEF Read
    <3>5. ASSUME NEW j \in 1 .. k PROVE j = k \/ j \in 1 .. (k - 1)
      BY <1>1
    <3>6. 1 .. (k - 1) \subseteq 1 .. k
      BY <1>1
    <3>7. Staged' = Staged
      BY <3>2, <3>3, <3>4, <3>5, <3>6
    <3> QED
      BY <3>1, <3>7
  <2>4. CASE pc' = "idle"
    BY <2>4 DEF Staged
  <2> QED
    BY <1>3, <2>1, <2>2, <2>4 DEF StageInput, StagesOne, RunFails, Goto
<1>4. CASE UploadFails \/ SyncFails \/ RunDone \/ OpFails
  <2>1. pc' = "idle"
    BY <1>4 DEF UploadFails, SyncFails, RunDone, OpFails, RunFails, Goto
  <2> QED
    BY <2>1 DEF Staged
<1>5. CASE RunBegins \/ OpDone
  <2>1. pc' = "stage" /\ k' = 1
    BY <1>5 DEF RunBegins, OpDone, Goto
  <2>2. 1 .. (k' - 1) = {}
    BY <2>1
  <2> QED
    BY <2>1, <2>2 DEF Staged
<1>6. CASE AllStaged
  <2>1. /\ oi' = oi /\ UNCHANGED <<keep, data, mode>> /\ pc' \in {"prefetch", "dispatch"}
        /\ pc = "stage" /\ k > Len(Inputs(oi))
    BY <1>6 DEF AllStaged, Goto
  <2>2. Read(oi)' = Read(oi)
    BY <2>1 DEF Read, Skipped, InputSet, Inputs, Plan
  <2>3. Staged' = Read(oi)
    BY <2>1, <2>2 DEF Staged
  <2>4. ASSUME NEW v \in Read(oi) PROVE v \in Staged
    <3>1. PICK j \in DOMAIN Inputs(oi) : Inputs(oi)[j] = v
      BY DEF Read, InputSet
    <3>2. j \in 1 .. (k - 1)
      BY <1>1, <2>1, <3>1, PlanTypes
    <3> QED
      BY <2>1, <3>1, <3>2 DEF Staged
  <2>5. Staged \subseteq Read(oi)
    BY DEF Staged
  <2> QED
    BY <2>1, <2>2, <2>3, <2>4, <2>5
<1>7. CASE PrefetchNext \/ PeekNext \/ AllPrefetched
  <2>1. /\ oi' = oi /\ UNCHANGED <<keep, data, mode>>
        /\ pc \in {"prefetch", "peek"} /\ pc' \in {"prefetch", "peek", "dispatch"}
    BY <1>7 DEF PrefetchNext, PeekNext, AllPrefetched, Goto
  <2>2. Read(oi)' = Read(oi)
    BY <2>1 DEF Read, Skipped, InputSet, Inputs, Plan
  <2>3. Staged = Read(oi) /\ Staged' = Read(oi)'
    BY <2>1 DEF Staged
  <2> QED
    BY <2>1, <2>2, <2>3
<1>8. CASE CopyLands \/ Task \/ UNCHANGED vars
  BY <1>8, <1>2 DEF CopyLands, Task, vars, runVars
<1> QED
  BY <1>3, <1>4, <1>5, <1>6, <1>7, <1>8 DEF NextRun, Compute

(***************************************************************************)
(* The types of run()'s variables.                                           *)
(***************************************************************************)

(* Where run() is ... *)
ControlOK ==
    /\ pc \in {"idle", "stage", "prefetch", "peek", "dispatch"}
    /\ mode \in Modes /\ oi \in 1 .. Len(Plan) /\ k \in Nat \ {0}
    /\ pc = "stage" => k <= Len(Inputs(oi)) + 1
    /\ pc \in {"prefetch", "peek"} => oi < Len(Plan)
    /\ pc = "peek" => k <= Len(Inputs(oi + 1))
                      /\ Inputs(oi + 1)[k] \in Ahead(mode, oi + 1)
    /\ pc # "idle" => keep \in Routings(oi)

(* ... and what it has handed to the kernels and to the device. *)
Copies == {c \in [id : Weights, at : {0, 1, InStore}] : c.at = InStore => c.id \in Experts}

DataOK ==
    /\ data \in [Weights -> {0, 1, InStore, OnDevice, Null}]
    /\ device \in [Weights -> Content]
    /\ copies \in Seq(Copies)
    /\ in_flight \in [Weights -> BOOLEAN]

LEMMA RunTypeParts == RunTypeOK <=> ControlOK /\ DataOK
<1>1. copies \in Seq(Copies) <=>
         /\ copies \in Seq([id : Weights, at : {0, 1, InStore}])
         /\ \A i \in DOMAIN copies : copies[i].at = InStore => copies[i].id \in Experts
  <2> DEFINE R == [id : Weights, at : {0, 1, InStore}]
  <2>1. Copies \subseteq R /\ \A c \in R : (c.at = InStore => c.id \in Experts) <=> c \in Copies
    BY DEF Copies
  <2>2. \A c \in Copies : c.at = InStore => c.id \in Experts
    BY DEF Copies
  <2> HIDE DEF R
  <2>3. ASSUME copies \in Seq(Copies)
        PROVE  copies \in Seq(R) /\ \A i \in DOMAIN copies : copies[i].at = InStore
                                                              => copies[i].id \in Experts
    BY <2>1, <2>2, <2>3
  <2>4. ASSUME copies \in Seq(R), \A i \in DOMAIN copies : copies[i].at = InStore
                                                              => copies[i].id \in Experts
        PROVE  copies \in Seq(Copies)
    BY <2>1, <2>4
  <2> QED
    BY <2>3, <2>4 DEF R
<1> QED
  BY <1>1 DEF RunTypeOK, ControlOK, DataOK

(* A session keeps the backend it was created with. *)
LEMMA ModeFixed == ASSUME [NextRun]_vars PROVE mode' = mode
BY DEF NextRun, RunBegins, Compute, StageInput, UploadFails, SyncFails, AllStaged,
   PrefetchNext, PeekNext, AllPrefetched, OpDone, RunDone, OpFails, RunFails, CopyLands,
   Task, vars, runVars

LEMMA ControlStep ==
    ASSUME RunTypeOK, [NextRun]_vars
    PROVE  ControlOK'
<1>0. ControlOK /\ Len(Plan) \in Nat \ {0} /\ oi \in 1 .. Len(Plan) /\ k \in Nat \ {0}
  BY RunTypeParts, PlanTypes DEF ControlOK
<1>1. mode' = mode /\ Plan' = Plan /\ 1 \in 1 .. Len(Plan)
  <2>1. mode' = mode
    BY ModeFixed
  <2> QED
    BY <2>1, <1>0 DEF Plan
<1>2. \A i \in 1 .. Len(Plan) : Len(Inputs(i)) \in Nat
  BY PlanTypes
<1>3. CASE Goto("idle", 1, 1)
  BY <1>0, <1>1, <1>3 DEF Goto, ControlOK
<1>4. ASSUME NEW i \in 1 .. Len(Plan), Goto("stage", i, 1), keep' \in Routings(i)
      PROVE  ControlOK'
  BY <1>0, <1>1, <1>2, <1>4 DEF Goto, ControlOK, Inputs, Routings, InputSet
<1>5. CASE StageInput
  <2>1. pc = "stage" /\ k <= Len(Inputs(oi)) /\ UNCHANGED keep
        /\ (Goto("stage", oi, k + 1) \/ Goto("idle", 1, 1))
    BY <1>5 DEF StageInput, RunFails
  <2>2. CASE Goto("stage", oi, k + 1)
    BY <2>1, <2>2, <1>0, <1>1, <1>2 DEF Goto, ControlOK, Inputs, Routings, InputSet
  <2> QED
    BY <2>1, <2>2, <1>3
<1>6. CASE AllStaged
  BY <1>6, <1>0, <1>1, <1>2 DEF AllStaged, Goto, ControlOK, Inputs, Routings, InputSet
<1>7. CASE PrefetchNext
  <2>1. pc = "prefetch" /\ k <= Len(Inputs(oi + 1)) /\ UNCHANGED keep
    BY <1>7 DEF PrefetchNext
  <2>2. CASE Goto("prefetch", oi, k + 1)
    BY <2>1, <2>2, <1>0, <1>1 DEF Goto, ControlOK, Inputs, Routings, InputSet
  <2>3. CASE ~ (Plan[oi + 1].listed /\ Inputs(oi + 1)[k] \in Experts) /\ Goto("peek", oi, k)
    <3>1. Inputs(oi + 1)[k] \in Ahead(mode, oi + 1)
      BY <2>1, <2>3, AheadInput
    <3> QED
      BY <3>1, <2>1, <2>3, <1>0, <1>1 DEF Goto, ControlOK, Inputs, Routings, InputSet
  <2> QED
    BY <1>7, <2>2, <2>3 DEF PrefetchNext
<1>8. CASE PeekNext
  BY <1>8, <1>0, <1>1 DEF PeekNext, Goto, ControlOK, Inputs, Routings, InputSet
<1>9. CASE AllPrefetched
  BY <1>9, <1>0, <1>1 DEF AllPrefetched, Goto, ControlOK, Inputs, Routings, InputSet
<1>10. CASE OpDone
  <2>1. oi + 1 \in 1 .. Len(Plan)
    BY <1>10, <1>0 DEF OpDone
  <2> QED
    BY <2>1, <1>4, <1>10 DEF OpDone
<1>11. CASE CopyLands \/ Task \/ UNCHANGED vars
  BY <1>11, <1>0, <1>1 DEF CopyLands, Task, vars, runVars, ControlOK, Inputs, Routings, InputSet
<1>12. CASE RunBegins
  BY <1>1, <1>4, <1>12 DEF RunBegins
<1>13. CASE UploadFails \/ SyncFails \/ RunDone \/ OpFails
  BY <1>3, <1>13 DEF UploadFails, SyncFails, RunDone, OpFails, RunFails
<1> QED
  BY <1>5, <1>6, <1>7, <1>8, <1>9, <1>10, <1>11, <1>12, <1>13 DEF NextRun, Compute

(* A copy reads a staging buffer or a cached expert, never anything else. *)
LEMMA CopyReads ==
    ASSUME NEW bufs \in [Slot -> Content], NEW store \in [Experts -> Content], NEW c \in Copies
    PROVE  ReadsFrom(bufs, store, c) \in Content
BY DEF ReadsFrom, Copies, Slot, InStore

LEMMA LastOf ==
    ASSUME NEW n \in Nat, NEW S \in SUBSET (1 .. n), S # {}
    PROVE  \E i \in S : \A j \in S : j <= i
<1> DEFINE D == {n - i : i \in S}
<1>1. D \in SUBSET Nat /\ D # {}
  OBVIOUS
<1> HIDE DEF D
<1>2. PICK x \in D : \A y \in D : x <= y
  BY <1>1, LeastNat
<1>3. PICK i \in S : x = n - i
  BY <1>2 DEF D
<1>4. \A j \in S : n - j \in D
  BY DEF D
<1>5. ASSUME NEW j \in S PROVE j <= i
  <2>1. n - i <= n - j /\ i \in 1 .. n /\ j \in 1 .. n
    BY <1>2, <1>3, <1>4
  <2> QED
    BY <2>1
<1> QED
  BY <1>5

(* Draining a queue of copies leaves contents on the device. *)
LEMMA LandedType ==
    ASSUME NEW bufs \in [Slot -> Content], NEW store \in [Experts -> Content],
           NEW dev \in [Weights -> Content], NEW queue \in Seq(Copies)
    PROVE  Landed(dev, queue, bufs, store) \in [Weights -> Content]
<1> DEFINE mine(w) == {i \in DOMAIN queue : queue[i].id = w}
           last(w) == CHOOSE i \in mine(w) : \A j \in mine(w) : j <= i
           val(w)  == IF mine(w) = {} THEN dev[w] ELSE ReadsFrom(bufs, store, queue[last(w)])
<1>1. Landed(dev, queue, bufs, store) = [w \in Weights |-> val(w)]
  BY DEF Landed
<1>2. ASSUME NEW w \in Weights PROVE val(w) \in Content
  <2>1. CASE mine(w) = {}
    BY <2>1
  <2>2. CASE mine(w) # {}
    <3>1. last(w) \in DOMAIN queue
      <4>1. \E i \in mine(w) : \A j \in mine(w) : j <= i
        <5>1. mine(w) \in SUBSET (1 .. Len(queue)) /\ Len(queue) \in Nat
          OBVIOUS
        <5> QED
          BY <5>1, <2>2, LastOf
      <4> QED
        BY <4>1
    <3>2. queue[last(w)] \in Copies
      BY <3>1
    <3> HIDE DEF last
    <3> QED
      BY <2>2, <3>2, CopyReads
  <2> QED
    BY <2>1, <2>2
<1> HIDE DEF val
<1> QED
  BY <1>1, <1>2

(* The last copy of a queue decides what its weight is on the device, and a   *)
(* weight with no copy in the queue keeps what it has.                          *)
LEMMA LandedAppend ==
    ASSUME NEW bufs, NEW store, NEW dev, NEW queue \in Seq(Copies), NEW c \in Copies,
           NEW w \in Weights
    PROVE  LET all == Landed(dev, Append(queue, c), bufs, store)
           IN  /\ w = c.id => all[w] = ReadsFrom(bufs, store, c)
               /\ w # c.id /\ (\A i \in DOMAIN queue : queue[i].id # w) => all[w] = dev[w]
<1> DEFINE q    == Append(queue, c)
           mine == {i \in DOMAIN q : q[i].id = w}
           last == CHOOSE i \in mine : \A j \in mine : j <= i
<1>1. Landed(dev, q, bufs, store)[w]
        = IF mine = {} THEN dev[w] ELSE ReadsFrom(bufs, store, q[last])
  BY DEF Landed
<1>2. /\ DOMAIN q = 1 .. (Len(queue) + 1) /\ Len(queue) \in Nat /\ DOMAIN queue = 1 .. Len(queue)
      /\ q[Len(queue) + 1] = c /\ \A i \in 1 .. Len(queue) : q[i] = queue[i]
  OBVIOUS
<1> HIDE DEF q
<1>3. CASE w = c.id
  <2>1. Len(queue) + 1 \in mine /\ \A j \in mine : j <= Len(queue) + 1
    BY <1>2, <1>3
  <2>2. \A i \in mine : (\A j \in mine : j <= i) => i = Len(queue) + 1
    BY <1>2, <2>1
  <2>3. last = Len(queue) + 1
    BY <2>1, <2>2
  <2> HIDE DEF mine, last
  <2> QED
    BY <1>1, <1>2, <1>3, <2>1, <2>3 DEF q
<1>4. CASE w # c.id /\ (\A i \in DOMAIN queue : queue[i].id # w)
  <2>1. mine = {}
    <3> SUFFICES ASSUME NEW i \in DOMAIN q, q[i].id = w PROVE FALSE
      OBVIOUS
    <3>1. i = Len(queue) + 1 \/ i \in 1 .. Len(queue)
      BY <1>2
    <3> QED
      BY <3>1, <1>2, <1>4
  <2> QED
    BY <1>1, <1>4, <2>1 DEF q
<1> QED
  BY <1>1, <1>3, <1>4 DEF q

(* What stage() returned is a copy the device can make ... *)
LEMMA StagedCopy ==
    ASSUME NEW w \in Weights, Stage(w), StoreInv', out'.id # NoWeight
    PROVE  out' \in Copies /\ out'.id = w
BY StageOut DEF Copies

(* ... and, if no load fails half way, it reads the weight. *)
LEMMA StagedCopyReads ==
    ASSUME "torn" \notin Failures, NEW w \in Weights, Stage(w), StoreInv', out'.id # NoWeight
    PROVE  ReadsFrom(buffers', expert_store', out') = w
<1>1. out' \in Copies /\ out'.id = w
  BY StagedCopy
<1>2. StagedIntact'
  <2>1. (StoreInv => StagedIntact)'
    BY StagedReads, PTL
  <2> QED
    BY <2>1
<1> QED
  BY <1>1, <1>2 DEF StagedIntact, Reads

(* An upload changes where the kernels look for one weight ... *)
LEMMA UploadTypes ==
    ASSUME RunTypeOK, StoreInv', NEW w \in Weights, StagesOne(w)
    PROVE  DataOK'
<1>1. out' \in Copies /\ out'.at \in {0, 1, InStore}
  BY StagedCopy DEF StagesOne, Copies
<1>2. DataOK
  BY RunTypeParts
<1>3. buffers' \in [Slot -> Content] /\ expert_store' \in [Experts -> Content]
  BY DEF StoreInv, TypeOK
<1>4. mode \in {"host", "async", "blocking"}
  BY PlanAssumption DEF RunTypeOK
<1>5. CASE mode = "host"
  BY <1>1, <1>2, <1>5 DEF StagesOne, Upload, DataOK
<1>6. CASE mode = "blocking"
  <2>1. ReadsFrom(buffers', expert_store', out') \in Content
    BY <1>1, <1>3, CopyReads
  <2> QED
    BY <1>2, <1>6, <2>1 DEF StagesOne, Upload, DataOK
<1>7. CASE mode = "async"
  <2>1. Append(copies, out') \in Seq(Copies)
    BY <1>1, <1>2 DEF DataOK
  <2>2. Landed(device, Append(copies, out'), buffers', expert_store') \in [Weights -> Content]
    BY <2>1, <1>2, <1>3, LandedType DEF DataOK
  <2>3. /\ data' = [data EXCEPT ![w] = OnDevice]
        /\ device' \in [Weights -> Content] /\ copies' = << >>
        /\ in_flight' = [in_flight EXCEPT ![w] = FALSE]
    BY <1>7, <2>2 DEF StagesOne, Upload
  <2>4. << >> \in Seq(Copies)
    OBVIOUS
  <2> QED
    BY <1>2, <2>3, <2>4 DEF DataOK
<1> QED
  BY <1>4, <1>5, <1>6, <1>7

(* ... and gives it to the device, if it has one, without losing another. *)
LEMMA UploadStep ==
    ASSUME "torn" \notin Failures, RunTypeOK, DeviceInv, StoreInv', NEW w \in Weights,
           StagesOne(w)
    PROVE  /\ \A v \in Weights : v # w => data'[v] = data[v]
           /\ mode = "host" => data'[w] = out'.at
           /\ mode # "async" => copies' = copies
           /\ mode = "async" => copies' = << >>
           /\ mode # "host" => /\ data'[w] = OnDevice /\ device'[w] = w
                               /\ \A v \in Staged : v # w => device'[v] = device[v]
<1>1. out' \in Copies /\ out'.id = w /\ ReadsFrom(buffers', expert_store', out') = w
  BY StagedCopy, StagedCopyReads DEF StagesOne
<1>2. DataOK
  BY RunTypeParts
<1>3. Staged \subseteq Weights
  BY PlanTypes DEF Staged, Read
<1>4. mode \in {"host", "async", "blocking"}
  BY PlanAssumption DEF RunTypeOK
<1>5. CASE mode = "host"
  BY <1>2, <1>5 DEF StagesOne, Upload, DataOK
<1>6. CASE mode = "blocking"
  BY <1>1, <1>2, <1>3, <1>6 DEF StagesOne, Upload, DataOK
<1>7. CASE mode = "async"
  <2>1. /\ data' = [data EXCEPT ![w] = OnDevice]
        /\ device' = Landed(device, Append(copies, out'), buffers', expert_store')
        /\ copies' = << >>
    BY <1>7 DEF StagesOne, Upload
  <2>2. copies \in Seq(Copies)
    BY <1>2 DEF DataOK
  <2>3. device'[w] = w
    BY <2>1, <2>2, <1>1, LandedAppend
  <2>4. ASSUME NEW v \in Staged, v # w PROVE device'[v] = device[v]
    <3>1. v \in Weights /\ \A i \in DOMAIN copies : copies[i].id # v
      BY <1>3 DEF DeviceInv
    <3> QED
      BY <3>1, <2>1, <2>2, <2>4, <1>1, LandedAppend
  <2> QED
    BY <2>1, <2>3, <2>4, <1>2, <1>7 DEF DataOK
<1> QED
  BY <1>4, <1>5, <1>6, <1>7

LEMMA DataStep ==
    ASSUME RunTypeOK, StoreInv, StoreInv', [NextRun]_vars
    PROVE  DataOK'
<1>1. DataOK
  BY RunTypeParts
<1>2. /\ buffers \in [Slot -> Content] /\ expert_store \in [Experts -> Content]
      /\ active \in Slot
  BY DEF StoreInv, TypeOK
<1>3. CASE UNCHANGED <<data, device, copies, in_flight>>
  BY <1>1, <1>3 DEF DataOK
<1>4. CASE StageInput
  <2>1. CASE UNCHANGED <<data, device, copies, in_flight>>
    BY <1>3, <2>1
  <2>2. CASE StagesOne(Inputs(oi)[k])
    BY <2>2, <1>4, NextInput, UploadTypes DEF StageInput
  <2> QED
    BY <2>1, <2>2, <1>4 DEF StageInput, StagesOne, RunFails
<1>5. CASE SyncFails
  <2> DEFINE w == Inputs(oi)[k]
  <2>1. /\ w \in Weights /\ Stage(w) /\ out'.id # NoWeight
        /\ data' = [data EXCEPT ![w] = OnDevice] /\ UNCHANGED device
        /\ copies' = Append(copies, out') /\ in_flight' = [in_flight EXCEPT ![w] = TRUE]
    BY <1>5, NextInput DEF SyncFails
  <2>2. out' \in Copies
    BY <2>1, StagedCopy
  <2> HIDE DEF w
  <2> QED
    BY <2>1, <2>2, <1>1 DEF DataOK
<1>6. CASE PeekNext
  <2> DEFINE w == Inputs(oi + 1)[k]
             p == [id |-> w, at |-> 1 - active]
  <2>1. w \in Weights
    BY <1>6, AheadInput DEF PeekNext, RunTypeOK
  <2>2. p \in Copies
    <3>1. 1 - active \in {0, 1} /\ 1 - active # InStore
      BY <1>2 DEF Slot, InStore
    <3> QED
      BY <2>1, <3>1 DEF Copies
  <2>3. Reads(p) \in Content
    BY <2>2, <1>2, CopyReads DEF Reads
  <2>4. UNCHANGED data
    BY <1>6 DEF PeekNext
  <2>5. \/ UNCHANGED <<device, copies, in_flight>>
        \/ /\ copies' = Append(copies, p)
           /\ in_flight' = [in_flight EXCEPT ![w] = TRUE]
           /\ UNCHANGED device
        \/ /\ device' = [device EXCEPT ![w] = Reads(p)]
           /\ UNCHANGED <<copies, in_flight>>
    BY <1>6 DEF PeekNext, CopyAhead
  <2> HIDE DEF w, p
  <2>6. CASE UNCHANGED <<device, copies, in_flight>>
    BY <2>4, <2>6, <1>3
  <2>7. CASE UNCHANGED device /\ copies' = Append(copies, p)
             /\ in_flight' = [in_flight EXCEPT ![w] = TRUE]
    BY <2>1, <2>2, <2>4, <2>7, <1>1 DEF DataOK
  <2>8. CASE UNCHANGED <<copies, in_flight>> /\ device' = [device EXCEPT ![w] = Reads(p)]
    BY <2>1, <2>3, <2>4, <2>8, <1>1 DEF DataOK
  <2> QED
    BY <2>5, <2>6, <2>7, <2>8
<1>7. CASE RunDone
  <2>1. device' \in [Weights -> Content]
    BY <1>1, <1>2, <1>7, LandedType DEF RunDone, DataOK
  <2> QED
    BY <2>1, <1>1, <1>7 DEF RunDone, DataOK
<1>8. CASE CopyLands
  <2>1. Head(copies) \in Copies /\ Tail(copies) \in Seq(Copies) /\ Head(copies).id \in Weights
    BY <1>1, <1>8 DEF CopyLands, DataOK, Copies
  <2>2. Reads(Head(copies)) \in Content
    BY <2>1, <1>2, CopyReads DEF Reads
  <2> QED
    BY <2>1, <2>2, <1>1, <1>8 DEF CopyLands, DataOK
<1> QED
  BY <1>3, <1>4, <1>5, <1>6, <1>7, <1>8 DEF NextRun, Compute, RunBegins, UploadFails,
     AllStaged, PrefetchNext, AllPrefetched, OpDone, OpFails, RunFails, Task, vars, runVars

LEMMA RunTypeStep ==
    ASSUME RunTypeOK, StoreInv, StoreInv', [NextRun]_vars
    PROVE  RunTypeOK'
<1>1. (RunTypeOK <=> ControlOK /\ DataOK)'
  BY RunTypeParts, PTL
<1> QED
  BY <1>1, ControlStep, DataStep

(***************************************************************************)
(* With device copies: a weight staged for the op in progress is on the      *)
(* device, and stays there, because what is copied ahead is another weight.   *)
(***************************************************************************)
LEMMA DeviceStep ==
    ASSUME "torn" \notin Failures, RunTypeOK, DeviceInv, StoreInv', [NextRun]_vars,
           SafePlan(mode)
    PROVE  DeviceInv'
<1>0. /\ mode' = mode /\ mode \in {"host", "async", "blocking"} /\ DataOK
      /\ copies \in Seq(Copies) /\ Staged \subseteq Weights
  <2>1. mode' = mode
    BY ModeFixed
  <2>2. Staged \subseteq Weights
    BY PlanTypes DEF Staged, Read
  <2> QED
    BY <2>1, <2>2, RunTypeParts, PlanAssumption DEF RunTypeOK, DataOK
<1>1. ASSUME NEW w \in Weights, StagesOne(w), Staged' = Staged \cup {w}
      PROVE  DeviceInv'
  <2>1. /\ mode # "async" => copies' = copies
        /\ mode = "async" => copies' = << >>
        /\ \A v \in Weights : v # w => data'[v] = data[v]
        /\ mode # "host" => /\ data'[w] = OnDevice /\ device'[w] = w
                            /\ \A v \in Staged : v # w => device'[v] = device[v]
    BY <1>1, UploadStep
  <2>2. copies' = << >>
    BY <2>1 DEF DeviceInv
  <2>3. \A i \in DOMAIN copies' : copies'[i].id \notin Staged'
    BY <2>2
  <2>4. mode # "host" => \A v \in Staged' : data'[v] = OnDevice /\ device'[v] = v
    BY <2>1, <1>0, <1>1 DEF DeviceInv
  <2> QED
    BY <2>2, <2>3, <2>4, <1>0 DEF DeviceInv
<1>2. mode # "async" /\ ~ (\E w \in Weights : StagesOne(w)) => copies' = << >>
  <2> SUFFICES ASSUME mode # "async", ~ (\E w \in Weights : StagesOne(w)), copies' # copies
               PROVE  copies' = << >>
    BY DEF DeviceInv
  <2>1. copies = << >>
    BY DEF DeviceInv
  <2>2. CASE StageInput
    BY <2>2, NextInput DEF StageInput, StagesOne, RunFails
  <2>3. CASE RunDone
    BY <2>3 DEF RunDone
  <2>4. CASE ~ StageInput /\ ~ RunDone
    BY <2>1, <2>4 DEF NextRun, RunBegins, Compute, UploadFails, SyncFails, AllStaged,
       PrefetchNext, PeekNext, CopyAhead, AllPrefetched, OpDone, OpFails, RunFails, CopyLands,
       Task, vars, runVars
  <2> QED
    BY <2>2, <2>3, <2>4
<1>3. ASSUME Staged' = {}, ~ (\E w \in Weights : StagesOne(w))
      PROVE  DeviceInv'
  BY <1>0, <1>2, <1>3 DEF DeviceInv
<1>4. ASSUME Staged' = Staged, UNCHANGED data, ~ (\E w \in Weights : StagesOne(w)), Staged # {}
      PROVE  DeviceInv'
  <2>1. pc # "idle"
    BY <1>4 DEF Staged
  <2>2. CASE UNCHANGED <<device, copies>>
    BY <2>2, <1>0, <1>2, <1>4 DEF DeviceInv
  <2>3. CASE PeekNext
    <3> DEFINE w == Inputs(oi + 1)[k]
               p == [id |-> w, at |-> 1 - active]
    <3>1. /\ pc = "peek" /\ oi \in 1 .. (Len(Plan) - 1) /\ w \in Ahead(mode, oi + 1)
      BY <2>3, PlanTypes DEF PeekNext, RunTypeOK
    <3>2. w \in Weights
      BY <2>3, AheadInput DEF PeekNext, RunTypeOK
    <3>3. mode # "host" => w \notin Staged
      <4>1. mode # "host" => OpInputs(mode, oi) \cap Ahead(mode, oi + 1) = {}
        BY <3>1 DEF SafePlan, Plan
      <4>2. Staged \subseteq OpInputs(mode, oi)
        BY PlanTypes DEF Staged, Read
      <4> QED
        BY <3>1, <4>1, <4>2
    <3>4. \/ UNCHANGED <<device, copies>>
          \/ mode = "async" /\ copies' = Append(copies, p) /\ UNCHANGED device
          \/ mode = "blocking" /\ device' = [device EXCEPT ![w] = Reads(p)] /\ UNCHANGED copies
      BY <2>3, <1>0 DEF PeekNext, CopyAhead
    <3>5. CASE mode = "async" /\ copies' = Append(copies, p) /\ UNCHANGED device
      <4>0. p.id = w
        OBVIOUS
      <4> HIDE DEF p, w
      <4>1. ASSUME NEW i \in DOMAIN copies' PROVE copies'[i].id \notin Staged
        <5>1. i = Len(copies) + 1 \/ i \in DOMAIN copies
          BY <3>5, <1>0
        <5>2. CASE i = Len(copies) + 1
          BY <5>2, <3>3, <3>5, <4>0, <1>0
        <5>3. CASE i \in DOMAIN copies
          <6>1. copies'[i] = copies[i]
            BY <5>3, <3>5, <1>0
          <6> QED
            BY <5>3, <6>1 DEF DeviceInv
        <5> QED
          BY <5>1, <5>2, <5>3
      <4> QED
        BY <3>5, <4>1, <1>0, <1>4 DEF DeviceInv
    <3>6. CASE mode = "blocking" /\ device' = [device EXCEPT ![w] = Reads(p)] /\ UNCHANGED copies
      <4> HIDE DEF p, w
      <4>1. \A v \in Staged : device'[v] = device[v]
        BY <3>3, <3>6, <1>0 DEF DataOK
      <4> QED
        BY <3>6, <4>1, <1>0, <1>4 DEF DeviceInv
    <3> QED
      BY <2>2, <3>4, <3>5, <3>6
  <2>4. CASE CopyLands
    <3>1. /\ copies # << >> /\ device' = [device EXCEPT ![Head(copies).id] = Reads(Head(copies))]
          /\ copies' = Tail(copies)
      BY <2>4 DEF CopyLands
    <3>2. Len(copies) \in Nat /\ 1 \in DOMAIN copies /\ Head(copies) = copies[1]
      BY <3>1, <1>0
    <3>3. Head(copies).id \notin Staged
      BY <3>2 DEF DeviceInv
    <3>4. \A v \in Staged : device'[v] = device[v]
      BY <3>1, <3>3, <1>0 DEF DataOK
    <3>5. ASSUME NEW i \in DOMAIN copies' PROVE copies'[i].id \notin Staged
      <4>1. i + 1 \in DOMAIN copies /\ copies'[i] = copies[i + 1]
        BY <3>1, <1>0
      <4> QED
        BY <4>1 DEF DeviceInv
    <3>6. mode = "async"
      BY <3>1 DEF DeviceInv
    <3> QED
      BY <3>4, <3>5, <3>6, <1>0, <1>4 DEF DeviceInv
  <2>5. CASE StageInput
    BY <2>5, <2>2, <1>4, <2>1, NextInput DEF StageInput, StagesOne, RunFails
  <2>6. CASE UploadFails \/ SyncFails \/ RunDone \/ OpFails
    <3>1. pc' = "idle"
      BY <2>6 DEF UploadFails, SyncFails, RunDone, OpFails, RunFails, Goto
    <3> QED
      BY <3>1, <1>4 DEF Staged
  <2> QED
    BY <2>2, <2>3, <2>4, <2>5, <2>6 DEF NextRun, RunBegins, Compute, AllStaged, PrefetchNext,
       AllPrefetched, OpDone, Task, vars, runVars
<1> QED
  <2>1. ASSUME NEW w \in Weights, StagesOne(w) PROVE DeviceInv'
    BY <2>1, <1>1, StagedOne
  <2> QED
    BY <2>1, <1>3, <1>4, StagedStep

(***************************************************************************)
(* On the host: the cache keeps the experts that are staged.                  *)
(***************************************************************************)

(* The staging buffers hold no expert that is not in the cache as well. *)
ResidentsCached == \A s \in Slot : resident[s] \in Experts => resident[s] \in Cached
FullBudget      == Experts # {} => expert_budget = ExpertCacheBytes

(* The calls that run() and the task make. *)
StoreCall(id) == Stage(id) \/ Prefetch(id) \/ TaskWrites \/ TaskDone \/ TaskFailed

LEMMA LoadCaches ==
    ASSUME NEW slot, NEW id \in Experts, StagedInto(slot, id)
    PROVE  id \in Cached'
<1>1. id # NoWeight
  BY StoreAssumption
<1>2. CASE IsHit(id)
  BY <1>2 DEF StagedInto, IsHit, ExpertGet, Cached
<1>3. CASE ~ IsHit(id) /\ ExpertPut(id, id)
  BY <1>1, <1>3 DEF ExpertPut, Cached
<1> QED
  BY <1>2, <1>3 DEF StagedInto

(* If the cache has room for every expert, loading one evicts none. *)
LEMMA LoadEvictsNone ==
    ASSUME CacheInv, AllExpertsFit, FullBudget, NEW slot, NEW id, StagedInto(slot, id)
    PROVE  Cached \subseteq Cached' /\ FullBudget'
<1>1. CASE UNCHANGED <<expert_store, expert_budget>>
  BY <1>1 DEF Cached, FullBudget
<1>2. CASE id \in Experts /\ id \notin Cached /\ ExpertPut(id, id)
  <2> DEFINE gone == Evicted(Bytes[id], ExpertCacheBytes)
  <2>1. /\ TotalBytes[Cached] \in Nat /\ Bytes[id] \in Nat \ {0}
        /\ TotalBytes[Cached \cup {id}] = TotalBytes[Cached] + Bytes[id]
        /\ expert_used = TotalBytes[Cached]
    <3>1. Cached \in SUBSET Experts
      BY DEF Cached
    <3> QED
      BY <3>1, <1>2, BytesOfOneMore, StoreAssumption DEF CacheInv, ExpertAccounting
  <2>2. TotalBytes[Cached \cup {id}] <= TotalBytes[Experts]
    <3>1. Cached \cup {id} \in SUBSET Experts /\ Experts \in SUBSET Experts
      BY <1>2 DEF Cached
    <3>2. /\ TotalBytes[Experts] \in Nat /\ TotalBytes[Cached \cup {id}] \in Nat
          /\ TotalBytes[Experts \ (Cached \cup {id})] \in Nat
          /\ TotalBytes[Experts \ (Cached \cup {id})]
               = TotalBytes[Experts] - TotalBytes[Cached \cup {id}]
      BY <3>1, BytesOfRest
    <3> QED
      BY <3>2
  <2>3. /\ expert_used + Bytes[id] <= ExpertCacheBytes /\ ExpertCacheBytes \in Nat \ {0}
        /\ TotalBytes[Experts] \in Nat
    <3>1. TotalBytes[Experts] \in Nat /\ ExpertCacheBytes \in Nat
      BY StoreAssumption
    <3> QED
      BY <3>1, <2>1, <2>2 DEF AllExpertsFit
  <2>4. expert_budget = ExpertCacheBytes /\ expert_budget # 0
    BY <1>2, <2>3 DEF FullBudget
  <2>5. gone = {}
    <3> SUFFICES ASSUME NEW e \in gone PROVE FALSE
      OBVIOUS
    <3> DEFINE before == {c \in Cached \ HotSet : <<c, e>> \in expert_lru}
    <3>1. expert_used - TotalBytes[before] + Bytes[id] > ExpertCacheBytes
      BY DEF Evicted
    <3>2. TotalBytes[before] \in Nat
      <4>1. before \in SUBSET Experts
        BY DEF Cached
      <4> QED
        BY <4>1, StoreAssumption
    <3> HIDE DEF before
    <3> QED
      BY <2>1, <2>3, <3>1, <3>2
  <2> HIDE DEF gone
  <2>6. /\ expert_budget' = ExpertCacheBytes
        /\ expert_store' = [e \in Experts |->
                              IF e = id THEN id
                              ELSE IF e \in Cached \ (gone \cup {id}) THEN expert_store[e]
                              ELSE NoWeight]
    BY <1>2, <2>4 DEF ExpertPut, gone
  <2>7. Cached \subseteq Cached'
    BY <1>2, <2>5, <2>6 DEF Cached
  <2> QED
    BY <2>6, <2>7 DEF FullBudget
<1> QED
  BY <1>1, <1>2 DEF StagedInto, IsHit, ExpertGet

(* Residents and cache stay together when nothing is evicted. *)
LEMMA FitStep ==
    ASSUME StoreInv, AllExpertsFit, FullBudget, ResidentsCached,
           NEW id \in Weights, StoreCall(id)
    PROVE  Cached \subseteq Cached' /\ FullBudget' /\ ResidentsCached'
<1>1. CacheInv /\ resident \in [Slot -> Id] /\ active \in Slot /\ task \in [slot : Slot, id : Id]
  BY InvParts DEF SlotInv
<1>2. CASE UNCHANGED <<resident, expert_store, expert_budget>>
  BY <1>2 DEF ResidentsCached, FullBudget, Cached
<1>3. ASSUME NEW slot \in Slot, NEW w, StagedInto(slot, w)
      PROVE  Cached \subseteq Cached' /\ FullBudget' /\ ResidentsCached'
  <2>1. Cached \subseteq Cached' /\ FullBudget'
    BY <1>1, <1>3, LoadEvictsNone
  <2>2. resident' = [resident EXCEPT ![slot] = w] /\ (w \in Experts => w \in Cached')
    BY <1>3, LoadCaches DEF StagedInto
  <2> QED
    BY <2>1, <2>2, <1>1 DEF ResidentsCached
<1> QED
  BY <1>1, <1>2, <1>3 DEF StoreCall, Stage, StagePrefetched, StagePrefetchFailed, StageResident,
     StageLoad, StageLoadFailed, StageIntoFailed, Prefetch, TaskWrites, TaskDone, TaskFailed,
     slotVars, cacheVars

(* An expert that is staged is handed out from the cache, and is hot. *)
LEMMA ExpertHandedOut ==
    ASSUME StoreInv, ResidentsCached, NEW id \in Experts, Stage(id), out'.id # NoWeight
    PROVE  /\ out' = [id |-> id, at |-> InStore] /\ id \in Cached'
           /\ \/ expert_hot' = MarkedHot(expert_hot, id)
              \/ expert_hot' = MarkedHot(MarkedHot(expert_hot, id), id)
<1>1. id \in Weights /\ id # NoWeight
  BY StoreAssumption
<1>2. active \in Slot /\ 1 - active \in Slot /\ resident \in [Slot -> Id]
  BY DEF StoreInv, TypeOK, Slot
<1>3. ASSUME id \in Cached', HandOut(id, expert_hot)
      PROVE  out' = [id |-> id, at |-> InStore] /\ expert_hot' = MarkedHot(expert_hot, id)
  BY <1>3 DEF HandOut, Cached
<1>4. ASSUME id \in Cached', HandOut(id, MarkedHot(expert_hot, id))
      PROVE  /\ out' = [id |-> id, at |-> InStore]
             /\ expert_hot' = MarkedHot(MarkedHot(expert_hot, id), id)
  BY <1>4 DEF HandOut, Cached
<1>5. CASE StagePrefetched(id)
  <2>1. resident[1 - active] = id
    BY <1>1, <1>5 DEF StagePrefetched, IsPrefetched, StoreInv, FetchConsistent
  <2>2. id \in Cached /\ Cached' = Cached
    BY <1>2, <1>5, <2>1 DEF ResidentsCached, StagePrefetched, Cached
  <2> QED
    BY <1>3, <1>5, <2>2 DEF StagePrefetched
<1>6. CASE StageResident(id)
  <2>1. id \in Cached /\ Cached' = Cached
    BY <1>2, <1>6 DEF ResidentsCached, StageResident, Cached
  <2> QED
    BY <1>3, <1>6, <2>1 DEF StageResident
<1>7. CASE StageLoad(id)
  <2>1. id \in Cached'
    BY <1>7, LoadCaches DEF StageLoad
  <2> QED
    BY <1>3, <1>4, <1>7, <2>1 DEF StageLoad, HotAfter
<1>8. CASE StagePrefetchFailed(id) \/ StageLoadFailed(id)
  BY <1>8 DEF StagePrefetchFailed, StageLoadFailed, Nothing
<1> QED
  BY <1>5, <1>6, <1>7, <1>8 DEF Stage

(* With one buffer in use there is no task: only stage() touches the cache. *)
OneBufferInv ==
    active = 0 /\ resident[1] = NoWeight /\ future = "none" /\ EachOnce(expert_hot)

LEMMA OneBufferStage ==
    ASSUME StoreInv, ResidentsCached, OneBufferInv, NEW id \in Weights, Stage(id)
    PROVE  OneBufferInv' /\ ResidentsCached'
<1>1. /\ id # NoWeight /\ resident \in [Slot -> Id] /\ expert_hot \in Seq(Experts)
      /\ active = 0 /\ resident[1] = NoWeight /\ future = "none" /\ EachOnce(expert_hot)
  BY StoreAssumption DEF StoreInv, TypeOK, OneBufferInv
<1>2. ASSUME NEW hot \in Seq(Experts), EachOnce(hot), HandOut(id, hot)
      PROVE  EachOnce(expert_hot')
  BY <1>2, MarkedHotOnce DEF HandOut
<1>3. CASE StagePrefetched(id) \/ StagePrefetchFailed(id)
  BY <1>1, <1>3 DEF StagePrefetched, StagePrefetchFailed, IsPrefetched
<1>4. CASE StageResident(id)
  <2>1. active' = 0 /\ UNCHANGED <<resident, expert_store>> /\ future' = "none"
    BY <1>1, <1>4 DEF StageResident, FutureConsumed
  <2>2. EachOnce(expert_hot')
    BY <1>1, <1>2, <1>4 DEF StageResident
  <2> QED
    BY <1>1, <2>1, <2>2 DEF OneBufferInv, ResidentsCached, Cached
<1>5. CASE StageLoad(id)
  <2>1. /\ active' = 0 /\ future' = "none" /\ resident' = [resident EXCEPT ![0] = id]
        /\ StagedInto(0, id) /\ HandOut(id, HotAfter(id))
    BY <1>1, <1>5 DEF StageLoad, FutureConsumed, StagedInto
  <2>2. EachOnce(expert_hot')
    <3>1. HotAfter(id) \in Seq(Experts) /\ EachOnce(HotAfter(id))
      BY <1>1, MarkedHotOnce DEF HotAfter
    <3> QED
      BY <2>1, <3>1, <1>2
  <2>3. resident'[1] = NoWeight /\ resident'[0] = id
    BY <2>1, <1>1 DEF Slot
  <2>4. id \in Experts => id \in Cached'
    BY <2>1, LoadCaches
  <2>5. ResidentsCached'
    BY <2>3, <2>4, StoreAssumption DEF ResidentsCached, Slot
  <2> QED
    BY <2>1, <2>2, <2>3, <2>5 DEF OneBufferInv
<1>6. CASE StageLoadFailed(id)
  <2>1. UNCHANGED <<active, resident, expert_store, expert_hot>> /\ future' = "none"
    BY <1>6 DEF StageLoadFailed, StageIntoFailed, FutureConsumed, cacheVars
  <2> QED
    BY <1>1, <2>1 DEF OneBufferInv, ResidentsCached, Cached
<1> QED
  BY <1>3, <1>4, <1>5, <1>6 DEF Stage

(* The store's calls within run(): a stage() that fails ends the op, and      *)
(* nothing is prefetched when no op has anything to copy ahead.                *)
LEMMA RunCalls ==
    ASSUME RunTypeOK, [NextRun]_vars
    PROVE  \/ UNCHANGED storeVars
           \/ \E w \in Weights : Stage(w) /\ (StagesOne(w) \/ Staged' = {})
           \/ (\E w \in Weights : Prefetch(w))
              /\ \E i \in 2 .. Len(Plans[mode]) : Ahead(mode, i) # {}
           \/ TaskWrites \/ TaskDone \/ TaskFailed
<1>1. CASE StageInput
  <2> DEFINE w == Inputs(oi)[k]
  <2>1. w \in Weights
    BY <1>1, NextInput DEF StageInput
  <2>2. pc' = "idle" => Staged' = {}
    BY DEF Staged
  <2> QED
    BY <1>1, <2>1, <2>2 DEF StageInput, StagesOne, RunFails, Goto
<1>2. CASE UploadFails \/ SyncFails
  <2>1. pc' = "idle" /\ Stage(Inputs(oi)[k]) /\ pc = "stage" /\ k <= Len(Inputs(oi))
    BY <1>2 DEF UploadFails, SyncFails, RunFails, Goto
  <2>2. Staged' = {}
    BY <2>1 DEF Staged
  <2> QED
    BY <2>1, <2>2, NextInput
<1>3. CASE PrefetchNext
  <2> DEFINE w == Inputs(oi + 1)[k]
  <2>1. pc = "prefetch" /\ k <= Len(Inputs(oi + 1))
    BY <1>3 DEF PrefetchNext
  <2>2. CASE UNCHANGED storeVars
    BY <2>2
  <2>3. CASE ~ (Plan[oi + 1].listed /\ w \in Experts) /\ Prefetch(w)
    <3>1. w \in Weights /\ w \in Ahead(mode, oi + 1) /\ oi + 1 \in 2 .. Len(Plans[mode])
      BY <2>1, <2>3, AheadInput DEF Plan
    <3> QED
      BY <2>3, <3>1
  <2> QED
    BY <1>3, <2>2, <2>3 DEF PrefetchNext
<1>4. CASE Task
  BY <1>4 DEF Task
<1>5. CASE RunBegins \/ AllStaged \/ PeekNext \/ AllPrefetched \/ OpDone \/ RunDone \/ OpFails
           \/ CopyLands \/ UNCHANGED vars
  BY <1>5 DEF RunBegins, AllStaged, PeekNext, AllPrefetched, OpDone, RunDone, OpFails,
     CopyLands, vars
<1> QED
  BY <1>1, <1>2, <1>3, <1>4, <1>5 DEF NextRun, Compute

(* An op stages no more experts than the hot window holds. *)
LEMMA StagedAreFew ==
    ASSUME RunTypeOK, pc # "idle", HotEnough(mode, oi), OpInputs(mode, oi) \subseteq Experts,
           NEW S \in SUBSET Read(oi)
    PROVE  IsFiniteSet(S) /\ Cardinality(S) \in Nat /\ Cardinality(S) <= MaxHot
<1>1. /\ InputSet(oi) = OpInputs(mode, oi) /\ InputSet(oi) \subseteq Weights
      /\ Plan[oi].listed \in BOOLEAN /\ IsFiniteSet(InputSet(oi)) /\ keep \in Routings(oi)
  <2>1. oi \in 1 .. Len(Plan) /\ keep \in Routings(oi)
    BY DEF RunTypeOK
  <2>2. InputSet(oi) \subseteq Weights /\ IsFiniteSet(Weights)
    BY <2>1, PlanTypes, StoreAssumption
  <2>3. IsFiniteSet(InputSet(oi))
    BY <2>2, FS_Subset
  <2> QED
    BY <2>1, <2>2, <2>3, PlanTypes
<1>2. MaxHot \in Nat /\ TopK \in Nat
  BY StoreAssumption, PlanAssumption
<1>3. CASE Plan[oi].listed
  <2>1. keep \subseteq InputSet(oi) /\ Cardinality(keep) = TopK /\ TopK <= MaxHot
    BY <1>1, <1>3 DEF Routings, HotEnough, Plan
  <2>2. S \subseteq keep
    BY <1>1, <1>3 DEF Read, Skipped
  <2>3. IsFiniteSet(keep)
    BY <1>1, <2>1, FS_Subset
  <2>4. IsFiniteSet(S) /\ Cardinality(S) <= Cardinality(keep)
    BY <2>2, <2>3, FS_Subset
  <2> QED
    BY <2>1, <2>4, <1>2, FS_CardinalityType
<1>4. CASE ~ Plan[oi].listed
  <2>1. Cardinality(InputSet(oi)) <= MaxHot /\ S \subseteq InputSet(oi)
    BY <1>1, <1>4 DEF HotEnough, Plan, Read
  <2>2. IsFiniteSet(S) /\ Cardinality(S) <= Cardinality(InputSet(oi))
    BY <1>1, <2>1, FS_Subset
  <2> QED
    BY <1>1, <1>2, <2>1, <2>2, FS_CardinalityType
<1> QED
  BY <1>3, <1>4

(* What the host side knows of the cache, whatever is staged. *)
CacheKept == AllExpertsFit \/ OneBuffer(mode)

StoreSide ==
    /\ CacheKept => ResidentsCached
    /\ AllExpertsFit => FullBudget
    /\ OneBuffer(mode) => OneBufferInv

(* What has been staged is where the kernels will look for it. *)
StagedSide ==
    IF OneWeight(mode, oi)
    THEN \A w \in Staged : out.id = w /\ data[w] = out.at
    ELSE /\ \A w \in Staged : w \in Cached /\ data[w] = InStore
         /\ AllExpertsFit \/ Staged \subseteq Newest(expert_hot, Cardinality(Staged))

LEMMA HostParts == HostInv <=> (mode = "host" => StoreSide /\ StagedSide)
BY DEF HostInv, StoreSide, StagedSide, CacheKept, ResidentsCached, FullBudget, OneBufferInv

LEMMA StoreSideStep ==
    ASSUME RunTypeOK, StoreInv, StoreSide, [NextRun]_vars
    PROVE  StoreSide' /\ (AllExpertsFit => Cached \subseteq Cached')
<1>1. mode' = mode
  BY ModeFixed
<1>2. ASSUME AllExpertsFit
      PROVE  Cached \subseteq Cached' /\ FullBudget' /\ ResidentsCached'
  <2>1. FullBudget /\ ResidentsCached
    BY <1>2 DEF StoreSide, CacheKept
  <2>2. CASE UNCHANGED storeVars
    BY <2>1, <2>2 DEF storeVars, FullBudget, ResidentsCached, Cached
  <2>3. ASSUME NEW w \in Weights, StoreCall(w)
        PROVE  Cached \subseteq Cached' /\ FullBudget' /\ ResidentsCached'
    BY <1>2, <2>1, <2>3, FitStep
  <2>4. TaskWrites \/ TaskDone \/ TaskFailed => prefetch_id \in Weights
    BY DEF TaskWrites, TaskDone, TaskFailed, StoreInv, FetchConsistent, TaskAlive
  <2> QED
    BY <2>2, <2>3, <2>4, RunCalls DEF StoreCall
<1>3. ASSUME OneBuffer(mode)
      PROVE  OneBufferInv' /\ ResidentsCached'
  <2>1. OneBufferInv /\ ResidentsCached
    BY <1>3 DEF StoreSide, CacheKept
  <2>2. CASE UNCHANGED storeVars
    BY <2>1, <2>2 DEF storeVars, OneBufferInv, ResidentsCached, Cached
  <2>3. ASSUME NEW w \in Weights, Stage(w)
        PROVE  OneBufferInv' /\ ResidentsCached'
    BY <2>1, <2>3, OneBufferStage
  <2>4. ASSUME NEW w \in Weights, Prefetch(w), NEW i \in 2 .. Len(Plans[mode]),
               Ahead(mode, i) # {}
        PROVE  FALSE
    BY <1>3, <2>4 DEF Prefetch, CanPrefetch, HasSlot, OneBuffer
  <2>5. ~ (TaskWrites \/ TaskDone \/ TaskFailed)
    BY <2>1 DEF OneBufferInv, TaskWrites, TaskDone, TaskFailed
  <2> QED
    BY <2>2, <2>3, <2>4, <2>5, RunCalls
<1> QED
  BY <1>1, <1>2, <1>3 DEF StoreSide, CacheKept, OneBuffer, Ahead, OpInputs

(* The input just staged joins the others, and none of them is lost. *)
LEMMA StagedSideOne ==
    ASSUME RunTypeOK, StoreInv, StoreInv', StoreSide, StagedSide, "torn" \notin Failures,
           DeviceInv, mode = "host", SafePlan(mode), NEW w \in Weights, StagesOne(w),
           AllExpertsFit => Cached \subseteq Cached'
    PROVE  StagedSide'
<1>1. /\ Staged' = Staged \cup {w} /\ w \in Read(oi) /\ oi' = oi /\ mode' = mode
      /\ Stage(w) /\ out'.id # NoWeight /\ pc = "stage"
      /\ Staged \subseteq Read(oi)
  BY StagedOne DEF StagesOne, Staged
<1>2. /\ data'[w] = out'.at /\ \A v \in Weights : v # w => data'[v] = data[v]
  BY UploadStep
<1>3. oi \in 1 .. Len(Plan) /\ Read(oi) \subseteq OpInputs(mode, oi)
      /\ OpInputs(mode, oi) \subseteq Weights
  BY PlanTypes DEF Read
<1>4. CASE OneWeight(mode, oi)
  <2>1. \A v \in Staged' : v = w
    BY <1>1, <1>3, <1>4 DEF OneWeight
  <2>2. out'.id = w
    BY <1>1, StageOut
  <2> QED
    BY <1>1, <1>2, <1>4, <2>1, <2>2 DEF StagedSide, OneWeight, OpInputs
<1>5. CASE ~ OneWeight(mode, oi)
  <2>1. /\ OpInputs(mode, oi) \subseteq Experts
        /\ AllExpertsFit \/ (OneBuffer(mode) /\ HotEnough(mode, oi))
    BY <1>3, <1>5 DEF SafePlan, Plan
  <2>2. ResidentsCached /\ w \in Experts
    BY <2>1, <1>1, <1>3 DEF StoreSide, CacheKept
  <2>3. /\ out'.at = InStore /\ w \in Cached'
        /\ \/ expert_hot' = MarkedHot(expert_hot, w)
           \/ expert_hot' = MarkedHot(MarkedHot(expert_hot, w), w)
    BY <2>2, <1>1, ExpertHandedOut
  <2>4. \A v \in Staged : v \in Cached /\ data[v] = InStore
    BY <1>5 DEF StagedSide
  <2>5. \A v \in Staged' : data'[v] = InStore
    BY <1>1, <1>2, <1>3, <2>3, <2>4
  <2>6. CASE AllExpertsFit
    BY <1>1, <1>5, <2>3, <2>4, <2>5, <2>6 DEF StagedSide, OneWeight, OpInputs
  <2>7. CASE ~ AllExpertsFit
    <3>1. /\ EachOnce(expert_hot) /\ expert_hot \in Seq(Experts) /\ HotEnough(mode, oi)
          /\ Staged \subseteq Newest(expert_hot, Cardinality(Staged))
      BY <1>5, <2>1, <2>7 DEF StoreSide, OneBufferInv, StagedSide, StoreInv, TypeOK
    <3>2. /\ IsFiniteSet(Staged) /\ Cardinality(Staged) \in Nat
          /\ Cardinality(Staged') \in Nat /\ Cardinality(Staged') <= MaxHot
      BY <3>1, <1>1, <2>1, StagedAreFew
    <3>3. (w \in Staged /\ Cardinality(Staged') = Cardinality(Staged))
          \/ Cardinality(Staged') = Cardinality(Staged) + 1
      BY <3>2, <1>1, FS_AddElement
    <3>4. Staged' \subseteq Newest(MarkedHot(expert_hot, w), Cardinality(Staged'))
      <4>1. Staged \in SUBSET Experts
        BY <1>1, <1>3, <2>1
      <4> QED
        BY <3>1, <3>2, <3>3, <4>1, <2>2, <1>1, NewestMarked
    <3>5. Staged' \subseteq Newest(expert_hot', Cardinality(Staged'))
      <4>1. CASE expert_hot' = MarkedHot(expert_hot, w)
        BY <3>4, <4>1
      <4>2. CASE expert_hot' = MarkedHot(MarkedHot(expert_hot, w), w)
        <5>1. /\ MarkedHot(expert_hot, w) \in Seq(Experts)
              /\ EachOnce(MarkedHot(expert_hot, w))
          BY <2>2, <3>1, MarkedHotOnce
        <5>2. Staged' \in SUBSET Experts /\ w \in Staged' /\ Staged' \cup {w} = Staged'
          BY <1>1, <1>3, <2>1
        <5> QED
          BY <4>2, <5>1, <5>2, <2>2, <3>2, <3>4, NewestMarked
      <4> QED
        BY <4>1, <4>2, <2>3
    <3>6. Staged' \subseteq Cached'
      <4>1. Newest(expert_hot', Cardinality(Staged')) \subseteq HotSet'
        BY DEF Newest, HotSet
      <4>2. HotSet' \subseteq Cached'
        BY DEF StoreInv, ExpertAccounting
      <4> QED
        BY <3>5, <4>1, <4>2
    <3> QED
      BY <1>1, <1>5, <2>5, <3>5, <3>6 DEF StagedSide, OneWeight, OpInputs
  <2> QED
    BY <2>6, <2>7
<1> QED
  BY <1>4, <1>5

LEMMA StagedSideStep ==
    ASSUME RunTypeOK, StoreInv, StoreSide, StagedSide, mode = "host", SafePlan(mode),
           [NextRun]_vars, ~ \E w \in Weights : StagesOne(w),
           AllExpertsFit => Cached \subseteq Cached'
    PROVE  StagedSide'
<1>1. mode' = mode
  BY ModeFixed
<1>2. CASE Staged' = {}
  BY <1>2 DEF StagedSide
<1>3. CASE Staged' # {} /\ Staged' = Staged /\ oi' = oi /\ UNCHANGED data
  <2>1. \/ UNCHANGED storeVars
        \/ \E w \in Weights : Prefetch(w) /\ \E i \in 2 .. Len(Plans[mode]) : Ahead(mode, i) # {}
        \/ TaskWrites \/ TaskDone \/ TaskFailed
    BY <1>3, RunCalls
  <2>2. UNCHANGED out
    BY <2>1 DEF storeVars, Prefetch, TaskWrites, TaskDone, TaskFailed
  <2>3. CASE OneWeight(mode, oi)
    BY <1>1, <1>3, <2>2, <2>3 DEF StagedSide, OneWeight, OpInputs
  <2>4. CASE ~ OneWeight(mode, oi) /\ AllExpertsFit
    BY <1>1, <1>3, <2>4 DEF StagedSide, OneWeight, OpInputs
  <2>5. CASE ~ OneWeight(mode, oi) /\ ~ AllExpertsFit
    <3>1. OneBuffer(mode)
      <4>1. oi \in 1 .. Len(Plans[mode])
        BY PlanTypes DEF Plan
      <4> QED
        BY <4>1, <2>5 DEF SafePlan
    <3>2. OneBufferInv
      BY <3>1 DEF StoreSide
    <3>3. UNCHANGED storeVars
      BY <2>1, <3>1, <3>2 DEF OneBuffer, OneBufferInv, Prefetch, CanPrefetch, HasSlot,
         TaskWrites, TaskDone, TaskFailed
    <3>4. Cached' = Cached /\ expert_hot' = expert_hot
      BY <3>3 DEF storeVars, Cached
    <3> QED
      BY <1>1, <1>3, <2>5, <3>4 DEF StagedSide, OneWeight, OpInputs
  <2> QED
    BY <2>3, <2>4, <2>5
<1> QED
  BY <1>2, <1>3, StagedStep

(***************************************************************************)
(* The invariant and what it says of the kernels.                            *)
(***************************************************************************)
LEMMA TypesInit == ASSUME InitRun PROVE StoreInv /\ RunTypeOK
<1>1. /\ StoreInv /\ mode \in Modes /\ pc = "idle" /\ oi = 1 /\ k = 1 /\ copies = << >>
      /\ data = [w \in Weights |-> Null] /\ device = [w \in Weights |-> NoWeight]
      /\ in_flight = [w \in Weights |-> FALSE]
  BY InitInv DEF InitRun
<1>2. Len(Plan) \in Nat \ {0}
  <2>1. Plan \in Seq([inputs : Seq(Weights), listed : BOOLEAN]) /\ Len(Plan) > 0
    BY <1>1, PlanAssumption DEF Plan
  <2> QED
    BY <2>1
<1>3. ControlOK
  BY <1>1, <1>2 DEF ControlOK
<1>4. DataOK
  BY <1>1 DEF DataOK, Content
<1> QED
  BY <1>1, <1>3, <1>4, RunTypeParts

LEMMA TypesStep == StoreInv /\ RunTypeOK /\ [NextRun]_vars => StoreInv' /\ RunTypeOK'
<1> SUFFICES ASSUME StoreInv, RunTypeOK, [NextRun]_vars PROVE StoreInv' /\ RunTypeOK'
  OBVIOUS
<1>1. StoreInv'
  BY StoreSteps, StepInv
<1> QED
  BY <1>1, RunTypeStep

(* run() uses the store as the store's specification says: whatever the plan *)
(* and the backend, what is proved of the store holds while run() uses it.     *)
THEOREM RunUsesTheStore == RunSpec => Spec
<1>1. InitRun => Init /\ StoreInv /\ RunTypeOK
  BY TypesInit DEF InitRun
<1>2. StoreInv /\ RunTypeOK /\ [NextRun]_vars => [Next]_storeVars
  BY StoreSteps
<1> QED
  BY <1>1, <1>2, TypesStep, PTL DEF RunSpec, Spec

(* Every variable keeps its type; in particular what run() stages and peeks    *)
(* at is an input of the op it is at or of the next, and a copy to the device   *)
(* reads a staging buffer or a cached expert.                                    *)
THEOREM RunTypeCorrect == RunSpec => [](TypeOK /\ RunTypeOK)
<1>1. StoreInv => TypeOK
  BY DEF StoreInv
<1> QED
  BY <1>1, TypesInit, TypesStep, PTL DEF RunSpec

LEMMA RunInit == ASSUME InitRun PROVE RunInv
<1>1. StoreInv /\ RunTypeOK /\ pc = "idle" /\ copies = << >>
  BY TypesInit DEF InitRun
<1>2. Staged = {}
  BY <1>1 DEF Staged
<1>3. DeviceInv
  BY <1>1, <1>2 DEF DeviceInv
<1>4. StoreSide /\ StagedSide
  <2>1. /\ resident = [s \in Slot |-> NoWeight] /\ expert_budget = ExpertCacheBytes
        /\ active = 0 /\ future = "none" /\ expert_hot = << >>
    BY DEF InitRun, Init
  <2>2. NoWeight \notin Experts
    BY StoreAssumption
  <2>3. ResidentsCached
    BY <2>1, <2>2 DEF ResidentsCached
  <2>4. EachOnce(<< >>)
    BY DEF EachOnce
  <2> QED
    BY <1>2, <2>1, <2>3, <2>4 DEF StoreSide, StagedSide, FullBudget, OneBufferInv, Slot
<1> QED
  BY <1>1, <1>3, <1>4, HostParts DEF RunInv

LEMMA RunStep ==
    ASSUME "torn" \notin Failures, SafePlan(mode), RunInv, [NextRun]_vars
    PROVE  RunInv'
<1>1. StoreInv /\ RunTypeOK /\ DeviceInv /\ (mode = "host" => StoreSide /\ StagedSide)
      /\ mode' = mode
  BY HostParts, ModeFixed DEF RunInv
<1>2. StoreInv' /\ RunTypeOK'
  BY <1>1, TypesStep
<1>3. DeviceInv'
  BY <1>1, <1>2, DeviceStep
<1>4. mode = "host" => StoreSide' /\ StagedSide'
  BY <1>1, <1>2, StoreSideStep, StagedSideOne, StagedSideStep
<1>5. (HostInv <=> (mode = "host" => StoreSide /\ StagedSide))'
  BY HostParts, PTL
<1> QED
  BY <1>1, <1>2, <1>3, <1>4, <1>5 DEF RunInv

(* What a kernel reads is the weight, because it is staged. *)
LEMMA StagedAreRead ==
    ASSUME "torn" \notin Failures
    PROVE  RunInv => KernelReadsItsWeights
<1> SUFFICES ASSUME RunInv, pc = "dispatch", NEW w \in Read(oi)
             PROVE  KernelReads(w) = w
  BY DEF KernelReadsItsWeights
<1>1. StoreInv /\ RunTypeOK /\ DeviceInv /\ (mode = "host" => StoreSide /\ StagedSide)
  BY HostParts DEF RunInv
<1>2. w \in Staged /\ w \in Weights /\ w # NoWeight
  BY <1>1, PlanTypes, StoreAssumption DEF Staged, Read
<1>3. StagedIntact
  BY <1>1, StagedReads
<1>4. out.at \in {0, 1, InStore}
  BY <1>1 DEF StoreInv, TypeOK
<1>5. CASE mode # "host"
  BY <1>1, <1>2, <1>5 DEF DeviceInv, KernelReads, OnDevice, Null
<1>6. CASE mode = "host" /\ OneWeight(mode, oi)
  <2>1. out.id = w /\ data[w] = out.at
    BY <1>1, <1>2, <1>6 DEF StagedSide
  <2>2. Reads(out) = w
    BY <1>2, <1>3, <2>1 DEF StagedIntact
  <2>3. Reads([id |-> w, at |-> data[w]]) = w
    BY <2>1, <2>2 DEF Reads, ReadsFrom
  <2> QED
    BY <1>4, <2>1, <2>3 DEF KernelReads, OnDevice, Null, InStore
<1>7. CASE mode = "host" /\ ~ OneWeight(mode, oi)
  <2>1. w \in Cached /\ data[w] = InStore
    BY <1>1, <1>2, <1>7 DEF StagedSide
  <2>2. expert_store[w] = w
    BY <1>1, <2>1 DEF StoreInv, ExpertAccounting
  <2> QED
    BY <2>1, <2>2 DEF KernelReads, OnDevice, Null, InStore, Reads, ReadsFrom
<1> QED
  BY <1>5, <1>6, <1>7

(* With every plan and backend whose ops give no staged weight away before    *)
(* they run, and as long as no load fails half way, what a kernel reads is     *)
(* the weight the plan names: through prefetches by the task, copies ahead to   *)
(* a device that land whenever they do, evictions, and calls of run() that fail. *)
THEOREM KernelsReadTheirWeights ==
    ASSUME "torn" \notin Failures
    PROVE  RunSpec => [](SafePlan(mode) => KernelReadsItsWeights)
<1>1. InitRun => (SafePlan(mode) => RunInv)
  BY RunInit
<1>2. (SafePlan(mode) => RunInv) /\ [NextRun]_vars => (SafePlan(mode) => RunInv)'
  <2> SUFFICES ASSUME SafePlan(mode) => RunInv, [NextRun]_vars, SafePlan(mode)'
               PROVE  RunInv'
    OBVIOUS
  <2>1. SafePlan(mode)
    <3>1. mode' = mode
      BY ModeFixed
    <3>2. SafePlan(mode)' <=> SafePlan(mode')
      BY DEF SafePlan, OneWeight, OneBuffer, HotEnough, Ahead, OpInputs, AllExpertsFit
    <3> QED
      BY <3>1, <3>2
  <2> QED
    BY <2>1, RunStep
<1>3. RunInv => KernelReadsItsWeights
  BY StagedAreRead
<1> QED
  BY <1>1, <1>2, <1>3, PTL DEF RunSpec

=============================================================================

---------------------------- MODULE SessionProofs ----------------------------
(***************************************************************************)
(* First the KV cache: its window is right for every number of layers,      *)
(* window size, sink and step length; KvInv is the inductive invariant.      *)
(* Then the session: it implements the caller that KvCache assumes, so what  *)
(* is proved of KvCache holds of every session, and a stop takes effect      *)
(* within one step.                                                          *)
(***************************************************************************)
EXTENDS Session, TLAPS

(* Minimum of two integers, as std::min computes it. *)
LEMMA Min2Fact ==
    ASSUME NEW a \in Int, NEW b \in Int
    PROVE  /\ Min2(a, b) \in Int
           /\ Min2(a, b) <= a /\ Min2(a, b) <= b
           /\ Min2(a, b) = a \/ Min2(a, b) = b
BY DEF Min2

(* compact_to_fit never drops more rows than the step appends, none of the   *)
(* sink, and none at all while there is room.                                 *)
LEMMA DroppedBounds ==
    ASSUME TypeOK, WithinWindow, NEW q \in Nat \ {0}
    PROVE  /\ Dropped(q) \in Nat
           /\ Dropped(q) <= q /\ Dropped(q) <= past_len
           /\ Dropped(q) > 0 => /\ past_len - Dropped(q) >= sink
                                /\ past_len + q > max_seq
           /\ past_len + q <= max_seq => Dropped(q) = 0
<1> DEFINE over == past_len + q - max_seq
           movable == past_len - Min2(sink, past_len)
<1>1. over \in Int /\ over <= q
  BY DEF TypeOK, WithinWindow
<1>2. movable \in Nat /\ movable <= past_len
      /\ (movable > 0 => past_len - movable = sink)
  BY DEF TypeOK, Min2
<1>3. Min2(over, movable) \in Int /\ Min2(over, movable) <= over
      /\ Min2(over, movable) <= movable
      /\ (Min2(over, movable) = over \/ Min2(over, movable) = movable)
  BY <1>1, <1>2, Min2Fact
<1>4. Dropped(q) = IF over <= 0 THEN 0 ELSE Min2(over, movable)
  BY DEF Dropped
<1> HIDE DEF over, movable
<1>5. over = past_len + q - max_seq
  BY DEF over
<1> QED
  BY <1>1, <1>2, <1>3, <1>4, <1>5 DEF TypeOK

(* Compaction leaves the sink where it is and moves the rest down. *)
LEMMA CompactedRow ==
    ASSUME TypeOK, WithinWindow, WindowIsSinkAndTail, NEW q \in Nat \ {0},
           NEW l \in Layer, NEW i \in 0 .. (past_len - Dropped(q) - 1)
    PROVE  Compacted(Dropped(q))[l][i] =
               IF i < sink THEN i ELSE abs_pos - (past_len - Dropped(q)) + i
<1> DEFINE d == Dropped(q)
<1>1. d \in Nat /\ d <= past_len /\ (d > 0 => past_len - d >= sink)
  BY DroppedBounds
<1> HIDE DEF d
<1>2. i \in 0 .. (max_seq - 1) /\ i \in 0 .. (past_len - 1) /\ i \in Int /\ i < past_len - d
  BY <1>1 DEF TypeOK, WithinWindow, d
<1>3. Compacted(d)[l][i] =
        IF d > 0 /\ i >= Min2(sink, past_len) /\ i < past_len - d
        THEN rows[l][i + d] ELSE rows[l][i]
  BY <1>2 DEF Compacted
<1>4. CASE d = 0
  BY <1>2, <1>3, <1>4 DEF WindowIsSinkAndTail, TypeOK, d
<1>5. CASE d > 0 /\ i < sink
  <2>1. Min2(sink, past_len) = sink
    BY <1>1, <1>5 DEF TypeOK, Min2
  <2>2. ~ (i >= Min2(sink, past_len))
    BY <1>2, <1>5, <2>1 DEF TypeOK
  <2> QED
    BY <1>2, <1>3, <1>5, <2>2 DEF WindowIsSinkAndTail, d
<1>6. CASE d > 0 /\ i >= sink
  <2>1. Min2(sink, past_len) = sink
    BY <1>1, <1>6 DEF TypeOK, Min2
  <2>2. Compacted(d)[l][i] = rows[l][i + d]
    BY <1>2, <1>3, <1>6, <2>1
  <2>3. i + d \in 0 .. (past_len - 1) /\ ~ (i + d < sink) /\ ~ (i < sink)
    BY <1>1, <1>2, <1>6 DEF TypeOK
  <2>4. rows[l][i + d] = abs_pos - past_len + (i + d)
    BY <2>3 DEF WindowIsSinkAndTail
  <2> QED
    BY <1>1, <1>2, <2>2, <2>3, <2>4 DEF TypeOK, d
<1> QED
  BY <1>1, <1>2, <1>4, <1>5, <1>6 DEF TypeOK

(* The rows after compaction are rows of the same buffers. *)
LEMMA CompactedType ==
    ASSUME TypeOK, NEW d \in Nat, d <= past_len, past_len <= max_seq
    PROVE  Compacted(d) \in [Layer -> [0 .. (max_seq - 1) -> Int]]
<1>1. Min2(sink, past_len) \in Nat
  BY DEF TypeOK, Min2
<1>2. SUFFICES ASSUME NEW l \in Layer, NEW i \in 0 .. (max_seq - 1)
               PROVE  (IF d > 0 /\ i >= Min2(sink, past_len) /\ i < past_len - d
                       THEN rows[l][i + d] ELSE rows[l][i]) \in Int
  BY DEF Compacted
<1>3. rows[l] \in [0 .. (max_seq - 1) -> Int]
  BY DEF TypeOK
<1>4. CASE i < past_len - d
  <2>1. i + d \in 0 .. (max_seq - 1)
    BY <1>4 DEF TypeOK
  <2> QED
    BY <1>3, <2>1
<1>5. CASE ~ (i < past_len - d)
  BY <1>3, <1>5
<1> QED
  BY <1>4, <1>5

(* The appended rows are rows of the same buffers. *)
LEMMA AppendedType ==
    ASSUME TypeOK, WithinWindow, NEW q \in Nat \ {0}, NEW l \in Layer, Appended(l, q)
    PROVE  rows' \in [Layer -> [0 .. (max_seq - 1) -> Int]]
<1> DEFINE C == Compacted(Dropped(q))
           n == past_len - Dropped(q)
           R == [i \in 0 .. (max_seq - 1) |->
                    IF i >= n /\ i < n + q THEN abs_pos + (i - n) ELSE C[l][i]]
<1>1. Dropped(q) \in Nat /\ Dropped(q) <= past_len /\ past_len <= max_seq /\ n \in Int
  BY DroppedBounds DEF WithinWindow, TypeOK
<1>2. C \in [Layer -> [0 .. (max_seq - 1) -> Int]]
  BY <1>1, CompactedType
<1>3. rows' = [C EXCEPT ![l] = R]
  BY DEF Appended
<1> HIDE DEF C, n
<1>4. abs_pos \in Int
  BY DEF TypeOK
<1>5. R \in [0 .. (max_seq - 1) -> Int]
  <2>1. ASSUME NEW i \in 0 .. (max_seq - 1)
        PROVE  (IF i >= n /\ i < n + q THEN abs_pos + (i - n) ELSE C[l][i]) \in Int
    <3>1. C[l][i] \in Int
      BY <1>2
    <3>2. abs_pos + (i - n) \in Int
      BY <1>1, <1>4
    <3> QED
      BY <3>1, <3>2
  <2> QED
    BY <2>1
<1> HIDE DEF R
<1> QED
  BY <1>2, <1>3, <1>5

(* The state before configure() satisfies the invariant. *)
LEMMA InitInv == Init => KvInv
BY KvAssumption DEF Init, KvInv, TypeOK, WithinWindow, StepConsistent, WindowIsSinkAndTail,
                    PendingRows, Blank, Zero, Configured, Layer

(* A call that empties the cache (configure, reset, a drop) keeps it. *)
LEMMA EmptiedInv ==
    ASSUME KvInv, NoStep, UNCHANGED stepVars,
           max_seq' \in Nat, sink' \in Nat, rope_scale_len' \in Nat,
           max_seq' > 0 => sink' < max_seq',
           past_len' = 0, pending_seq' = 0, abs_pos' = 0,
           rows' = [l \in Layer |-> [i \in 0 .. (max_seq' - 1) |-> Zero]]
    PROVE  KvInv'
<1>1. layer' = 0 /\ seq' = 0 /\ seen' = seen
  BY DEF NoStep, stepVars
<1>2. TypeOK'
  BY <1>1, KvAssumption DEF KvInv, TypeOK, Zero
<1>3. WithinWindow' /\ StepConsistent' /\ WindowIsSinkAndTail' /\ PendingRows'
  BY <1>1, <1>2 DEF WithinWindow, StepConsistent, WindowIsSinkAndTail, PendingRows, Configured,
                    TypeOK, Layer
<1> QED
  BY <1>2, <1>3 DEF KvInv

(* Attention of one layer: what the window holds is untouched but for the    *)
(* rows that had to go, and the new rows are pending.                         *)
LEMMA AttendInv == ASSUME KvInv, Attend PROVE KvInv'
<1> USE DEF KvInv
<1> DEFINE n == past_len - Dropped(seq)
           C == Compacted(Dropped(seq))
<1>1. seq \in Nat \ {0} /\ layer \in Layer /\ seq <= max_seq /\ n + seq <= max_seq
  BY KvAssumption DEF Attend, TypeOK, Layer, Fits
<1>2. Appended(layer, seq) /\ layer' = layer + 1 /\ seq' = seq
      /\ seen' = [seen EXCEPT ![layer] = past_len]
  BY DEF Attend
<1>3. /\ past_len' = n /\ pending_seq' = seq
      /\ max_seq' = max_seq /\ sink' = sink /\ abs_pos' = abs_pos
      /\ rope_scale_len' = rope_scale_len
  BY <1>2 DEF Appended
<1>4. /\ Dropped(seq) \in Nat /\ Dropped(seq) <= past_len
      /\ (Dropped(seq) > 0 => n >= sink /\ past_len + seq > max_seq)
      /\ n \in Nat
  BY <1>1, DroppedBounds DEF TypeOK
<1>5. rows' \in [Layer -> [0 .. (max_seq - 1) -> Int]]
  BY <1>1, <1>2, AppendedType
<1>6. ASSUME NEW l \in Layer, NEW i \in 0 .. (max_seq - 1)
      PROVE  rows'[l][i] = IF l = layer /\ i >= n /\ i < n + seq THEN abs_pos + (i - n)
                           ELSE C[l][i]
  <2>1. C \in [Layer -> [0 .. (max_seq - 1) -> Int]]
    BY <1>4, CompactedType DEF WithinWindow
  <2>2. rows' = [C EXCEPT ![layer] = [j \in 0 .. (max_seq - 1) |->
                    IF j >= n /\ j < n + seq THEN abs_pos + (j - n) ELSE C[layer][j]]]
    BY <1>2 DEF Appended
  <2> HIDE DEF C, n
  <2> QED
    BY <1>1, <2>1, <2>2
<1>7. TypeOK'
  <2> HIDE DEF n, C
  <2>1. layer' \in 0 .. NLayers /\ seq' \in Nat
    BY <1>1, <1>2, KvAssumption DEF Layer, TypeOK
  <2>2. seen' \in [Layer -> Nat]
    BY <1>1, <1>2 DEF TypeOK
  <2> QED
    BY <1>1, <1>3, <1>4, <1>5, <2>1, <2>2 DEF TypeOK
<1>8. WithinWindow' /\ StepConsistent'
  <2>1. n <= past_len /\ (n # past_len => n >= sink)
    BY <1>4 DEF TypeOK
  <2> HIDE DEF n
  <2>2. WithinWindow'
    BY <1>1, <1>2, <1>3, <1>4, <2>1 DEF TypeOK, WithinWindow, Configured
  <2>3. StepConsistent'
    BY <1>1, <1>2, <1>3, <1>4, <2>1 DEF TypeOK, StepConsistent, Configured
  <2> QED
    BY <2>2, <2>3
<1>9. WindowIsSinkAndTail'
  <2> SUFFICES ASSUME NEW l \in Layer, NEW i \in 0 .. (n - 1)
               PROVE  rows'[l][i] = IF i < sink THEN i ELSE abs_pos - n + i
    BY <1>3 DEF WindowIsSinkAndTail
  <2>1. i \in 0 .. (max_seq - 1) /\ ~ (i >= n)
    <3>1. n \in Nat /\ n + seq <= max_seq /\ seq \in Nat /\ max_seq \in Nat
      BY <1>1, <1>4 DEF TypeOK
    <3> HIDE DEF n
    <3> QED
      BY <3>1
  <2>2. rows'[l][i] = C[l][i]
    BY <1>6, <2>1
  <2> QED
    BY <1>1, <2>2, CompactedRow
<1>10. PendingRows'
  <2> SUFFICES ASSUME NEW l \in Layer, l < layer + 1, NEW i \in n .. (n + seq - 1)
               PROVE  rows'[l][i] = abs_pos + (i - n)
    BY <1>2, <1>3 DEF PendingRows
  <2>1. i \in 0 .. (max_seq - 1) /\ i >= n /\ i < n + seq
    <3> HIDE DEF n
    <3>1. max_seq \in Nat
      BY DEF TypeOK
    <3> QED
      BY <1>1, <1>4, <3>1
  <2>2. CASE l = layer
    BY <1>6, <2>1, <2>2
  <2>3. CASE l # layer
    <3>1. l < layer /\ layer > 0
      BY <1>1, <2>3 DEF Layer
    <3>2. Dropped(seq) = 0 /\ n = past_len
      BY <1>1, <3>1, <1>4, DroppedBounds DEF WithinWindow, TypeOK
    <3>3. rows'[l][i] = C[l][i]
      BY <1>6, <2>1, <2>3
    <3>4. C[l][i] = rows[l][i]
      BY <2>1, <3>2 DEF Compacted
    <3>5. rows[l][i] = abs_pos + (i - past_len)
      BY <3>1, <3>2 DEF PendingRows
    <3> QED
      BY <3>2, <3>3, <3>4, <3>5
  <2> QED
    BY <2>2, <2>3
<1> QED
  BY <1>7, <1>8, <1>9, <1>10

(* A refused append keeps the rows it has compacted, and the window is still *)
(* the sink and the tail.                                                     *)
LEMMA AttendRefusedInv == ASSUME KvInv, AttendRefused PROVE KvInv'
<1> USE DEF KvInv
<1>1. seq \in Nat \ {0} /\ layer' = 0 /\ seq' = 0 /\ seen' = seen
  BY DEF AttendRefused, StepOver, TypeOK
<1>2. /\ max_seq' = max_seq /\ sink' = sink /\ abs_pos' = abs_pos
      /\ pending_seq' = pending_seq /\ rope_scale_len' = rope_scale_len
  BY DEF AttendRefused, AppendRefused
<1>3. CASE UNCHANGED <<past_len, rows>>
  BY <1>1, <1>2, <1>3, KvAssumption
     DEF TypeOK, WithinWindow, StepConsistent, WindowIsSinkAndTail, PendingRows, Configured, Layer
<1>4. CASE past_len' = past_len - Dropped(seq) /\ rows' = Compacted(Dropped(seq))
  <2>1. /\ Dropped(seq) \in Nat /\ Dropped(seq) <= past_len
        /\ Dropped(seq) > 0 => past_len - Dropped(seq) >= sink
    BY <1>1, DroppedBounds
  <2>2. rows' \in [Layer -> [0 .. (max_seq - 1) -> Int]]
    BY <1>4, <2>1, CompactedType DEF WithinWindow
  <2>3. past_len' \in Nat /\ past_len' <= past_len /\ (past_len' # past_len => past_len' >= sink)
    BY <1>4, <2>1 DEF TypeOK
  <2>4. TypeOK'
    BY <1>1, <1>2, <2>2, <2>3, KvAssumption DEF TypeOK
  <2>5. WithinWindow'
    BY <1>1, <1>2, <2>3 DEF TypeOK, WithinWindow, Configured
  <2>6. StepConsistent' /\ PendingRows'
    <3>1. StepConsistent'
      BY <1>1, <1>2, <2>3 DEF TypeOK, StepConsistent, Configured
    <3>2. PendingRows'
      BY <1>1 DEF PendingRows, Layer
    <3> QED
      BY <3>1, <3>2
  <2>7. WindowIsSinkAndTail'
    BY <1>1, <1>2, <1>4, CompactedRow DEF WindowIsSinkAndTail
  <2> QED
    BY <2>4, <2>5, <2>6, <2>7
<1> QED
  BY <1>3, <1>4 DEF AttendRefused, AppendRefused

(* commit_step publishes what every layer has pending. *)
LEMMA CommitInv == ASSUME KvInv, Commit PROVE KvInv'
<1> USE DEF KvInv
<1>1. /\ seq \in Nat \ {0} /\ pending_seq = seq /\ layer = NLayers
      /\ layer' = 0 /\ seq' = 0 /\ seen' = seen
      /\ abs_pos' = abs_pos + seq /\ past_len' = past_len + seq /\ pending_seq' = 0
      /\ max_seq' = max_seq /\ sink' = sink /\ rope_scale_len' = rope_scale_len /\ rows' = rows
  BY KvAssumption DEF Commit, Committed, StepOver, StepConsistent, TypeOK
<1>2. TypeOK'
  BY <1>1, KvAssumption DEF TypeOK
<1>3. WithinWindow' /\ StepConsistent' /\ PendingRows'
  BY <1>1, KvAssumption
     DEF TypeOK, WithinWindow, StepConsistent, PendingRows, Configured, Layer
<1>4. WindowIsSinkAndTail'
  <2> SUFFICES ASSUME NEW l \in Layer, NEW i \in 0 .. (past_len + seq - 1)
               PROVE  rows[l][i] = IF i < sink THEN i ELSE abs_pos - past_len + i
    BY <1>1 DEF WindowIsSinkAndTail, TypeOK
  <2>1. CASE i < past_len
    BY <2>1 DEF WindowIsSinkAndTail, TypeOK
  <2>2. CASE i >= past_len
    <3>1. l < layer /\ i \in past_len .. (past_len + seq - 1)
      BY <1>1, <2>2 DEF Layer, TypeOK
    <3>2. rows[l][i] = abs_pos + (i - past_len)
      BY <3>1 DEF PendingRows
    <3>3. i < sink => past_len = abs_pos
      BY <2>2 DEF StepConsistent, TypeOK
    <3> QED
      BY <3>2, <3>3 DEF TypeOK
  <2> QED
    BY <2>1, <2>2 DEF TypeOK
<1> QED
  BY <1>2, <1>3, <1>4

(* Every call keeps the invariant. *)
LEMMA StepInv == KvInv /\ [Next]_<<kvVars, stepVars>> => KvInv'
<1> SUFFICES ASSUME KvInv, [Next]_<<kvVars, stepVars>> PROVE KvInv'
  OBVIOUS
<1>1. ASSUME NEW m \in Windows, Configure(m) PROVE KvInv'
  <2>1. m \in Nat \ {0} /\ ClampedSink(m) \in Nat /\ ClampedSink(m) < m
    BY KvAssumption DEF ClampedSink
  <2> QED
    BY <1>1, <2>1, EmptiedInv DEF Configure, Reconfigured, Blank, KvInv, TypeOK
<1>2. CASE Reset
  BY <1>2, EmptiedInv DEF Reset, Cleared, Blank, KvInv, TypeOK, WithinWindow, Configured
<1>3. CASE Drop
  BY <1>3, EmptiedInv DEF Drop, ClearedButScale, Blank, KvInv, TypeOK, WithinWindow, Configured
<1>4. ASSUME NEW n \in 0 .. MaxPos, SetRopeScaleLen(n) PROVE KvInv'
  BY <1>4, KvAssumption
     DEF SetRopeScaleLen, stepVars, KvInv, TypeOK, WithinWindow, StepConsistent,
         WindowIsSinkAndTail, PendingRows, Configured
<1>5. ASSUME NEW q \in SeqLens, BeginStep(q) PROVE KvInv'
  BY <1>5, KvAssumption
     DEF BeginStep, NoStep, kvVars, KvInv, TypeOK, WithinWindow, StepConsistent,
         WindowIsSinkAndTail, PendingRows, Configured, Layer
<1>6. CASE StepFails
  BY <1>6, KvAssumption
     DEF StepFails, StepOver, kvVars, KvInv, TypeOK, WithinWindow, StepConsistent,
         WindowIsSinkAndTail, PendingRows, Configured, Layer
<1>7. CASE UNCHANGED <<kvVars, stepVars>>
  BY <1>7 DEF kvVars, stepVars, KvInv, TypeOK, WithinWindow, StepConsistent,
              WindowIsSinkAndTail, PendingRows, Configured
<1> QED
  BY <1>1, <1>2, <1>3, <1>4, <1>5, <1>6, <1>7, AttendInv, AttendRefusedInv, CommitInv DEF Next

(* KvCache keeps its inductive invariant. *)
THEOREM KvInvariant == Spec => []KvInv
BY InitInv, StepInv, PTL DEF Spec

(* The fields of the cache keep their types, and its buffers their sizes. *)
THEOREM KvTypeCorrect == Spec => []TypeOK
<1>1. KvInv => TypeOK
  BY DEF KvInv
<1> QED
  BY <1>1, KvInvariant, PTL

(* append_layer never writes past the end of a layer's buffer. *)
THEOREM WritesStayWithinWindow == Spec => []WithinWindow
<1>1. KvInv => WithinWindow
  BY DEF KvInv
<1> QED
  BY <1>1, KvInvariant, PTL

(* Attention always reads the sink and the latest tokens, each at its place, *)
(* after any number of slides, refused appends and abandoned steps.           *)
THEOREM WindowIsRight == Spec => []WindowIsSinkAndTail
<1>1. KvInv => WindowIsSinkAndTail
  BY DEF KvInv
<1> QED
  BY <1>1, KvInvariant, PTL

(* A single token can always be appended: generate(), which feeds one token  *)
(* at a time, is never refused by a full cache.                               *)
THEOREM DecodingNeverRefused == Spec => []OneTokenAlwaysFits
<1>1. KvInv => OneTokenAlwaysFits
  BY DEF KvInv, TypeOK, WithinWindow, OneTokenAlwaysFits, Fits, Dropped, Min2, Configured
<1> QED
  BY <1>1, KvInvariant, PTL

(* Only the append of layer 0 can move the window during a step. *)
LEMMA PastStep ==
    KvInv /\ LayersSeeTheSamePast /\ [Next]_<<kvVars, stepVars>> => LayersSeeTheSamePast'
<1> SUFFICES ASSUME KvInv, LayersSeeTheSamePast, [Next]_<<kvVars, stepVars>>
             PROVE  LayersSeeTheSamePast'
  OBVIOUS
<1>1. CASE layer' = 0
  BY <1>1 DEF LayersSeeTheSamePast, Layer
<1>2. CASE UNCHANGED <<layer, seq, seen, past_len>>
  BY <1>2 DEF LayersSeeTheSamePast
<1>3. CASE Attend
  <2>1. seq \in Nat \ {0} /\ layer \in Layer /\ past_len \in Nat
    BY <1>3, KvAssumption DEF Attend, KvInv, TypeOK, Layer
  <2>2. /\ Dropped(seq) \in Nat /\ Dropped(seq) <= seq /\ Dropped(seq) <= past_len
        /\ layer > 0 => Dropped(seq) = 0
    BY <2>1, DroppedBounds DEF KvInv, WithinWindow
  <2>3. /\ layer' = layer + 1 /\ seq' = seq /\ seen' = [seen EXCEPT ![layer] = past_len]
        /\ past_len' = past_len - Dropped(seq)
    BY <1>3 DEF Attend, Appended
  <2>4. seen \in [Layer -> Nat]
    BY DEF KvInv, TypeOK
  <2> SUFFICES ASSUME NEW l \in Layer, l < layer + 1
               PROVE  IF l = 0 THEN past_len' <= seen'[l] /\ seen'[l] <= past_len' + seq
                      ELSE seen'[l] = past_len'
    BY <2>3 DEF LayersSeeTheSamePast
  <2>5. CASE l = layer
    BY <2>1, <2>2, <2>3, <2>4, <2>5 DEF Layer
  <2>6. CASE l # layer
    <3>1. l < layer /\ layer > 0 /\ seen'[l] = seen[l]
      BY <2>1, <2>3, <2>4, <2>6 DEF Layer
    <3>2. past_len' = past_len
      BY <2>1, <2>2, <2>3, <3>1
    <3> QED
      BY <3>1, <3>2 DEF LayersSeeTheSamePast
  <2> QED
    BY <2>5, <2>6
<1> QED
  BY <1>1, <1>2, <1>3 DEF Next, Configure, Reset, Drop, SetRopeScaleLen, BeginStep, NoStep,
     StepFails, AttendRefused, Commit, StepOver, kvVars, stepVars

(* Within a step all layers attend over the same tokens, except that layer 0 *)
(* may also see the ones its own append is about to drop.                     *)
THEOREM LayersAgree == Spec => []LayersSeeTheSamePast
<1>1. Init => LayersSeeTheSamePast
  BY DEF Init, LayersSeeTheSamePast, Layer
<1> QED
  BY <1>1, PastStep, KvInvariant, PTL DEF Spec

(* Where a key is in the cache and which token it is: a row of the sink is   *)
(* its own position, every other one keeps its distance to the query.         *)
LEMMA KeyPosition ==
    ASSUME KvInv, NEW l \in Layer, NEW i \in Nat, NEW j \in 0 .. (past_len + i)
    PROVE  KeyAt(l, j) = IF j < past_len /\ j < sink THEN j ELSE abs_pos - past_len + j
<1>1. past_len \in Nat /\ abs_pos \in Nat /\ j \in Nat
  BY DEF KvInv, TypeOK
<1>2. CASE j < past_len
  <2>1. j \in 0 .. (past_len - 1)
    BY <1>1, <1>2
  <2> QED
    BY <1>1, <1>2, <2>1 DEF KeyAt, KvInv, WindowIsSinkAndTail
<1>3. CASE ~ (j < past_len)
  BY <1>1, <1>3 DEF KeyAt, Position
<1> QED
  BY <1>2, <1>3

(* The masks of the Attention kernel, which compare places in the cache, let *)
(* a query see what a comparison of positions would: no later token, every    *)
(* kept token of the model's sliding window, and else the sink alone.         *)
THEOREM MasksAreRight == Spec => []AttendsItsWindow
<1>1. KvInv => AttendsItsWindow
  <2> SUFFICES ASSUME KvInv, seq > 0, layer < NLayers, NEW i \in 0 .. (seq - 1)
               PROVE  LET me == Position(i)
                          near(p) == SlidingWindow = 0 \/ p + SlidingWindow > me
                          keys == Attended(layer, seq, i)
                      IN  /\ {p \in Kept(layer) \cup (abs_pos .. me) : near(p)} \subseteq keys
                          /\ \A p \in keys : p <= me /\ (near(p) \/ p < sink)
    BY DEF AttendsItsWindow
  <2> DEFINE near(p) == SlidingWindow = 0 \/ p + SlidingWindow > abs_pos + i
             open(k) == SlidingWindow > 0 => k + SlidingWindow > past_len + i
  <2>1. /\ past_len \in Nat /\ abs_pos \in Nat /\ sink \in Nat /\ past_len <= abs_pos
        /\ seq \in Nat /\ i \in Nat /\ i < seq /\ SlidingWindow \in Nat /\ layer \in Layer
        /\ Position(i) = abs_pos + i
    BY KvAssumption DEF KvInv, TypeOK, WithinWindow, Layer, Position
  <2>2. Attended(layer, seq, i) =
          {KeyAt(layer, j) : j \in {k \in 0 .. (past_len + i) : open(k)}}
    <3>1. {k \in 0 .. (past_len + seq - 1) : k <= past_len + i /\ open(k)}
          = {k \in 0 .. (past_len + i) : open(k)}
      BY <2>1
    <3> QED
      BY <3>1 DEF Attended
  <2>3. \A j \in 0 .. (past_len + i) :
          KeyAt(layer, j) = IF j < past_len /\ j < sink THEN j ELSE abs_pos - past_len + j
    BY <2>1, KeyPosition
  <2>4. ASSUME NEW p \in Kept(layer) \cup (abs_pos .. (abs_pos + i)), near(p)
        PROVE  p \in Attended(layer, seq, i)
    <3>1. CASE p \in Kept(layer)
      <4>1. PICK j \in 0 .. (past_len - 1) : p = rows[layer][j]
        BY <3>1 DEF Kept
      <4>2. j \in 0 .. (past_len + i) /\ p = KeyAt(layer, j)
        BY <2>1, <4>1 DEF KeyAt
      <4>3. open(j)
        BY <2>1, <2>3, <2>4, <4>1, <4>2
      <4> QED
        BY <2>2, <4>2, <4>3
    <3>2. CASE p \in abs_pos .. (abs_pos + i)
      <4> DEFINE j == past_len + (p - abs_pos)
      <4>1. j \in 0 .. (past_len + i) /\ p = KeyAt(layer, j)
        BY <2>1, <2>3, <3>2
      <4>2. open(j)
        BY <2>1, <2>4, <3>2
      <4> QED
        BY <2>2, <4>1, <4>2
    <3> QED
      BY <2>4, <3>1, <3>2
  <2>5. ASSUME NEW p \in Attended(layer, seq, i)
        PROVE  p <= abs_pos + i /\ (near(p) \/ p < sink)
    <3>1. PICK j \in 0 .. (past_len + i) : p = KeyAt(layer, j) /\ open(j)
      BY <2>2, <2>5
    <3> QED
      BY <2>1, <2>3, <3>1
  <2> QED
    BY <2>1, <2>4, <2>5
<1> QED
  BY <1>1, KvInvariant, PTL

-----------------------------------------------------------------------------
(* The cache as a window on the tokens.                                       *)

(* The head of the stream and its latest tokens. *)
Held == {p \in 0 .. (abs_pos - 1) : p < sink \/ p >= abs_pos - past_len + sink}

(* Every layer holds exactly the head and the latest tokens. *)
LEMMA KeptIsHeld == KvInv => \A l \in Layer : Kept(l) = Held
<1> SUFFICES ASSUME KvInv, NEW l \in Layer PROVE Kept(l) = Held
  OBVIOUS
<1>1. /\ past_len \in Nat /\ abs_pos \in Nat /\ sink \in Nat /\ past_len <= abs_pos
      /\ past_len < sink => past_len = abs_pos
  BY DEF KvInv, TypeOK, WithinWindow, StepConsistent
<1>2. \A i \in 0 .. (past_len - 1) :
        rows[l][i] = IF i < sink THEN i ELSE abs_pos - past_len + i
  BY DEF KvInv, WindowIsSinkAndTail
<1>3. ASSUME NEW p \in Kept(l) PROVE p \in Held
  <2>1. PICK i \in 0 .. (past_len - 1) : p = rows[l][i]
    BY <1>3 DEF Kept
  <2>2. p = IF i < sink THEN i ELSE abs_pos - past_len + i
    BY <1>2, <2>1
  <2> QED
    BY <1>1, <2>2 DEF Held
<1>4. ASSUME NEW p \in Held PROVE p \in Kept(l)
  <2>1. p \in 0 .. (abs_pos - 1) /\ (p < sink \/ p >= abs_pos - past_len + sink)
    BY <1>4 DEF Held
  <2>2. CASE p < sink /\ p < past_len
    <3>1. p \in 0 .. (past_len - 1) /\ rows[l][p] = p
      BY <1>1, <1>2, <2>1, <2>2
    <3> QED
      BY <3>1 DEF Kept
  <2>3. CASE ~ (p < sink /\ p < past_len)
    <3> DEFINE i == p - (abs_pos - past_len)
    <3>1. i \in 0 .. (past_len - 1) /\ ~ (i < sink) /\ abs_pos - past_len + i = p
      BY <1>1, <2>1, <2>3
    <3>2. rows[l][i] = p
      BY <1>2, <3>1
    <3> QED
      BY <3>1, <3>2 DEF Kept
  <2> QED
    BY <2>2, <2>3
<1> QED
  BY <1>3, <1>4

(* So the tokens that all layers hold are these. *)
WindowInv == KvInv /\ KeptByAll = Held

(* Every layer of a cache in a state of KvInv holds the same tokens. *)
LEMMA AllHold == KvInv => WindowInv
BY KeptIsHeld, KvAssumption DEF WindowInv, KeptByAll, Layer

(* A call that leaves the three counters alone leaves the window alone; one  *)
(* that only drops rows forgets the oldest tokens behind the sink.            *)
LEMMA SlideForgets ==
    ASSUME KvInv, NEW d \in Nat, d <= past_len, d > 0 => past_len - d >= sink,
           past_len' = past_len - d, UNCHANGED <<abs_pos, sink>>,
           KeptByAll = Held, KeptByAll' = Held'
    PROVE  Tokens!Forget
<1>1. /\ past_len \in Nat /\ abs_pos \in Nat /\ sink \in Nat /\ past_len <= abs_pos
  BY DEF KvInv, TypeOK, WithinWindow
<1>2. Held' = {p \in 0 .. (abs_pos - 1) : p < sink \/ p >= abs_pos - (past_len - d) + sink}
  BY DEF Held
<1>3. Held' \subseteq Held
  BY <1>1, <1>2 DEF Held
<1>4. ASSUME NEW t \in Held \ Held' PROVE t >= sink /\ \A u \in Held' : u < sink \/ u > t
  BY <1>1, <1>2, <1>4 DEF Held
<1> QED
  BY <1>3, <1>4 DEF Tokens!Forget

(* Every call of the cache restarts the window, forgets, learns or leaves it.*)
LEMMA WindowStep ==
    WindowInv /\ WindowInv' /\ [Next]_<<kvVars, stepVars>>
    => [Tokens!Next]_<<KeptByAll, abs_pos, sink>>
<1> SUFFICES ASSUME KvInv, KvInv', [Next]_<<kvVars, stepVars>>,
                    KeptByAll = Held, KeptByAll' = Held'
             PROVE  [Tokens!Next]_<<KeptByAll, abs_pos, sink>>
  BY DEF WindowInv
<1>1. /\ past_len \in Nat /\ abs_pos \in Nat /\ sink \in Nat /\ sink' \in Nat
      /\ past_len <= abs_pos /\ (past_len < sink => past_len = abs_pos)
  BY DEF KvInv, TypeOK, WithinWindow, StepConsistent
<1>2. CASE abs_pos' = 0
  <2>1. Held' = {}
    BY <1>2 DEF Held
  <2> QED
    BY <1>1, <1>2, <2>1 DEF Tokens!Next, Tokens!Restart
<1>3. CASE UNCHANGED <<abs_pos, past_len, sink>>
  BY <1>3 DEF Held
<1>4. CASE Attend \/ (AttendRefused /\ past_len' = past_len - Dropped(seq))
  <2>1. seq \in Nat \ {0}
    BY <1>4 DEF KvInv, TypeOK, Attend, AttendRefused
  <2>2. past_len' = past_len - Dropped(seq) /\ UNCHANGED <<abs_pos, sink>>
    BY <1>4 DEF Attend, Appended, AttendRefused, AppendRefused
  <2>3. /\ Dropped(seq) \in Nat /\ Dropped(seq) <= past_len
        /\ Dropped(seq) > 0 => past_len - Dropped(seq) >= sink
    BY <2>1, DroppedBounds DEF KvInv
  <2> QED
    BY <2>2, <2>3, SlideForgets DEF Tokens!Next
<1>5. CASE Commit
  <2>1. pending_seq \in Nat \ {0}
    BY <1>5, KvAssumption DEF Commit, KvInv, TypeOK, StepConsistent
  <2>2. /\ abs_pos' = abs_pos + pending_seq /\ past_len' = past_len + pending_seq
        /\ sink' = sink
    BY <1>5 DEF Commit, Committed
  <2>3. Held' = Held \cup (abs_pos .. (abs_pos' - 1))
    BY <1>1, <2>1, <2>2 DEF Held
  <2> QED
    BY <1>1, <2>1, <2>2, <2>3 DEF Tokens!Next, Tokens!Learn
<1> QED
  BY <1>2, <1>3, <1>4, <1>5 DEF Next, Configure, Reconfigured, Reset, Cleared, Drop,
     ClearedButScale, SetRopeScaleLen, BeginStep, StepFails, AttendRefused, AppendRefused,
     kvVars, stepVars

(* The cache implements the window on the tokens, whatever the number of     *)
(* layers, the window and the sink: nothing but the oldest tokens behind the  *)
(* sink is ever forgotten, in all layers at once.                             *)
THEOREM CacheImplementsWindow == Spec => ImplementsWindow
<1>1. Init => Tokens!Init
  BY DEF Init, Tokens!Init, KeptByAll, Kept
<1>2. Spec => []WindowInv
  BY AllHold, KvInvariant, PTL
<1> QED
  BY <1>1, <1>2, WindowStep, PTL DEF Spec, ImplementsWindow, Tokens!Spec

-----------------------------------------------------------------------------
(* The session *)

(* A prompt is no longer than the sequences considered, and the cache that   *)
(* generate() configures for it is not empty.                                 *)
LEMMA PromptFits ==
    ASSUME NEW o \in Options, NEW p \in Prompts, NEW n \in NewTokens
    PROVE  p \in 0 .. MaxPos /\ KvRows(o, p, n) \in Nat \ {0}
<1>1. p + n <= MaxPos /\ KvRows(o, p, n) \in Windows
  BY SessionAssumption
<1>2. p \in Nat /\ n \in Nat /\ MaxPos \in Nat /\ Windows \subseteq Nat \ {0}
  BY SessionAssumption, KvAssumption
<1>3. p \in 0 .. MaxPos
  BY <1>1, <1>2
<1>4. KvRows(o, p, n) \in Nat \ {0}
  BY <1>1, <1>2
<1> QED
  BY <1>3, <1>4

(* A new session satisfies the invariant. *)
LEMMA SessionInitInv == SessionInit => SessionInv
BY KvAssumption DEF SessionInit, Init, SessionInv, StepOnlyInOps, NoStep, GuardIsUp, WarningWaits,
   Configured, ScalesBounded, CallArguments, Unlocked, NotCountedYet, StopAsked, StopsWithinOneStep

(* Steps that leave the cache and the guard alone keep the invariant. *)
LEMMA QuietStep ==
    ASSUME SessionInv, UNCHANGED <<kvVars, stepVars, in_run, ui, ui_scale>>,
           CallArguments', NotCountedYet', StopsWithinOneStep',
           pc' # pc => /\ pc  \notin {"ops", "begin", "unguard"}
                       /\ pc' \notin {"ops", "begin", "unguard"}
    PROVE  SessionInv'
<1>1. StepOnlyInOps'
  BY DEF SessionInv, StepOnlyInOps, NoStep, stepVars
<1>2. GuardIsUp'
  BY DEF SessionInv, GuardIsUp
<1>3. WarningWaits' /\ ScalesBounded' /\ max_seq' \in Nat
  BY DEF SessionInv, WarningWaits, ScalesBounded, Configured, kvVars
<1> QED
  BY <1>1, <1>2, <1>3 DEF SessionInv

(* Calls of generate() and run(), and the steps between two calls of run(). *)
LEMMA CallSteps ==
    ASSUME SessionInv,
           \/ Calls \/ GenerateChecks \/ FeedPrompt \/ PrefillOver \/ Decode \/ RunChecks
    PROVE  SessionInv'
<1> USE DEF Unlocked
<1>1. ASSUME NEW p \in Prompts, NEW n \in NewTokens, Generate(p, n) PROVE SessionInv'
  BY <1>1, QuietStep DEF Generate, SessionInv, CallArguments, NotCountedYet, StopsWithinOneStep,
     lockVars
<1>2. CASE RunDirect
  BY <1>2, QuietStep DEF RunDirect, SessionInv, CallArguments, NotCountedYet, StopsWithinOneStep,
     lockVars, uiVars
<1>3. CASE GenerateChecks
  BY <1>3, QuietStep DEF GenerateChecks, Return, SessionInv, CallArguments, NotCountedYet,
     StopsWithinOneStep, lockVars, uiVars, callVars, ghosts
<1>4. CASE FeedPrompt
  BY <1>4, QuietStep DEF FeedPrompt, Leave, SessionInv, CallArguments, NotCountedYet,
     StopsWithinOneStep, lockVars, uiVars, callVars, ghosts
<1>5. CASE PrefillOver
  BY <1>5, QuietStep DEF PrefillOver, SessionInv, CallArguments, NotCountedYet,
     StopsWithinOneStep, lockVars, uiVars, callVars, ghosts
<1>6. CASE Decode
  BY <1>6, QuietStep DEF Decode, Leave, SessionInv, CallArguments, NotCountedYet,
     StopsWithinOneStep, lockVars, uiVars, callVars, ghosts
<1>7. CASE RunChecks
  BY <1>7, QuietStep DEF RunChecks, RunOver, Return, Leave, SessionInv, CallArguments,
     NotCountedYet, StopsWithinOneStep, Stopped, StopAsked, lockVars, uiVars, callVars, ghosts
<1> QED
  BY <1>1, <1>2, <1>3, <1>4, <1>5, <1>6, <1>7 DEF Calls

(* The steps by which generate() prepares kv_ without the lock. *)
LEMMA PrepareSteps ==
    ASSUME SessionInv, ConfigureKv \/ ResetKv \/ ScalePrompt \/ UnscalePrompt \/ LeaveGenerate
    PROVE  SessionInv'
<1> USE DEF Unlocked
<1>1. NoStep /\ UNCHANGED <<stepVars, opt, prompt, max_new, uiVars, lockVars, late>>
  BY DEF ConfigureKv, ResetKv, ScalePrompt, UnscalePrompt, LeaveGenerate, Configure, Reset,
         GenerateSetsScale, SetRopeScaleLen, callVars, ghosts
<1>2. /\ pc \in {"configure", "reset", "scale", "unscale", "exit"}
      /\ pc' \in {"reset", "scale", "feed", "idle"}
      /\ call # "direct" /\ call' # "direct"
  BY DEF ConfigureKv, ResetKv, ScalePrompt, UnscalePrompt, LeaveGenerate, SessionInv,
         CallArguments, callVars
<1>3. max_seq' \in Nat /\ (Configured => Configured') /\ rope_scale_len' \in 0 .. MaxPos
  <2>1. opt \in Options /\ prompt \in Prompts /\ max_new \in NewTokens
    BY <1>2 DEF SessionInv, CallArguments
  <2>2. KvRows(opt, prompt, max_new) \in Nat \ {0} /\ prompt \in 0 .. MaxPos
    BY <2>1, PromptFits
  <2>3. CASE ConfigureKv
    BY <2>2, <2>3 DEF ConfigureKv, Configure, Reconfigured, Configured, SessionInv, ScalesBounded
  <2>4. CASE ResetKv
    BY <2>4, KvAssumption DEF ResetKv, Reset, Cleared, Configured, SessionInv
  <2>5. CASE ScalePrompt \/ UnscalePrompt \/ LeaveGenerate
    BY <2>2, <2>5, KvAssumption
       DEF ScalePrompt, UnscalePrompt, LeaveGenerate, GenerateSetsScale, SetRopeScaleLen, Configured, SessionInv
  <2> QED
    BY <2>3, <2>4, <2>5
<1>4. StepOnlyInOps' /\ GuardIsUp'
  BY <1>1, <1>2 DEF StepOnlyInOps, GuardIsUp, NoStep, stepVars, lockVars, SessionInv
<1>5. WarningWaits' /\ ScalesBounded'
  BY <1>1, <1>3 DEF WarningWaits, ScalesBounded, uiVars, lockVars, SessionInv
<1>6. CallArguments' /\ NotCountedYet' /\ StopsWithinOneStep'
  BY <1>1, <1>2 DEF CallArguments, NotCountedYet, StopsWithinOneStep, SessionInv
<1> QED
  BY <1>3, <1>4, <1>5, <1>6 DEF SessionInv

(* run() between entering and leaving the guard. *)
LEMMA RunSteps ==
    ASSUME SessionInv, EnterGuard \/ BeginOps \/ AttendOp \/ OpFails \/ OpsDone \/ TraceFails \/ LeaveGuard
    PROVE  SessionInv'
<1> USE DEF Unlocked
<1>1. /\ UNCHANGED <<max_seq, rope_scale_len, uiVars, callVars>>
      /\ pc \in {"guard", "begin", "ops", "unguard"}
  BY DEF EnterGuard, BeginOps, AttendOp, OpFails, OpsDone, TraceFails, LeaveGuard, ApplyDrop,
         ClearedButScale, BeginStep, Attend, Appended, StepFails, Commit, Committed, kvVars
<1>2. StepOnlyInOps'
  <2>1. CASE EnterGuard \/ LeaveGuard
    BY <2>1 DEF EnterGuard, LeaveGuard, SessionInv, StepOnlyInOps, NoStep, stepVars
  <2>2. CASE BeginOps \/ AttendOp
    BY <2>2 DEF BeginOps, BeginStep, AttendOp, Attend, StepOnlyInOps, NoStep, SessionInv, stepVars
  <2>3. CASE OpFails \/ OpsDone \/ TraceFails
    <3>1. CASE seq > 0
      BY <2>3, <3>1 DEF OpFails, OpsDone, TraceFails, StepFails, Commit, StepOver, StepOnlyInOps, NoStep
    <3>2. CASE ~ (seq > 0)
      BY <2>3, <3>2 DEF OpFails, OpsDone, TraceFails, StepOnlyInOps, NoStep, SessionInv, stepVars
    <3> QED
      BY <3>1, <3>2
  <2> QED
    BY <2>1, <2>2, <2>3
<1>3. GuardIsUp' /\ WarningWaits'
  <2>1. CASE EnterGuard
    BY <1>1, <2>1 DEF EnterGuard, LockFree, GuardIsUp, WarningWaits, uiVars
  <2>2. CASE LeaveGuard
    BY <1>1, <2>2 DEF LeaveGuard, LockFree, RunOver, Return, Leave, GuardIsUp, WarningWaits, uiVars
  <2>3. CASE BeginOps \/ AttendOp \/ OpFails \/ OpsDone \/ TraceFails
    BY <1>1, <2>3 DEF BeginOps, AttendOp, OpFails, OpsDone, TraceFails, GuardIsUp, WarningWaits, Configured,
                      SessionInv, lockVars, uiVars
  <2> QED
    BY <2>1, <2>2, <2>3
<1>4. ScalesBounded' /\ max_seq' \in Nat
  BY <1>1 DEF ScalesBounded, SessionInv, uiVars
<1>5. CallArguments'
  BY <1>1 DEF CallArguments, SessionInv, callVars, EnterGuard, BeginOps, AttendOp, OpFails, OpsDone, TraceFails,
              LeaveGuard, RunOver, Return, Leave
<1>6. NotCountedYet' /\ StopsWithinOneStep'
  <2>1. CASE BeginOps
    BY <1>1, <2>1 DEF BeginOps, NotCountedYet, StopsWithinOneStep, StopAsked, SessionInv
  <2>2. CASE EnterGuard
    BY <1>1, <2>2 DEF EnterGuard, NotCountedYet, StopsWithinOneStep, StopAsked, SessionInv, uiVars
  <2>3. CASE AttendOp \/ OpFails \/ OpsDone \/ TraceFails \/ LeaveGuard
    BY <1>1, <2>3 DEF AttendOp, OpFails, OpsDone, TraceFails, LeaveGuard, RunOver, Return, Leave,
                      NotCountedYet, StopsWithinOneStep, StopAsked, SessionInv, uiVars, ghosts
  <2> QED
    BY <2>1, <2>2, <2>3
<1> QED
  BY <1>2, <1>3, <1>4, <1>5, <1>6 DEF SessionInv

(* What the UI thread does. *)
LEMMA UiSteps ==
    ASSUME SessionInv,
           \/ RequestCancel \/ \E b \in BOOLEAN : SetBackground(b)
           \/ MemoryWarning \/ WarningGoesOn
    PROVE  SessionInv'
<1> USE DEF Unlocked
<1>1. CASE RequestCancel
  BY <1>1, QuietStep DEF RequestCancel, SessionInv, CallArguments, NotCountedYet,
     StopsWithinOneStep, StopAsked, lockVars, callVars
<1>2. ASSUME NEW b \in BOOLEAN, SetBackground(b) PROVE SessionInv'
  BY <1>2, QuietStep DEF SetBackground, SessionInv, CallArguments, NotCountedYet,
     StopsWithinOneStep, StopAsked, lockVars, callVars
<1>3. CASE MemoryWarning \/ WarningGoesOn
  <2>1. UNCHANGED <<stepVars, pc, callVars, cancel, background, in_run, late, max_seq>>
    BY <1>3 DEF MemoryWarning, WarningGoesOn, WarningResets, WarningRestores, Cleared, kvVars,
                lockVars, ghosts
  <2>2. StepOnlyInOps' /\ GuardIsUp' /\ CallArguments' /\ NotCountedYet' /\ StopsWithinOneStep'
        /\ max_seq' \in Nat
    BY <2>1 DEF SessionInv, StepOnlyInOps, NoStep, GuardIsUp, CallArguments, NotCountedYet,
                StopsWithinOneStep, StopAsked, stepVars, callVars
  <2>3. WarningWaits'
    BY <1>3, <2>1 DEF MemoryWarning, WarningGoesOn, WarningResets, WarningRestores, WarningWaits,
                      Configured, SessionInv
  <2>4. ScalesBounded'
    BY <1>3, KvAssumption
       DEF MemoryWarning, WarningGoesOn, WarningResets, WarningRestores, ScalesBounded,
           Cleared, SessionInv, kvVars
  <2> QED
    BY <2>2, <2>3, <2>4 DEF SessionInv
<1> QED
  BY <1>1, <1>2, <1>3

(* Every step of either thread keeps the invariant. *)
LEMMA SessionStepInv == SessionInv /\ [SessionNext]_vars => SessionInv'
<1> SUFFICES ASSUME SessionInv, [SessionNext]_vars PROVE SessionInv'
  OBVIOUS
<1>1. CASE UNCHANGED vars
  BY <1>1, QuietStep DEF vars, SessionInv, CallArguments, NotCountedYet, StopsWithinOneStep,
     StopAsked, callVars, uiVars, lockVars, ghosts
<1> QED
  BY <1>1, CallSteps, PrepareSteps, RunSteps, UiSteps DEF SessionNext, Compute

(* Session keeps its inductive invariant. *)
THEOREM SessionInvariant == SessionSpec => []SessionInv
BY SessionInitInv, SessionStepInv, PTL DEF SessionSpec

(* Between a cancel or a switch to the background and the return of the call *)
(* at most one step of the model is begun.                                    *)
THEOREM StopTakesEffect == SessionSpec => []StopsWithinOneStep
<1>1. SessionInv => StopsWithinOneStep
  BY DEF SessionInv
<1> QED
  BY <1>1, SessionInvariant, PTL

(* Every step of a session is a call of the cache in the order KvCache        *)
(* expects, or does not touch it.                                             *)
LEMMA SessionRefinesStep ==
    SessionInv /\ [SessionNext]_vars => [Next]_<<kvVars, stepVars>>
<1> SUFFICES ASSUME SessionInv, [SessionNext]_vars PROVE [Next]_<<kvVars, stepVars>>
  OBVIOUS
<1>1. CASE UNCHANGED vars
  BY <1>1 DEF vars
<1>2. CASE Calls \/ GenerateChecks \/ FeedPrompt \/ PrefillOver \/ Decode \/ RunChecks
           \/ RequestCancel \/ (\E b \in BOOLEAN : SetBackground(b)) \/ MemoryWarning
  BY <1>2 DEF Calls, RunDirect, Generate, GenerateChecks, FeedPrompt, PrefillOver, Decode,
              RunChecks, RequestCancel, SetBackground, MemoryWarning
<1>3. CASE ConfigureKv
  <2>1. KvRows(opt, prompt, max_new) \in Windows
    BY <1>3, SessionAssumption DEF ConfigureKv, SessionInv, CallArguments, Unlocked
  <2> QED
    BY <1>3, <2>1 DEF ConfigureKv, Next
<1>4. CASE ResetKv
  BY <1>4 DEF ResetKv, Next
<1>5. CASE ScalePrompt \/ UnscalePrompt \/ LeaveGenerate
  <2>1. opt \in Options /\ prompt \in Prompts /\ max_new \in NewTokens
    BY <1>5 DEF ScalePrompt, UnscalePrompt, LeaveGenerate, SessionInv, CallArguments, Unlocked
  <2>2. prompt \in 0 .. MaxPos /\ 0 \in 0 .. MaxPos
    BY <2>1, PromptFits, KvAssumption
  <2> QED
    BY <1>5, <2>2 DEF ScalePrompt, UnscalePrompt, LeaveGenerate, GenerateSetsScale, Next
<1>6. CASE EnterGuard \/ LeaveGuard
  <2>1. NoStep /\ UNCHANGED stepVars
    BY <1>6 DEF EnterGuard, LeaveGuard, SessionInv, StepOnlyInOps
  <2>2. Drop \/ UNCHANGED kvVars
    BY <1>6, <2>1 DEF EnterGuard, LeaveGuard, ApplyDrop, Drop
  <2> QED
    BY <2>1, <2>2 DEF Next
<1>7. CASE BeginOps
  BY <1>7, SessionAssumption DEF BeginOps, Next
<1>8. CASE AttendOp \/ OpFails \/ OpsDone \/ TraceFails
  BY <1>8 DEF AttendOp, OpFails, OpsDone, TraceFails, Next
<1>9. CASE WarningGoesOn
  <2>1. NoStep /\ Configured /\ UNCHANGED stepVars
    BY <1>9 DEF WarningGoesOn, WarningResets, WarningRestores, SessionInv, WarningWaits,
                GuardIsUp, StepOnlyInOps
  <2>2. CASE WarningResets
    BY <2>1, <2>2 DEF WarningResets, Reset, Next
  <2>3. CASE WarningRestores
    <3>1. rope_scale_len' \in 0 .. MaxPos
      BY <2>3 DEF WarningRestores, SessionInv, ScalesBounded
    <3> QED
      BY <2>1, <2>3, <3>1 DEF WarningRestores, SetRopeScaleLen, stepVars, Next
  <2> QED
    BY <1>9, <2>2, <2>3 DEF WarningGoesOn
<1> QED
  BY <1>1, <1>2, <1>3, <1>4, <1>5, <1>6, <1>7, <1>8, <1>9 DEF SessionNext, Compute

(* Session drives kv_ only in the way KvCache assumes: whatever the UI thread *)
(* does, the cache is never emptied or resized in the middle of a step.       *)
THEOREM SessionRefinesKvCache == SessionSpec => KeepsKvProtocol
<1>1. SessionInit => Init
  BY DEF SessionInit
<1> QED
  BY <1>1, SessionRefinesStep, SessionInvariant, PTL DEF SessionSpec, KeepsKvProtocol, Spec

(* So in every session Attention reads the sink and the latest tokens. *)
THEOREM SessionWindowIsRight == SessionSpec => [](WithinWindow /\ WindowIsSinkAndTail)
BY SessionRefinesKvCache, WritesStayWithinWindow, WindowIsRight, PTL DEF KeepsKvProtocol
-----------------------------------------------------------------------------
(* The arguments of generate() are numbers, and what it configures without a *)
(* window has room for the prompt and the new tokens.                         *)
LEMMA Arguments ==
    ASSUME SessionInv, call # "direct"
    PROVE  /\ prompt \in Nat \ {0} /\ max_new \in Nat
           /\ ~ Sliding /\ ~ TooLong => prompt + max_new <= KvRows(opt, prompt, max_new)
<1>1. prompt \in Nat \ {0} /\ max_new \in Nat /\ opt \in [window : Nat, context : Nat]
  BY SessionAssumption DEF SessionInv, CallArguments
<1> QED
  BY <1>1 DEF Sliding, TooLong, KvRows

(* A new session has no answer to be wrong about. *)
LEMMA AnswerInit == SessionInit => AnswerInv
BY DEF SessionInit, Init, AnswerInv, LoopCounts, CacheFollows, SuccessIsComplete, InCache,
       InGenerate, Preparing, Stepping

(* The loops of generate() up to the next call of run(). *)
LEMMA LoopSteps ==
    ASSUME SessionInv, AnswerInv,
           \/ Calls \/ GenerateChecks \/ FeedPrompt \/ PrefillOver \/ Decode \/ RunChecks
    PROVE  AnswerInv'
<1> USE DEF Preparing, Stepping, InGenerate, InCache
<1>0. UNCHANGED <<kvVars, stepVars, opt>> /\ (pc # "idle" => dropped' = dropped)
  BY DEF Calls, RunDirect, Generate, GenerateChecks, FeedPrompt, PrefillOver, Decode, RunChecks,
         callVars, ghosts
<1>1. call # "direct" => prompt \in Nat \ {0} /\ max_new \in Nat
  BY Arguments
<1>2. ASSUME NEW p \in Prompts, NEW n \in NewTokens, Generate(p, n) PROVE AnswerInv'
  <2>1. LoopCounts'
    BY <1>2, SessionAssumption DEF Generate, AnswerInv, LoopCounts
  <2>2. CacheFollows' /\ SuccessIsComplete'
    BY <1>2 DEF Generate, CacheFollows, SuccessIsComplete
  <2> QED
    BY <2>1, <2>2 DEF AnswerInv
<1>3. CASE RunDirect
  BY <1>3 DEF RunDirect, AnswerInv, LoopCounts, CacheFollows, SuccessIsComplete
<1>4. CASE GenerateChecks
  <2>1. LoopCounts'
    BY <1>1, <1>4 DEF GenerateChecks, Return, AnswerInv, LoopCounts, callVars
  <2>2. CacheFollows' /\ SuccessIsComplete'
    BY <1>0, <1>4 DEF GenerateChecks, Return, AnswerInv, CacheFollows, SuccessIsComplete, TooLong,
                      Sliding, callVars
  <2> QED
    BY <2>1, <2>2 DEF AnswerInv
<1>5. CASE FeedPrompt \/ PrefillOver \/ RunChecks
  <2>1. pc # "idle" /\ UNCHANGED <<callVars, fed, outlen>>
    BY <1>5 DEF FeedPrompt, PrefillOver, RunChecks, progress
  <2>2. LoopCounts'
    BY <1>1, <1>5, <2>1 DEF FeedPrompt, PrefillOver, RunChecks, RunOver, Return, Leave, Refusal, AnswerInv,
                            LoopCounts, callVars, progress
  <2>3. CacheFollows'
    <3>1. pc \in {"feed", "run"} /\ pc' \notin {"entry", "configure", "ops"}
      BY <1>5 DEF FeedPrompt, PrefillOver, RunChecks, RunOver, Return, Leave
    <3>2. result = "none"
      BY <3>1 DEF AnswerInv, LoopCounts
    <3> QED
      BY <1>0, <2>1, <3>1, <3>2 DEF AnswerInv, CacheFollows, TooLong, Sliding, kvVars, callVars
  <2>4. SuccessIsComplete'
    BY <1>5 DEF FeedPrompt, PrefillOver, RunChecks, RunOver, Return, Leave, Refusal,
                SuccessIsComplete
  <2> QED
    BY <2>2, <2>3, <2>4 DEF AnswerInv
<1>6. CASE Decode
  <2>1. UNCHANGED <<callVars, fed>> /\ pc = "feed" /\ call = "decode" /\ result = "none"
    BY <1>6 DEF Decode, AnswerInv, LoopCounts
  <2>2. /\ fed \in Nat /\ outlen \in Nat /\ prompt \in Nat \ {0} /\ max_new \in Nat
        /\ fed = outlen /\ prompt <= outlen /\ (outlen = prompt \/ outlen < prompt + max_new)
    BY <1>1, <2>1 DEF AnswerInv, LoopCounts
  <2>3. LoopCounts'
    BY <1>6, <2>1, <2>2 DEF Decode, Leave, LoopCounts, callVars
  <2>4. CacheFollows'
    BY <1>0, <1>6, <2>1 DEF Decode, Leave, AnswerInv, CacheFollows, TooLong, Sliding, kvVars, callVars
  <2>5. SuccessIsComplete'
    BY <1>6, <2>1, <2>2 DEF Decode, Leave, Refusal, SuccessIsComplete, callVars
  <2> QED
    BY <2>3, <2>4, <2>5 DEF AnswerInv
<1> QED
  BY <1>2, <1>3, <1>4, <1>5, <1>6 DEF Calls

(* ensure_kv_cache, the scale length and the way out. *)
LEMMA CacheSteps ==
    ASSUME SessionInv, AnswerInv,
           ConfigureKv \/ ResetKv \/ ScalePrompt \/ UnscalePrompt \/ LeaveGenerate
    PROVE  AnswerInv'
<1> USE DEF Preparing, Stepping, InGenerate, InCache
<1>1. /\ UNCHANGED <<opt, prompt, max_new, fed, outlen, result>> /\ call # "direct" /\ NoStep
      /\ prompt \in Nat \ {0} /\ max_new \in Nat
  <2>1. call # "direct"
    BY DEF ConfigureKv, ResetKv, ScalePrompt, UnscalePrompt, LeaveGenerate, SessionInv,
           CallArguments, Unlocked
  <2> QED
    BY <2>1, Arguments
       DEF ConfigureKv, ResetKv, ScalePrompt, UnscalePrompt, LeaveGenerate, Configure, Reset,
           GenerateSetsScale, SetRopeScaleLen, callVars, progress
<1>2. LoopCounts'
  BY <1>1 DEF ConfigureKv, ResetKv, ScalePrompt, UnscalePrompt, LeaveGenerate, AnswerInv, LoopCounts,
              callVars
<1>3. CacheFollows'
  <2>1. CASE ConfigureKv
    BY <1>1, <2>1 DEF ConfigureKv, Configure, Reconfigured, AnswerInv, LoopCounts, CacheFollows,
                      TooLong, Sliding
  <2>2. CASE ResetKv
    BY <1>1, <2>2 DEF ResetKv, Reset, Cleared, AnswerInv, LoopCounts, CacheFollows, TooLong,
                      Sliding, ghosts
  <2>3. CASE ScalePrompt \/ UnscalePrompt \/ LeaveGenerate
    BY <1>1, <2>3 DEF ScalePrompt, UnscalePrompt, LeaveGenerate, GenerateSetsScale, SetRopeScaleLen, AnswerInv,
                      CacheFollows, TooLong, Sliding, ghosts
  <2> QED
    BY <2>1, <2>2, <2>3
<1>4. SuccessIsComplete'
  BY DEF ConfigureKv, ResetKv, ScalePrompt, UnscalePrompt, LeaveGenerate, SuccessIsComplete
<1> QED
  BY <1>2, <1>3, <1>4 DEF AnswerInv

(* A generate() that keeps its rows has a free one for the token it feeds.   *)
LEMMA RoomForOne ==
    ASSUME KvInv, SessionInv, AnswerInv, InCache, ~ Sliding, pc = "ops"
    PROVE  past_len + 1 <= max_seq /\ Dropped(1) = 0
<1> USE DEF InCache, InGenerate
<1>1. past_len = abs_pos /\ abs_pos <= fed /\ max_seq = KvRows(opt, prompt, max_new) /\ ~ TooLong
  BY DEF AnswerInv, LoopCounts, CacheFollows
<1>2. /\ prompt \in Nat \ {0} /\ max_new \in Nat /\ fed \in Nat /\ max_seq \in Nat /\ past_len \in Nat
      /\ prompt + max_new <= max_seq
  BY <1>1, Arguments DEF KvInv, TypeOK, AnswerInv, LoopCounts
<1>3. fed + 1 <= prompt + max_new
  BY <1>2 DEF AnswerInv, LoopCounts, Stepping
<1>4. past_len + 1 <= max_seq
  BY <1>1, <1>2, <1>3
<1> QED
  BY <1>2, <1>4 DEF Dropped

(* run() between entering and leaving the guard. *)
LEMMA OpSteps ==
    ASSUME KvInv, SessionInv, AnswerInv, BeginOps \/ AttendOp \/ OpFails \/ OpsDone \/ TraceFails
    PROVE  AnswerInv'
<1> USE DEF Preparing, Stepping, InGenerate, InCache
<1>1. UNCHANGED <<callVars, dropped, max_seq>>
  BY DEF BeginOps, AttendOp, OpFails, OpsDone, TraceFails, BeginStep, Attend, Appended, StepFails,
         Commit, Committed, kvVars, ghosts
<1>2. LoopCounts'
  <2>1. CASE OpsDone
    BY <1>1, <2>1, Arguments DEF OpsDone, AnswerInv, LoopCounts, callVars
  <2>2. CASE BeginOps \/ AttendOp \/ OpFails \/ TraceFails
    BY <1>1, <2>2 DEF BeginOps, AttendOp, OpFails, TraceFails, AnswerInv, LoopCounts, callVars, progress
  <2> QED
    BY <2>1, <2>2
<1>3. CacheFollows'
  <2>0. (InGenerate => ~ TooLong')
        /\ (InGenerate => max_seq' = KvRows(opt', prompt', max_new') /\ Configured)
    <3>1. InGenerate => InCache /\ pc # "entry"
      BY DEF BeginOps, AttendOp, OpFails, OpsDone, TraceFails
    <3>2. InGenerate => KvRows(opt, prompt, max_new) \in Nat \ {0}
      BY PromptFits DEF SessionInv, CallArguments
    <3> QED
      BY <1>1, <3>1, <3>2 DEF AnswerInv, CacheFollows, TooLong, Sliding, Configured, callVars
  <2>1. CASE BeginOps
    <3>1. pc = "begin" /\ NoStep /\ UNCHANGED <<kvVars, progress>> /\ pc' = "ops"
      BY <2>1 DEF BeginOps, BeginStep, SessionInv, StepOnlyInOps, progress
    <3>2. seq' = IF Configured THEN 1 ELSE 0
      BY <2>1, <3>1 DEF BeginOps, BeginStep, NoStep, stepVars
    <3> QED
      BY <1>1, <2>0, <3>1, <3>2 DEF AnswerInv, CacheFollows, Configured, Sliding, kvVars, callVars, progress
  <2>2. CASE AttendOp
    <3>1. pc = "ops" /\ pc' = pc /\ UNCHANGED <<seq, abs_pos, progress>> /\ Configured /\ seq = 1
      BY <2>2 DEF AttendOp, Attend, Appended, AnswerInv, CacheFollows
    <3>2. InCache /\ ~ Sliding => past_len' = past_len
      BY <2>2, <3>1, RoomForOne DEF AttendOp, Attend, Appended, KvInv, TypeOK
    <3> QED
      BY <1>1, <2>0, <3>1, <3>2 DEF AnswerInv, CacheFollows, Configured, Sliding, callVars, progress
  <2>3. CASE OpFails
    BY <1>1, <2>0, <2>3 DEF OpFails, StepFails, AnswerInv, CacheFollows, Sliding, kvVars, callVars
  <2>4. CASE OpsDone \/ TraceFails
    <3>1. pc = "ops" /\ pc' = "unguard"
      BY <2>4 DEF OpsDone, TraceFails
    <3>2. InGenerate => seq = 1 /\ Commit /\ pending_seq = 1
      BY <2>0, <2>4, <3>1, KvAssumption
         DEF OpsDone, TraceFails, Commit, AnswerInv, CacheFollows, KvInv, StepConsistent, TypeOK
    <3>3. InGenerate => past_len' = past_len + 1 /\ abs_pos' = abs_pos + 1
      BY <3>2 DEF Commit, Committed
    <3>4. InGenerate /\ result' # "error" => fed' = fed + 1
      BY <2>4 DEF OpsDone, TraceFails
    <3>5. InGenerate => /\ abs_pos <= fed /\ (~ dropped => abs_pos = fed)
                        /\ (~ Sliding => past_len = abs_pos)
      BY <3>1 DEF AnswerInv, LoopCounts, CacheFollows
    <3>6. past_len \in Nat /\ abs_pos \in Nat /\ fed \in Nat
      BY DEF KvInv, TypeOK, AnswerInv, LoopCounts
    <3> QED
      BY <1>1, <2>0, <3>1, <3>3, <3>4, <3>5, <3>6 DEF CacheFollows, Sliding, callVars
  <2> QED
    BY <2>1, <2>2, <2>3, <2>4
<1>4. SuccessIsComplete'
  BY DEF BeginOps, AttendOp, OpFails, OpsDone, TraceFails, SuccessIsComplete
<1> QED
  BY <1>2, <1>3, <1>4 DEF AnswerInv

(* The guard: a drop takes the position back, never past the tokens fed.     *)
LEMMA GuardSteps ==
    ASSUME KvInv, SessionInv, AnswerInv, EnterGuard \/ LeaveGuard
    PROVE  AnswerInv'
<1> USE DEF Preparing, Stepping, InGenerate, InCache
<1>1. /\ UNCHANGED <<stepVars, callVars, fed, outlen, max_seq>>
      /\ pc \in {"guard", "unguard"} /\ pc' \in {"begin", "idle", "exit", "feed"}
  BY DEF EnterGuard, LeaveGuard, ApplyDrop, ClearedButScale, RunOver, Return, Leave, kvVars, progress
<1>2. call # "direct" => prompt \in Nat \ {0} /\ max_new \in Nat
  BY Arguments
<1>3. LoopCounts'
  <2>1. CASE EnterGuard
    BY <1>1, <2>1 DEF EnterGuard, AnswerInv, LoopCounts, callVars, progress
  <2>2. CASE LeaveGuard
    BY <1>1, <1>2, <2>2 DEF LeaveGuard, RunOver, Return, Leave, AnswerInv, LoopCounts, callVars
  <2> QED
    BY <2>1, <2>2
<1>4. CacheFollows'
  <2>1. UNCHANGED <<past_len, abs_pos, dropped>> \/ (past_len' = 0 /\ abs_pos' = 0 /\ dropped')
    BY DEF EnterGuard, LeaveGuard, ApplyDrop, ClearedButScale, kvVars
  <2>2. InGenerate' => InGenerate /\ (result' # "error" => result # "error")
    BY <1>1 DEF EnterGuard, LeaveGuard, RunOver, Return, Leave, callVars, progress, AnswerInv,
                LoopCounts
  <2>3. fed \in Nat
    BY DEF AnswerInv, LoopCounts
  <2> QED
    BY <1>1, <2>1, <2>2, <2>3 DEF AnswerInv, CacheFollows, TooLong, Sliding, callVars
<1>5. SuccessIsComplete'
  BY <1>1 DEF EnterGuard, LeaveGuard, RunOver, Return, Leave, SuccessIsComplete
<1> QED
  BY <1>3, <1>4, <1>5 DEF AnswerInv

(* Whatever the UI thread does, the answer in progress stays right: it may   *)
(* empty the cache, which the history says.                                   *)
LEMMA AnswerUiSteps ==
    ASSUME KvInv, SessionInv, AnswerInv,
           \/ RequestCancel \/ \E b \in BOOLEAN : SetBackground(b)
           \/ MemoryWarning \/ WarningGoesOn \/ UNCHANGED vars
    PROVE  AnswerInv'
<1> USE DEF Preparing, Stepping, InGenerate, InCache
<1>1. UNCHANGED <<stepVars, pc, callVars, progress, max_seq>>
  BY DEF RequestCancel, SetBackground, MemoryWarning, WarningGoesOn, WarningResets, WarningRestores,
         Cleared, vars, kvVars
<1>2. UNCHANGED <<past_len, abs_pos, dropped>> \/ (past_len' = 0 /\ abs_pos' = 0 /\ dropped')
  BY DEF RequestCancel, SetBackground, MemoryWarning, WarningGoesOn, WarningResets, WarningRestores,
         Cleared, vars, kvVars, ghosts
<1>3. LoopCounts' /\ SuccessIsComplete'
  BY <1>1 DEF AnswerInv, LoopCounts, SuccessIsComplete, callVars, progress
<1>4. CacheFollows'
  <2>1. fed \in Nat
    BY DEF AnswerInv, LoopCounts
  <2> QED
    BY <1>1, <1>2, <2>1 DEF AnswerInv, CacheFollows, TooLong, Sliding, Configured, callVars, progress,
                            stepVars
<1> QED
  BY <1>3, <1>4 DEF AnswerInv

(* Every step of either thread keeps what is known of the answer. *)
LEMMA AnswerStep == KvInv /\ SessionInv /\ AnswerInv /\ [SessionNext]_vars => AnswerInv'
BY LoopSteps, CacheSteps, GuardSteps, OpSteps, AnswerUiSteps DEF SessionNext, Compute

(* The invariant of the cache holds in every session. *)
LEMMA SessionKvInvariant == SessionSpec => []KvInv
BY SessionRefinesKvCache, KvInvariant, PTL DEF KeepsKvProtocol

(* The loops of generate(), the cache and what it returns stay in step. *)
THEOREM AnswerInvariant == SessionSpec => []AnswerInv
BY AnswerInit, AnswerStep, SessionInvariant, SessionKvInvariant, PTL DEF SessionSpec

(* Whatever is cancelled, fails or is dropped, and whenever: until the cache  *)
(* is dropped or a step fails, token number n is encoded at position n.       *)
THEOREM PositionsAreRight == SessionSpec => []PositionsFollowTokens
<1>1. AnswerInv => PositionsFollowTokens
  BY DEF AnswerInv, LoopCounts, CacheFollows, PositionsFollowTokens, InCache
<1> QED
  BY <1>1, AnswerInvariant, PTL

(* For every prompt, number of new tokens and context length, a generate()    *)
(* without a sliding window never overwrites a row.                           *)
THEOREM NothingIsForgotten == SessionSpec => []NothingForgottenWithoutWindow
<1>1. AnswerInv => NothingForgottenWithoutWindow
  BY DEF AnswerInv, CacheFollows, NothingForgottenWithoutWindow, InCache
<1> QED
  BY <1>1, AnswerInvariant, PTL

(* generate() never reports a partial answer as a success. *)
THEOREM SuccessMeansComplete == SessionSpec => []SuccessIsComplete
<1>1. AnswerInv => SuccessIsComplete
  BY DEF AnswerInv
<1> QED
  BY <1>1, AnswerInvariant, PTL

-----------------------------------------------------------------------------
(* A warning puts back what it saved: every step of either thread keeps the   *)
(* scale length to be, except a setting of it that a warning overlaps.        *)
LEMMA ScaleStep ==
    ASSUME SessionInv, AnswerInv, ScaleInv, [SessionNext]_vars
    PROVE  ScaleInv'
<1> USE DEF Preparing, ScaleInv, ScaleToBe
<1>1. CASE UNCHANGED vars
  BY <1>1 DEF vars, kvVars, callVars, uiVars, ghosts
<1>2. CASE Calls
  BY <1>2 DEF Calls, RunDirect, Generate, kvVars, uiVars
<1>3. CASE \/ GenerateChecks \/ FeedPrompt \/ PrefillOver \/ Decode \/ RunChecks \/ EnterGuard
           \/ BeginOps \/ AttendOp \/ OpFails \/ OpsDone \/ TraceFails \/ LeaveGuard
  <2>1. UNCHANGED <<rope_scale_len, callVars, uiVars, raced>>
    BY <1>3 DEF GenerateChecks, FeedPrompt, PrefillOver, Decode, RunChecks, EnterGuard, BeginOps,
                AttendOp, OpFails, OpsDone, TraceFails, LeaveGuard, ApplyDrop, ClearedButScale,
                BeginStep, Attend, Appended, StepFails, Commit, Committed, kvVars, ghosts
  <2>2. \/ pc = "entry" /\ pc' \in {"idle", "configure"}
        \/ pc \notin Preparing \cup {"idle", "exit"} /\ pc' \notin Preparing \cup {"idle"}
        \/ call = "direct" /\ pc # "exit"
    BY <1>3 DEF GenerateChecks, FeedPrompt, PrefillOver, Decode, RunChecks, EnterGuard, BeginOps,
                AttendOp, OpFails, OpsDone, TraceFails, LeaveGuard, RunOver, Return, Leave
  <2> QED
    BY <2>1, <2>2 DEF callVars, uiVars
<1>4. CASE ConfigureKv \/ ResetKv \/ ScalePrompt \/ UnscalePrompt \/ LeaveGenerate
  <2>1. UNCHANGED <<ui, ui_scale, prompt>>
    BY <1>4 DEF ConfigureKv, ResetKv, ScalePrompt, UnscalePrompt, LeaveGenerate, callVars, uiVars
  <2>2. pc \in Preparing \cup {"unscale"} => call = "prefill"
    BY DEF AnswerInv, LoopCounts
  <2>3. CASE ConfigureKv
    BY <2>1, <2>3 DEF ConfigureKv, Configure, callVars
  (* Before the prompt's length is set the saved one is 0, as reset() leaves it. *)
  <2>4. CASE ResetKv
    BY <2>1, <2>4 DEF ResetKv, Reset, Cleared, callVars, ghosts
  <2>5. CASE ScalePrompt
    BY <2>1, <2>2, <2>5 DEF ScalePrompt, GenerateSetsScale, SetRopeScaleLen, callVars
  <2>6. CASE UnscalePrompt \/ LeaveGenerate
    BY <2>1, <2>6 DEF UnscalePrompt, LeaveGenerate, GenerateSetsScale, SetRopeScaleLen
  <2> QED
    BY <1>4, <2>3, <2>4, <2>5, <2>6
<1>5. CASE RequestCancel \/ \E b \in BOOLEAN : SetBackground(b)
  BY <1>5 DEF RequestCancel, SetBackground, kvVars, callVars
<1>6. CASE MemoryWarning
  BY <1>6 DEF MemoryWarning, kvVars, callVars, ghosts
<1>7. CASE WarningResets
  BY <1>7 DEF WarningResets, Cleared, callVars
<1>8. CASE WarningRestores
  <2>1. ui_scale \in Nat
    BY KvAssumption DEF SessionInv, ScalesBounded
  <2> QED
    BY <1>8, <2>1 DEF WarningRestores, callVars, ghosts
<1> QED
  BY <1>1, <1>2, <1>3, <1>4, <1>5, <1>6, <1>7, <1>8 DEF SessionNext, Compute, WarningGoesOn

(* Memory warnings may come at any point of any call, in the middle of the      *)
(* accesses that generate() makes without the lock too: every op of a prefill    *)
(* is scaled for its own prompt and every other op is not scaled, unless a        *)
(* warning was between its first and its last step when generate() last set the   *)
(* length.  Only that overlap, which the code allows, can lose it.                *)
THEOREM ScaleOnlyLostByOverlap == SessionSpec => []ScaleLostOnlyByOverlap
<1>1. SessionInit => ScaleInv
  BY DEF SessionInit, Init, ScaleInv, ScaleToBe
<1>2. SessionInv /\ AnswerInv /\ ScaleInv /\ [SessionNext]_vars => ScaleInv'
  BY ScaleStep
<1>3. SessionInv /\ AnswerInv /\ ScaleInv => ScaleLostOnlyByOverlap
  BY DEF SessionInv, GuardIsUp, WarningWaits, ScaleInv, ScaleToBe, ScaleLostOnlyByOverlap,
         ScaleOfCall, Preparing
<1> QED
  BY <1>1, <1>2, <1>3, SessionInvariant, AnswerInvariant, PTL DEF SessionSpec
=============================================================================

------------------------------- MODULE KvCache -------------------------------
(***************************************************************************)
(* uaii::runtime::KvCache: per layer a window of max_seq rows of K and V.   *)
(* One forward step calls append_layer once per layer, each time after the   *)
(* Attention kernel has read the rows before past_len, and then commit_step. *)
(* When the window is full the first append of a step drops the oldest rows  *)
(* behind the sink, in every layer.  A row is abstracted to the absolute     *)
(* position of its token; K and V are always written together, so one row    *)
(* stands for both.                                                          *)
(***************************************************************************)
EXTENDS Integers

CONSTANTS
    NLayers,     \* n_layers: Attention nodes of the graph
    Windows,     \* the max_seq values configure() is called with
    SinkOption,  \* SessionOptions::kv_sink
    SeqLens,     \* rows a step appends per layer (1 in the graphs the loaders build)
    SlidingWindow,     \* sliding_window of the Attention nodes, 0 for none
    MaxPos       \* bound on the tokens of one sequence

ASSUME KvAssumption ==
    /\ NLayers \in Nat \ {0}
    /\ Windows \subseteq Nat \ {0}
    /\ SinkOption \in Int
    /\ SeqLens \subseteq Nat \ {0}
    /\ SlidingWindow \in Nat
    /\ MaxPos \in Nat

VARIABLES
    max_seq, sink,      \* 0 before the first configure()
    past_len, abs_pos, pending_seq,
    rope_scale_len,
    rows,               \* rows[l][i]: the position held in row i of layer l
    layer, seq, seen    \* the step in progress: next layer, rows per layer, past_len each layer attended to

kvVars   == <<max_seq, sink, past_len, abs_pos, pending_seq, rope_scale_len, rows>>
stepVars == <<layer, seq, seen>>

Layer == 0 .. (NLayers - 1)
Zero  == -1                                  \* a row of zeros
Min2(a, b) == IF a <= b THEN a ELSE b
Blank(m)   == [l \in Layer |-> [i \in 0 .. (m - 1) |-> Zero]]
Configured == max_seq > 0
NoStep     == layer = 0 /\ seq = 0

-----------------------------------------------------------------------------
(* configure(..., m, ..., SinkOption): a sink as wide as the window would    *)
(* leave nothing to drop, so it is given up.  rope_scale_len_ is kept.        *)
ClampedSink(m) == IF SinkOption < 0 \/ SinkOption >= m THEN 0 ELSE SinkOption

Reconfigured(m) ==
    /\ max_seq' = m
    /\ sink' = ClampedSink(m)
    /\ past_len' = 0 /\ pending_seq' = 0 /\ abs_pos' = 0
    /\ rows' = Blank(m)

(* reset() *)
Cleared ==
    /\ past_len' = 0 /\ pending_seq' = 0 /\ abs_pos' = 0
    /\ rope_scale_len' = 0
    /\ rows' = Blank(max_seq)
    /\ UNCHANGED <<max_seq, sink>>

(* compact_to_fit(q): how many rows behind the sink go. *)
Dropped(q) ==
    LET over    == past_len + q - max_seq
        movable == past_len - Min2(sink, past_len)
    IN  IF over <= 0 THEN 0 ELSE Min2(over, movable)

Compacted_EvenSink(d) ==              \* mutant: the sink is shifted out too
    [l \in Layer |-> [i \in 0 .. (max_seq - 1) |->
        IF d > 0 /\ i < past_len - d THEN rows[l][i + d] ELSE rows[l][i]]]

Compacted(d) ==
    LET keep == Min2(sink, past_len)
    IN  [l \in Layer |-> [i \in 0 .. (max_seq - 1) |->
            IF d > 0 /\ i >= keep /\ i < past_len - d THEN rows[l][i + d] ELSE rows[l][i]]]

(* append_layer(l, k, v) with q rows.  The rows are compacted before the     *)
(* capacity is checked, and stay compacted when the check fails.              *)
Fits_Always(q) == TRUE                \* mutant: capacity is not checked

Fits(q) == past_len - Dropped(q) + q <= max_seq

Appended(l, q) ==
    LET d == Dropped(q)
        n == past_len - d
    IN  /\ past_len' = n
        /\ rows' = [Compacted(d) EXCEPT ![l] =
                       [i \in 0 .. (max_seq - 1) |->
                           IF i >= n /\ i < n + q THEN abs_pos + (i - n) ELSE Compacted(d)[l][i]]]
        /\ pending_seq' = q
        /\ UNCHANGED <<max_seq, sink, abs_pos, rope_scale_len>>

AppendRefused(q) ==
    /\ \/ q > max_seq /\ UNCHANGED <<past_len, rows>>
       \/ /\ q <= max_seq /\ ~ Fits(q)
          /\ past_len' = past_len - Dropped(q)
          /\ rows' = Compacted(Dropped(q))
    /\ UNCHANGED <<max_seq, sink, abs_pos, pending_seq, rope_scale_len>>

(* positions_f32: the rotary position of row i of the step. *)
Position(i) == abs_pos + i

(* attention_kv_f32, query i of a step of q rows in layer l: the tokens whose *)
(* keys it reads.  Both masks compare places in the cache, not positions:     *)
(* past_seq + i for the query, j for the key, which is a row of the cache or   *)
(* one of the step's own.                                                     *)
KeyAt(l, j) == IF j < past_len THEN rows[l][j] ELSE Position(j - past_len)

Attended_ByPosition(l, q, i) ==       \* mutant: the query's place is its position
    {KeyAt(l, j) : j \in {k \in 0 .. (past_len + q - 1) :
        k <= Position(i) /\ (SlidingWindow > 0 => k + SlidingWindow > Position(i))}}

Attended(l, q, i) ==
    {KeyAt(l, j) : j \in {k \in 0 .. (past_len + q - 1) :
        k <= past_len + i /\ (SlidingWindow > 0 => k + SlidingWindow > past_len + i)}}

(* commit_step() *)
Committed ==
    /\ abs_pos' = abs_pos + pending_seq
    /\ past_len' = past_len + pending_seq
    /\ pending_seq' = 0
    /\ UNCHANGED <<max_seq, sink, rope_scale_len, rows>>

-----------------------------------------------------------------------------
(* A caller that keeps to the protocol of Session::run(). *)

Init ==
    /\ max_seq = 0 /\ sink = 0
    /\ past_len = 0 /\ abs_pos = 0 /\ pending_seq = 0
    /\ rope_scale_len = 0
    /\ rows = Blank(0)
    /\ layer = 0 /\ seq = 0
    /\ seen = [l \in Layer |-> 0]

Configure(m) == NoStep /\ Reconfigured(m) /\ UNCHANGED <<rope_scale_len, stepVars>>

Reset == NoStep /\ Configured /\ Cleared /\ UNCHANGED stepVars

ClearedButScale_All == Cleared        \* mutant: the scale length is lost

(* apply_pending_kv_drop_locked: a reset that puts rope_scale_len_ back. *)
ClearedButScale ==
    /\ past_len' = 0 /\ pending_seq' = 0 /\ abs_pos' = 0
    /\ rows' = Blank(max_seq)
    /\ UNCHANGED <<max_seq, sink, rope_scale_len>>

Drop == NoStep /\ Configured /\ ClearedButScale /\ UNCHANGED stepVars

SetRopeScaleLen(n) ==
    /\ NoStep
    /\ rope_scale_len' = n
    /\ UNCHANGED <<max_seq, sink, past_len, abs_pos, pending_seq, rows, stepVars>>

BeginStep(q) ==
    /\ NoStep /\ Configured /\ abs_pos + q <= MaxPos
    /\ seq' = q
    /\ UNCHANGED <<kvVars, layer, seen>>

(* The Attention op of the next layer: k_view and v_view, then append_layer. *)
Attend ==
    /\ seq > 0 /\ layer < NLayers
    /\ seq <= max_seq /\ Fits(seq)
    /\ seen' = [seen EXCEPT ![layer] = past_len]
    /\ Appended(layer, seq)
    /\ layer' = layer + 1
    /\ UNCHANGED seq

StepOver == layer' = 0 /\ seq' = 0 /\ UNCHANGED seen

(* Another op of the step fails: nothing is committed. *)
StepFails == seq > 0 /\ StepOver /\ UNCHANGED kvVars

AttendRefused == seq > 0 /\ layer < NLayers /\ AppendRefused(seq) /\ StepOver

Commit == seq > 0 /\ layer = NLayers /\ Committed /\ StepOver

Next == \/ \E m \in Windows : Configure(m)
        \/ Reset \/ Drop
        \/ \E n \in 0 .. MaxPos : SetRopeScaleLen(n)
        \/ \E q \in SeqLens : BeginStep(q)
        \/ Attend \/ AttendRefused \/ StepFails \/ Commit

Spec == Init /\ [][Next]_<<kvVars, stepVars>>

-----------------------------------------------------------------------------
(* Properties *)

(* The types of KvCache's fields; every layer's buffer has max_seq rows. *)
TypeOK ==
    /\ max_seq \in Nat /\ sink \in Nat
    /\ past_len \in Nat /\ abs_pos \in Nat /\ pending_seq \in Nat
    /\ rope_scale_len \in Nat
    /\ rows \in [Layer -> [0 .. (max_seq - 1) -> Int]]
    /\ layer \in 0 .. NLayers /\ seq \in Nat
    /\ seen \in [Layer -> Nat]

(* Rows are written inside the buffers, whatever was dropped, refused or     *)
(* left uncommitted before, and the window always has room behind its sink.   *)
WithinWindow ==
    /\ past_len <= max_seq /\ past_len <= abs_pos
    /\ layer > 0 => past_len + seq <= max_seq
    /\ Configured => sink < max_seq

(* The rows Attention reads are, in every layer, the first `sink` positions  *)
(* followed without a gap by the latest ones: no token is lost, repeated or   *)
(* out of order, however often the window slid or a step was abandoned.       *)
WindowIsSinkAndTail ==
    \A l \in Layer : \A i \in 0 .. (past_len - 1) :
        rows[l][i] = IF i < sink THEN i ELSE abs_pos - past_len + i

(* What the layers that already ran in this step have appended are the rows  *)
(* commit_step is about to publish.                                           *)
PendingRows ==
    \A l \in Layer : l < layer =>
        \A i \in past_len .. (past_len + seq - 1) : rows[l][i] = abs_pos + (i - past_len)

(* What makes the window invariants inductive: a step in progress has a      *)
(* cache and, from its first layer on, its rows pending; and nothing has been *)
(* dropped as long as the sink is not full.                                   *)
StepConsistent ==
    /\ seq > 0 => Configured
    /\ layer > 0 => seq > 0 /\ pending_seq = seq
    /\ past_len < sink => past_len = abs_pos

KvInv == /\ TypeOK /\ WithinWindow /\ StepConsistent
         /\ WindowIsSinkAndTail /\ PendingRows

(* Layers of one step see the same past, except that the first one still     *)
(* sees the rows its own append then drops: at most as many as it appends.    *)
LayersSeeTheSamePast ==
    \A l \in Layer : l < layer =>
        IF l = 0 THEN past_len <= seen[l] /\ seen[l] <= past_len + seq
        ELSE seen[l] = past_len

(* The rows of layer l as a window on the stream of tokens. *)
Kept(l) == {rows[l][i] : i \in 0 .. (past_len - 1)}

(* What a query reads, in whatever state earlier drops and failures left the  *)
(* cache: never a later token, every kept token of the model's own sliding    *)
(* window, and beyond that window nothing but the tokens of the sink.         *)
AttendsItsWindow ==
    seq > 0 /\ layer < NLayers =>
        \A i \in 0 .. (seq - 1) :
            LET me == Position(i)
                near(p) == SlidingWindow = 0 \/ p + SlidingWindow > me
                keys == Attended(layer, seq, i)
            IN  /\ {p \in Kept(layer) \cup (abs_pos .. me) : near(p)} \subseteq keys
                /\ \A p \in keys : p <= me /\ (near(p) \/ p < sink)

(* The tokens that every layer still holds. *)
KeptByAll == {p \in Kept(0) : \A l \in Layer : p \in Kept(l)}

Tokens == INSTANCE TokenWindow WITH kept <- KeptByAll, count <- abs_pos, head <- sink

(* However the layers of a step interleave with compaction, refusals and     *)
(* abandoned steps, the cache is a TokenWindow: it forgets only the oldest    *)
(* tokens behind the sink, in all layers at once, and learns only the next    *)
(* tokens of the stream.                                                      *)
ImplementsWindow == Tokens!Spec

(* A step of one token is never refused: the sink is smaller than the window,*)
(* so there always is a row to drop.                                          *)
OneTokenAlwaysFits == Configured => Fits(1)
=============================================================================

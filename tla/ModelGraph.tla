------------------------------ MODULE ModelGraph ------------------------------
(***************************************************************************)
(* The graph a loader builds from a model file, and what the CPU kernels      *)
(* demand of one.  A tensor is <<layer, name>>, with layer Top for what does   *)
(* not belong to one.  Activations are [1, width] and only the width is kept;  *)
(* a weight is <<rows, columns>>, a vector <<1, n>>.                           *)
(***************************************************************************)
EXTENDS Integers, Sequences, FiniteSets, SequencesExt

Top    == -1
Tokens == <<Top, "tokens">>
Hidden == <<Top, "hidden">>

-----------------------------------------------------------------------------
(* GraphBuilder *)

AddNode(op, ins, out, width, attrs) ==
    [op |-> op, ins |-> ins, out |-> out, width |-> width, attrs |-> attrs]

Plain(op, ins, out, width) == AddNode(op, ins, out, width, <<>>)
Project(x, w, out, width, transpose_b) ==
    AddNode("MatMul", <<x, w>>, out, width, [transpose_b |-> transpose_b])
MatMul(x, w, out, width)   == Project(x, w, out, width, TRUE)
Slice(x, out, start, end)  == AddNode("Slice", <<x>>, out, end - start, [start |-> start, end |-> end])

Rope(x, out, width, attrs) == AddNode("RoPE", <<x>>, out, width, attrs)

Attention(q, k, v, out, width, heads, li) ==
    AddNode("Attention", <<q, k, v>>, out, width, [heads |-> heads, layer |-> li])

(* act(x gate) * (x up), projected back: the SwiGLU block of every loader.     *)
(* ws = <<gate, up, down>>, outs names the five results.                        *)
GatedMlp(x, ws, outs, act, inter, dim, transpose_b) ==
    << Project(x, ws[1], outs[1], inter, transpose_b),
       Project(x, ws[2], outs[2], inter, transpose_b),
       Plain(act, <<outs[1]>>, outs[3], inter),
       Plain("Mul", <<outs[3], outs[2]>>, outs[4], inter),
       Project(outs[4], ws[3], outs[5], dim, transpose_b) >>

(* The router and the listed experts: three weights for each. *)
Experts(x, gate, ws, li, n, dim) ==
    << Plain("MoERouter", <<x, gate>>, <<li, "moe_probs">>, n),
       AddNode("MoEExpertsSwiGLU", <<x, <<li, "moe_probs">>>> \o ws, <<li, "ff_out">>, dim,
               [experts |-> n]) >>

(* The norm over x, with the bias when the layout uses LayerNorm. *)
NormNode(layernorm, x, w, bias, hasBias, out, dim) ==
    IF layernorm /\ hasBias THEN Plain("LayerNorm", <<x, w, bias>>, out, dim)
                            ELSE Plain("RMSNorm", <<x, w>>, out, dim)

Opt(cond, nodes) == IF cond THEN nodes ELSE <<>>

(* apply_layer_cap, the same in every loader: cap is UAII_MAX_LAYERS, 0 when unset. *)
AbsoluteMaxLayers == 512
ApplyLayerCap(n, cap) ==
    LET m == IF n > AbsoluteMaxLayers THEN AbsoluteMaxLayers ELSE n
    IN  IF cap > 0 /\ m > cap THEN cap ELSE m

EmptyGraph == [nodes |-> <<>>, weights |-> <<>>]

(* Two lots of weights, with the shape of each; the first decides. *)
Joined(a, b) == [t \in DOMAIN a \cup DOMAIN b |-> IF t \in DOMAIN a THEN a[t] ELSE b[t]]

(* shapes: the weights added, with the shape the file states for each. *)
Extend(g, nodes, shapes) == [nodes |-> g.nodes \o nodes, weights |-> Joined(shapes, g.weights)]

-----------------------------------------------------------------------------
(* The tensors of a graph *)

Writer(g, t) == g.nodes[CHOOSE i \in DOMAIN g.nodes : g.nodes[i].out = t]

(* Every input of a node is the graph input, a weight, or was written by an   *)
(* earlier node, and no tensor is written twice.                              *)
Closed(g) ==
    \A i \in DOMAIN g.nodes :
        LET before == {g.nodes[j].out : j \in 1 .. i - 1}
        IN  /\ g.nodes[i].out \notin before
            /\ ToSet(g.nodes[i].ins) \subseteq {Tokens} \cup DOMAIN g.weights \cup before

Width(g, t) ==
    IF t = Tokens THEN 1
    ELSE IF t \in DOMAIN g.weights THEN g.weights[t][1] * g.weights[t][2]
    ELSE Writer(g, t).width

-----------------------------------------------------------------------------
(* What the kernels demand of their operands: everything else is refused at   *)
(* the first token.                                                           *)

In(g, n, i) == Width(g, n.ins[i])

MatMulFits(g, n) ==
    LET b == g.weights[n.ins[2]]
    IN  IF n.attrs.transpose_b THEN b = <<n.width, In(g, n, 1)>> ELSE b = <<In(g, n, 1), n.width>>

EmbeddingFits(g, n) == n.width = g.weights[n.ins[2]][2]

RmsNormFits(g, n)   == n.width = In(g, n, 1) /\ n.width % In(g, n, 2) = 0
LayerNormFits(g, n) == \A i \in DOMAIN n.ins : n.width = In(g, n, i)
ElementsFit(g, n)   == \A i \in DOMAIN n.ins : n.width = In(g, n, i)

SliceFits(g, n) == 0 <= n.attrs.start /\ n.attrs.start < n.attrs.end /\ n.attrs.end <= In(g, n, 1)

RopeFits(g, n) ==
    /\ n.width = In(g, n, 1) /\ n.width % n.attrs.head_dim = 0 /\ n.attrs.head_dim % 2 = 0
    /\ n.attrs.rotary \in 1 .. n.attrs.head_dim /\ n.attrs.rotary % 2 = 0

ExpandFits(g, n) ==
    /\ In(g, n, 1) = n.attrs.heads * n.attrs.nope /\ In(g, n, 2) = n.attrs.rope
    /\ n.width = n.attrs.heads * (n.attrs.nope + n.attrs.rope)

AttentionFits(g, n) ==
    LET hd == In(g, n, 1) \div n.attrs.heads
        kv == In(g, n, 2) \div hd
    IN  /\ In(g, n, 1) % n.attrs.heads = 0 /\ In(g, n, 2) % hd = 0
        /\ kv > 0 /\ n.attrs.heads % kv = 0 /\ In(g, n, 3) % kv = 0
        /\ n.width = n.attrs.heads * (In(g, n, 3) \div kv)

RouterFits(g, n) == g.weights[n.ins[2]] = <<n.width, In(g, n, 1)>>

(* Five inputs are the packed form of the op, which has no listed experts. *)
ExpertsFit(g, n) ==
    LET experts == n.attrs.experts
        first   == g.weights[n.ins[3]]
    IN  /\ Len(n.ins) # 5 /\ Len(n.ins) = 2 + 3 * experts
        /\ In(g, n, 2) = experts /\ n.width = In(g, n, 1)
        /\ \A e \in 0 .. experts - 1 :
               /\ g.weights[n.ins[3 + 3 * e]] = <<first[1], n.width>>
               /\ g.weights[n.ins[4 + 3 * e]] = <<first[1], n.width>>
               /\ g.weights[n.ins[5 + 3 * e]] = <<n.width, first[1]>>

Fits(g, n) ==
    CASE n.op = "MatMul"     -> MatMulFits(g, n)
      [] n.op = "Embedding"  -> EmbeddingFits(g, n)
      [] n.op = "RMSNorm"    -> RmsNormFits(g, n)
      [] n.op = "LayerNorm"  -> LayerNormFits(g, n)
      [] n.op = "Slice"      -> SliceFits(g, n)
      [] n.op = "RoPE"       -> RopeFits(g, n)
      [] n.op = "MLAExpandK" -> ExpandFits(g, n)
      [] n.op = "Attention"  -> AttentionFits(g, n)
      [] n.op = "MoERouter"  -> RouterFits(g, n)
      [] n.op = "MoEExpertsSwiGLU" -> ExpertsFit(g, n)
      [] OTHER               -> ElementsFit(g, n)

-----------------------------------------------------------------------------
(* How one head is rotated: the spans of its elements that are, each with its   *)
(* pairing mode and frequency scaling.  What is outside of them is copied.      *)

(* rope_f32 rotates the leading or, by default, the trailing elements. *)
RopeSpan(n) ==
    {[from |-> IF n.attrs.leading THEN 0 ELSE n.attrs.head_dim - n.attrs.rotary, length |-> n.attrs.rotary,
      mode |-> n.attrs.mode, scale |-> n.attrs.scale]}

(* mla_expand_k_f32 puts the shared rotated part behind the part of each head. *)
ExpandSpan(n, shared) == {[s EXCEPT !.from = @ + n.attrs.nope] : s \in shared}

Rotation(g, t) ==
    LET n == Writer(g, t)
        src == Writer(g, n.ins[1])
    IN  CASE n.op = "RoPE" -> RopeSpan(n)
          [] n.op = "Identity" /\ src.op = "MLAExpandK" ->
                 ExpandSpan(src, RopeSpan(Writer(g, src.ins[2])))
          [] OTHER -> {}

===============================================================================

----------------------------- MODULE ModelImport -----------------------------
(***************************************************************************)
(* From a model file to a session that can generate: the loader builds the     *)
(* graph layer by layer, Session::create validates it and fills its weights,    *)
(* generate() sizes the KV cache from what the loader said.  None of the four   *)
(* sees the others' code: they agree on shapes, names and block formats only    *)
(* by convention, and a disagreement shows at the first token or not at all.    *)
(* A file also says                                                             *)
(*   fmt      "gguf" or "hf"                                                    *)
(*   quant    the format its matrices are stored in, packed: the set of those   *)
(*   bytes    the size of the container, in f32 values                          *)
(*   whole    nothing is missing from it and all of it is supported             *)
(***************************************************************************)
EXTENDS GgufImport, HfImport, QuantCodec

CONSTANTS Files,         \* the model files that may be opened
          Residence      \* subset of {"reuse", "naive", "stream"}: where weights are kept

(* The integers of a GGUF header and the cap are signed, dimensions and those of *)
(* config.json are not.  The graph tells a tensor of the file from what its nodes *)
(* compute by id; here the names of what an attention reads differ from those.     *)
Operands == {"k", "k0", "k_b", "k_n", "k_rope", "v", "v0", "v_b"}
FileTyped(f) ==
    /\ f.fmt \in {"gguf", "hf"} /\ f.cap \in Int
    /\ IsFiniteSet(DOMAIN f.tensors) /\ \A t \in DOMAIN f.tensors : t[2] \notin Operands
    /\ \A t \in DOMAIN f.tensors : f.tensors[t] \in Seq(Nat) /\ Len(f.tensors[t]) \in 2 .. 3
    /\ f.fmt = "gguf" =>
           \A k \in {"head_count", "head_count_kv", "key_length", "embedding_length", "block_count",
                     "qk_nope", "qk_rope"} : f.kv[k] \in Int
    /\ f.fmt = "hf" => /\ \A k \in {"hidden", "layers", "heads", "kv_heads", "head_dim"} : f.json[k] \in Nat
                       /\ f.prefix \in kLayerPrefixes /\ f.wpe_name \in WpeNames
                       /\ f.broken \subseteq f.unreadable

ASSUME ImportConstants ==
    /\ Residence \subseteq {"reuse", "naive", "stream"}
    /\ \A f \in Files : FileTyped(f)

VARIABLES file, stage, li, features, graph, any_mla, meta, held, cache

vars == <<file, stage, li, features, graph, any_mla, meta, held, cache>>

NoMeta  == [n_layers |-> 0, kv_heads |-> 0, kv_dim |-> 0, v_dim |-> 0]
NoCache == [n_layers |-> 0, k_dim |-> 0, v_dim |-> 0]

Gguf == file.fmt = "gguf"

Init ==
    /\ file \in Files
    /\ stage = "file" /\ li = 0 /\ features = Hidden /\ graph = EmptyGraph
    /\ any_mla = FALSE /\ meta = NoMeta /\ held = <<>> /\ cache = NoCache

Fail == stage' = "error" /\ UNCHANGED <<file, li, features, graph, any_mla, meta, held, cache>>

-----------------------------------------------------------------------------
(* The loader *)

Layers == IF Gguf THEN GgufLayers(file) ELSE ApplyLayerCap(file.json.layers, file.cap)

Refused == IF Gguf THEN ~ ValidateGgufModel(file) ELSE HfRefused(file)

Built(part) ==
    /\ graph' = Extend(graph, part.nodes, part.weights)
    /\ features' = part.features

(* A GGUF file without an embedding is a bag of weights behind an Identity. *)
WeightsOnly ==
    /\ stage = "file" /\ ~ Refused /\ Gguf /\ ~ Has(file, Top, "token_embd")
    /\ stage' = "loaded"
    /\ graph' = [nodes |-> << Plain("Identity", <<Tokens>>, <<Top, "y">>, 1) >>, weights |-> file.tensors]
    /\ UNCHANGED <<file, li, features, any_mla, meta, held, cache>>

OpenFile ==
    /\ stage = "file"
    /\ \/ Refused /\ Fail
       \/ /\ ~ Refused /\ (Gguf => Has(file, Top, "token_embd"))
          /\ \E head \in {IF Gguf THEN GgufHead(file) ELSE HfHead(file)} :
                \/ head.verdict = "error" /\ Fail
                \/ /\ head.verdict = "layer" /\ Built(head) /\ stage' = "layers"
                   /\ UNCHANGED <<file, li, any_mla, meta, held, cache>>

Layer ==
    IF Gguf THEN GgufLayer(file, li, features)
    ELSE HfLayer(file, li, PickLayout(file), features)

ImportLayer ==
    /\ stage = "layers" /\ li < Layers
    /\ \E built \in {Layer} :
          \/ built.verdict = "error" /\ Fail
          \/ /\ built.verdict = "stop"
             /\ graph' = Extend(graph, <<>>, built.weights) /\ stage' = "tail"
             /\ UNCHANGED <<file, li, features, any_mla, meta, held, cache>>
          \/ /\ built.verdict = "layer" /\ Built(built)
             /\ li' = li + 1
             /\ any_mla' = (any_mla \/ (Gguf /\ IsMla(file, li)))
             /\ UNCHANGED <<file, stage, meta, held, cache>>

FinishGraph ==
    /\ stage = "tail" \/ (stage = "layers" /\ li >= Layers)
    /\ \E tail \in {IF Gguf THEN GgufTail(file, features)
                     ELSE HfTail(file, PickLayout(file), features)} :
          \/ tail.verdict = "error" /\ Fail
          \/ /\ tail.verdict = "layer" /\ Built(tail)
             /\ meta' = (IF Gguf THEN GgufMeta(file, any_mla) ELSE HfMeta(file))
             /\ stage' = "loaded"
             /\ UNCHANGED <<file, li, any_mla, held, cache>>

-----------------------------------------------------------------------------
(* Session::create: validate_graph *)

Inputs(op) ==
    CASE op \in {"MatMul", "Add", "Mul", "Embedding", "MLAExpandK", "MoERouter"} -> 2 .. 2
      [] op = "LayerNorm" -> 1 .. 3
      [] op \in {"RMSNorm", "RoPE"} -> 1 .. 2
      [] op = "Attention" -> 3 .. 5
      [] op = "MoEExpertsSwiGLU" -> Nat \ (0 .. 4)
      [] OTHER -> 1 .. 1

Known(g) == {Tokens} \cup DOMAIN g.weights \cup {n.out : n \in ToSet(g.nodes)}

ValidNode(g, n) ==
    /\ Len(n.ins) \in Inputs(n.op)
    /\ ToSet(n.ins) \subseteq Known(g)
    /\ n.op = "MatMul" => MatMulFits(g, n)
    /\ n.op = "Attention" => In(g, n, 1) % n.attrs.heads = 0
    /\ n.op \in {"Add", "Mul"} /\ In(g, n, 1) = In(g, n, 2) => n.width = In(g, n, 1)

ValidateGraph(g) ==
    /\ \A i, j \in DOMAIN g.nodes : g.nodes[i].out = g.nodes[j].out => i = j
    /\ \A n \in ToSet(g.nodes) : ValidNode(g, n)

-----------------------------------------------------------------------------
(* Session::create: allocate_all_tensors and load_or_init_weights *)

(* The tensor of the file a weight comes from: an expert is a slice of its bank. *)
Source(t) ==
    IF Gguf /\ Len(t) = 3
    THEN <<t[1], [gate |-> "ffn_gate_exps", up |-> "ffn_up_exps", down |-> "ffn_down_exps"][t[2]]>> ELSE t

Numel(t) == graph.weights[t][1] * graph.weights[t][2]
FileNumel(t) ==
    LET s == file.tensors[Source(t)]
    IN  IF Len(s) = 3 THEN s[2] * s[3] ELSE s[1] * s[2]

(* gguf_load_tensor_f32 and safetensors_load_tensor_f32 *)
Readable(t) == Source(t) \notin file.bad \cup file.unreadable

(* Only the number of elements is compared: a transposed tensor is accepted.    *)
LoadWeightRefF32(t) == Readable(t) /\ Numel(t) = FileNumel(t)

Packed(t, keep) == keep /\ Source(t) \in file.packed /\ Source(t) \notin file.bad

(* The blocks of a GGUF tensor as they are; the session then compares sizes.     *)
LoadWeightRefAuto(t, keep) ==
    IF Packed(t, keep) THEN Numel(t) = FileNumel(t) ELSE LoadWeightRefF32(t)

(* In a slot of the memory plan every weight is f32; alone or in a staging       *)
(* buffer a block format stays as it is.                                         *)
Form(t, keep, where) == IF Packed(t, keep) /\ where # "reuse" THEN "packed" ELSE "f32"

(* A weight that cannot be read is looked for once more, as a raw file: the      *)
(* reference without its #tensor names the container itself.                     *)
RawFallback(t) == Numel(t) <= file.bytes

(* The stream loader has no such second path, and fails when it is asked.        *)
ReadWeight(t, keep, where) ==
    [form |-> Form(t, keep, where),
     from |-> IF LoadWeightRefAuto(t, keep /\ where # "reuse") THEN "tensor"
              ELSE IF where # "stream" /\ RawFallback(t) THEN "container" ELSE "nothing"]

CreateSession(keep, where) ==
    /\ stage = "loaded"
    /\ LET read == [t \in DOMAIN graph.weights |-> ReadWeight(t, keep, where)]
       IN  IF ValidateGraph(graph) /\ (where = "stream" \/ \A t \in DOMAIN read : read[t].from # "nothing")
           THEN /\ held' = read /\ stage' = "created"
                /\ UNCHANGED <<file, li, features, graph, any_mla, meta, cache>>
           ELSE Fail

-----------------------------------------------------------------------------
(* Session::ensure_kv_cache *)

Attentions == {n \in ToSet(graph.nodes) : n.op = "Attention"}

(* The width of the first activation the loader named so, or 0.  The HF loader    *)
(* also declares the v it does not use, as wide as its v0.                        *)
FirstOf(names) ==
    LET found == {i \in DOMAIN graph.nodes : Len(graph.nodes[i].out) = 2 /\ graph.nodes[i].out[2] \in names}
    IN  IF found = {} THEN 0 ELSE graph.nodes[CHOOSE i \in found : \A j \in found : i <= j].width

EnsureKvCache ==
    /\ stage = "created"
    /\ LET layers == Positive(meta.n_layers, Cardinality(Attentions))
           k      == Positive(meta.kv_dim, Positive(FirstOf({"k_rope"}), FirstOf({"k_full"})))
           v      == Positive(meta.v_dim, Positive(FirstOf({"v", "v0"}), k))
       IN  cache' = IF layers = 0 \/ k = 0 THEN NoCache ELSE [n_layers |-> layers, k_dim |-> k, v_dim |-> v]
    /\ stage' = "ready"
    /\ UNCHANGED <<file, li, features, graph, any_mla, meta, held>>

Done == stage \in {"ready", "error"} /\ UNCHANGED vars

Next ==
    \/ WeightsOnly \/ OpenFile \/ ImportLayer \/ FinishGraph
    \/ \E keep \in BOOLEAN, where \in Residence : CreateSession(keep, where)
    \/ EnsureKvCache \/ Done

Spec == Init /\ [][Next]_vars

-----------------------------------------------------------------------------
(* Properties *)

(* When a session is ready, every kernel of its graph accepts its operands:      *)
(* the widths the loader derived from metadata are those of the tensors.          *)
KernelsAccept ==
    stage = "ready" =>
        /\ Closed(graph)
        /\ \A n \in ToSet(graph.nodes) : Fits(graph, n)

(* The query and the key of an attention are rotated in the same way, element by  *)
(* element of a head, whichever of the paths through the loader made them.        *)
RotatedAlike ==
    stage = "ready" =>
        \A n \in Attentions : Rotation(graph, n.ins[1]) = Rotation(graph, n.ins[2])

(* Latent attention rotates the key on its own, without the scaling and before    *)
(* any norm; the query takes the width of the rotated part from the metadata.     *)
StatesRotation(f) ==
    f.fmt = "gguf" =>
        \A l \in {t[1] : t \in DOMAIN f.tensors} :
            IsMla(f, l) /\ ~ IncompleteMla(f, l) /\ MlaDims(f, l).assemble =>
                f.kv.qk_rope > 0 /\ f.kv.scaling = "none" /\ ~ Has(f, l, "attn_k_norm")

(* How wide the key and the value of a layer are: what latent attention expands,  *)
(* or the heads of the metadata.                                                   *)
KeyWidth(f, l) ==
    IF f.fmt = "hf" THEN HfKvDim(f) ELSE IF IsMla(f, l) THEN MlaDims(f, l).q ELSE KvDim(f)
ValueWidth(f, l) ==
    IF f.fmt = "hf" THEN HfKvDim(f) ELSE IF IsMla(f, l) THEN MlaDims(f, l).v ELSE KvDim(f)

(* The cache has one width, taken from layer 0: every layer that is built must be *)
(* as wide, and the tensor the metadata reads must be the one the layer uses.      *)
Buildable(f, l) == ~ StopsAt(f, l) /\ ~ IncompleteMla(f, l)
UniformCache(f) ==
    f.fmt = "gguf" =>
        \A l \in {t[1] : t \in DOMAIN f.tensors} :
            Buildable(f, 0) /\ Buildable(f, l) =>
                /\ (IsMla(f, l) <=> IsMla(f, 0)) /\ (IsMla(f, 0) /\ Has(f, 0, "attn_q_b") => QLora(f, 0))
                /\ KeyWidth(f, l) = KeyWidth(f, 0) /\ ValueWidth(f, l) = ValueWidth(f, 0)
                /\ KeyWidth(f, 0) > 0 /\ ValueWidth(f, 0) > 0

(* The cache that ensure_kv_cache sizes from the loader's metadata has a row of   *)
(* the right width for every key and value an attention appends to it.            *)
CacheFits ==
    stage = "ready" =>
        \A n \in Attentions :
            /\ n.attrs.layer < cache.n_layers
            /\ cache.k_dim = In(graph, n, 2) /\ cache.v_dim = In(graph, n, 3)

(* A complete file of a supported family is never refused, and none of the        *)
(* layers it states (up to UAII_MAX_LAYERS) is lost on the way.                   *)
WholeFilesLoad ==
    file.whole =>
        /\ stage # "error"
        /\ stage = "ready" => Cardinality(Attentions) = Layers

(* `uaii inspect` reads names and headers on its own, not through load().  Where   *)
(* it blocks a directory that loads all the same, the directory has a name that     *)
(* the report does not know, a dtype, or a header that no weight needs: for every    *)
(* other reason the two agree.                                                      *)
NamedAsReported(f) ==
    /\ f.json.family \in {"qwen3", "gemma2"} => f.prefix = "model.layers."
    /\ f.json.family = "gpt2" => f.wpe_name \in {"transformer.wpe", "wpe"}
FalseReportsExplained ==
    stage = "ready" /\ ~ Gguf /\ HfInspectBlocks(file) =>
        ~ NamedAsReported(file) \/ file.bad # {} \/ file.broken # {}

(* "blocked: lines with the exact error generate would throw": what is reported as *)
(* blocked is not loaded (hf_inspect_directory against load()).                     *)
InspectHonest == stage = "ready" /\ ~ Gguf => ~ HfInspectBlocks(file)

(* "Unknown dtype / layout / scaling must appear as blocked: lines": what load()    *)
(* refuses before it builds anything has been reported.                             *)
InspectComplete == stage = "error" /\ ~ Gguf /\ HfRefused(file) => HfInspectBlocks(file)

(* However a weight is kept, its elements are made of the bits the block format   *)
(* assigns to them, each bit of a block being read once.                          *)
DecodedAlike ==
    stage = "ready" /\ file.packed # {} =>
        LET q == file.quant
        IN  /\ ReadsBlock(q, LAMBDA e : DequantCode(q, e))
            /\ (\E t \in DOMAIN held : Source(t) \in file.packed /\ held[t].form = "f32") =>
                   \A e \in 0 .. BlockElems(q) - 1 : WidenCode(q, e) = DequantCode(q, e)

(* "Fail closed": whatever a session computes with is read from the tensor that    *)
(* the graph names, or the session is refused.                                    *)
OwnWeights == stage = "ready" => \A t \in DOMAIN held : held[t].from # "container"

(* Only the kernels that decode block formats are given a packed weight.           *)
DecodesPacked(n, i) == i = 2 /\ (n.op = "MatMul" => n.attrs.transpose_b) /\ n.op \in {"MatMul", "Embedding"}
PackedIsDecoded ==
    stage = "ready" =>
        \A n \in ToSet(graph.nodes) : \A i \in DOMAIN n.ins :
            n.ins[i] \in DOMAIN held /\ held[n.ins[i]].form = "packed" => DecodesPacked(n, i)

=============================================================================

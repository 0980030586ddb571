------------------------------ MODULE GgufImport ------------------------------
(***************************************************************************)
(* GgufLoader::load: the graph of a GGUF file, layer by layer.  A file is      *)
(*   tensors   [<<layer, name>> -> shape], experts as rank-3 banks             *)
(*   bad       the tensors whose quantization type is not supported            *)
(*   arch, kv  general.architecture and the metadata, 0 where a key is absent  *)
(*   cap       UAII_MAX_LAYERS, 0 when it is not set                           *)
(* The names are those of the file without ".weight", a bias with _bias.        *)
(***************************************************************************)
EXTENDS ModelGraph

Has(f, li, name)   == <<li, name>> \in DOMAIN f.tensors
Shape(f, li, name) == f.tensors[<<li, name>>]
Rows(f, li, name)  == Shape(f, li, name)[1]
Cols(f, li, name)  == Shape(f, li, name)[2]

-----------------------------------------------------------------------------
(* The head of the file *)

Positive(n, default) == IF n > 0 THEN n ELSE default

GgufDim(f)     == Cols(f, Top, "token_embd")
GgufHeads(f)   == Positive(f.kv.head_count, 1)
GgufKvHeads(f) == Positive(f.kv.head_count_kv, GgufHeads(f))
GgufHeadDim(f) == Positive(f.kv.key_length, Positive(f.kv.embedding_length, GgufDim(f)) \div GgufHeads(f))
QDim(f)        == GgufHeads(f) * GgufHeadDim(f)
KvDim(f)       == GgufKvHeads(f) * GgufHeadDim(f)

NeoxArchs == {"qwen2", "qwen2moe", "qwen3", "phi2", "gemma2", "deepseek2"}
RopeMode(f) == IF f.arch \in NeoxArchs THEN 2 ELSE 0

UseLayerNorm(f) == Has(f, 0, "attn_norm_bias") \/ f.arch \in {"gpt2", "phi2"}

(* Either is the language model head; a file without one ties it. *)
LmHead(f) == IF Has(f, Top, "output") THEN <<Top, "output">> ELSE <<Top, "token_embd">>

LayerProbes == {"attn_q", "attn_qkv", "attn_norm", "attn_kv_a_mqa", "attn_kv_a", "attn_q_a"}
HasBlock(f, li) == \E n \in LayerProbes : Has(f, li, n)

GgufLayers(f) ==
    LET inferred == CHOOSE i \in 0 .. Cardinality(DOMAIN f.tensors) :
                        ~ HasBlock(f, i) /\ \A j \in 0 .. i - 1 : HasBlock(f, j)
    IN  ApplyLayerCap(IF f.kv.block_count > 0 \/ ~ HasBlock(f, 0) THEN f.kv.block_count ELSE inferred,
                      f.cap)

UnsupportedArchs == {"mamba", "rwkv", "bert", "t5", "clip", "whisper"}
ValidateGgufModel(f) ==
    /\ f.arch \notin UnsupportedArchs
    /\ ~ Has(f, 0, "ssm_conv1d") /\ ~ Has(f, Top, "ssm_conv1d") /\ ~ Has(f, Top, "encoder_embd")

-----------------------------------------------------------------------------
(* Which of its tensors a layer has, and what follows from that *)

LayerRefs == {"attn_norm", "attn_norm_bias", "attn_qkv", "attn_qkv_bias", "attn_q", "attn_k", "attn_v",
              "attn_q_bias", "attn_k_bias", "attn_v_bias", "attn_q_norm", "attn_k_norm", "attn_q_a",
              "attn_q_a_norm", "attn_q_b", "attn_kv_a_mqa", "attn_kv_a", "attn_kv_a_norm",
              "attn_k_b", "attn_v_b", "attn_output", "ffn_norm", "ffn_norm_bias", "ffn_gate", "ffn_up",
              "ffn_down", "ffn_gate_inp", "ffn_gate_shexp", "ffn_up_shexp", "ffn_down_shexp"}

KvA(f, li) == IF Has(f, li, "attn_kv_a_mqa") THEN "attn_kv_a_mqa" ELSE "attn_kv_a"

(* add_weight_ref over the names above: what the layer registers. *)
Registered(f, li) ==
    {n \in LayerRefs : Has(f, li, n) /\ (n = "attn_kv_a" => KvA(f, li) = "attn_kv_a")}

UnsupportedType(f, li) == \E n \in Registered(f, li) : <<li, n>> \in f.bad

SomeMla(f, li)  == \E n \in {KvA(f, li), "attn_k_b", "attn_v_b", "attn_q_a", "attn_q_b"} : Has(f, li, n)
IsMla(f, li)    == \A n \in {KvA(f, li), "attn_k_b", "attn_v_b"} : Has(f, li, n)
QLora(f, li)    == Has(f, li, "attn_q_a") /\ Has(f, li, "attn_q_b")
SplitQkv(f, li) == \A n \in {"attn_q", "attn_k", "attn_v"} : Has(f, li, n)
IsMoe(f, li)    == \A n \in {"ffn_gate_inp", "ffn_gate_exps", "ffn_up_exps", "ffn_down_exps"} : Has(f, li, n)

StopsAt_SplitOnly(f, li) ==
    \/ ~ Has(f, li, "attn_norm") \/ ~ Has(f, li, "attn_output")
    \/ ~ SomeMla(f, li) /\ ~ SplitQkv(f, li)

(* The loop is left, without an error, at a layer without these. *)
StopsAt(f, li) ==
    \/ ~ Has(f, li, "attn_norm") \/ ~ Has(f, li, "attn_output")
    \/ ~ SomeMla(f, li) /\ ~ SplitQkv(f, li) /\ ~ Has(f, li, "attn_qkv")

IncompleteMla(f, li) ==
    SomeMla(f, li) /\ (~ IsMla(f, li) \/ ~ (QLora(f, li) \/ Has(f, li, "attn_q")))

-----------------------------------------------------------------------------
(* Multi-head latent attention, expanded to full keys and values *)

MlaDims(f, li) ==
    LET heads == GgufHeads(f)
        q     == Rows(f, li, IF QLora(f, li) THEN "attn_q_b" ELSE "attn_q")
        k     == Rows(f, li, "attn_k_b")
        full  == Rows(f, li, KvA(f, li))
        lat   == Cols(f, li, "attn_k_b")
        nope  == Positive(f.kv.qk_nope, IF k % heads = 0 THEN k \div heads ELSE 0)
        rope0 == Positive(f.kv.qk_rope, full - lat)
        rope  == IF rope0 <= 0 /\ q % heads = 0 /\ nope > 0 THEN q \div heads - nope ELSE rope0
    IN  [q |-> q, k |-> k, v |-> Rows(f, li, "attn_v_b"), full |-> full, latent |-> lat,
         nope |-> nope, rope |-> rope, assemble |-> q # k,
         head |-> CASE q # k -> nope + rope
                    [] q = k /\ f.kv.qk_nope > 0 /\ f.kv.qk_rope > 0 -> f.kv.qk_nope + f.kv.qk_rope
                    [] q = k /\ ~ (f.kv.qk_nope > 0 /\ f.kv.qk_rope > 0) ->
                           IF q % heads = 0 THEN q \div heads
                           ELSE Positive(f.kv.qk_rope, GgufHeadDim(f))]

MlaRefused(f, li, d) ==
    \/ d.latent # Cols(f, li, "attn_v_b") \/ d.latent > d.full
    \/ Has(f, li, "attn_kv_a_norm") /\ Cols(f, li, "attn_kv_a_norm") # d.latent
    \/ d.assemble /\ \/ d.nope <= 0 \/ d.rope <= 0 \/ d.full - d.latent < d.rope
                     \/ d.k # GgufHeads(f) * d.nope
                     \/ d.q # GgufHeads(f) * (d.nope + d.rope)

MlaQNodes(f, li, d) ==
    LET T(n) == <<li, n>>
        a    == IF Has(f, li, "attn_q_a_norm") THEN T("q_a_n") ELSE T("q_a")
        r    == Rows(f, li, "attn_q_a")
    IN  IF QLora(f, li)
        THEN << MatMul(T("n1"), T("attn_q_a"), T("q_a"), r) >>
             \o Opt(Has(f, li, "attn_q_a_norm"),
                    << Plain("RMSNorm", <<T("q_a"), T("attn_q_a_norm")>>, T("q_a_n"), r) >>)
             \o << MatMul(a, T("attn_q_b"), T("q"), d.q) >>
        ELSE << MatMul(T("n1"), T("attn_q"), T("q"), d.q) >>

(* kv_a gives the latent, from which k and v are expanded, and behind it the   *)
(* rotated part of the key that all heads share.                               *)
MlaKvNodes(f, li, d) ==
    LET T(n)   == <<li, n>>
        sliced == IF d.full # d.latent THEN T("kv_latent") ELSE T("kvc")
        latent == IF Has(f, li, "attn_kv_a_norm") THEN T("kv_latent_n") ELSE sliced
    IN  << MatMul(T("n1"), T(KvA(f, li)), T("kvc"), d.full) >>
        \o Opt(d.full # d.latent, << Slice(T("kvc"), T("kv_latent"), 0, d.latent) >>)
        \o Opt(Has(f, li, "attn_kv_a_norm"),
               << Plain("RMSNorm", <<sliced, T("attn_kv_a_norm")>>, T("kv_latent_n"), d.latent) >>)
        \o << MatMul(latent, T("attn_k_b"), T("k"), d.k), MatMul(latent, T("attn_v_b"), T("v"), d.v) >>

(* The rotation of the shared part takes no scaling from the metadata. *)
MlaAssembleNodes(f, li, d) ==
    LET T(n) == <<li, n>>
    IN  << Slice(T("kvc"), T("k_pe"), d.latent, d.latent + d.rope),
           Rope(T("k_pe"), T("k_pe_rope"), d.rope,
                [head_dim |-> d.rope, rotary |-> d.rope, leading |-> FALSE,
                 mode |-> RopeMode(f), scale |-> "none"]),
           AddNode("MLAExpandK", <<T("k"), T("k_pe_rope")>>, T("k_full"), d.q,
                   [heads |-> GgufHeads(f), nope |-> d.nope, rope |-> d.rope]) >>

MlaNodes(f, li, d) ==
    MlaQNodes(f, li, d) \o MlaKvNodes(f, li, d) \o Opt(d.assemble, MlaAssembleNodes(f, li, d))

-----------------------------------------------------------------------------
(* Plain attention *)

FusedNodes(f, li) ==
    LET T(n)  == <<li, n>>
        q     == QDim(f)
        kv    == KvDim(f)
        total == q + 2 * kv
        qkv   == IF Has(f, li, "attn_qkv_bias") THEN T("qkv") ELSE T("qkv_proj")
    IN  << MatMul(T("n1"), T("attn_qkv"), T("qkv_proj"), total) >>
        \o Opt(Has(f, li, "attn_qkv_bias"),
               << Plain("Add", <<T("qkv_proj"), T("attn_qkv_bias")>>, T("qkv"), total) >>)
        \o << Slice(qkv, T("q"), 0, q), Slice(qkv, T("k"), q, q + kv), Slice(qkv, T("v"), q + kv, total) >>

(* One projection, with its bias if there is one. *)
Projection(f, li, w, bias, proj, out, width) ==
    LET T(n) == <<li, n>>
        x    == IF Has(f, li, bias) THEN T(proj) ELSE T(out)
    IN  << MatMul(T("n1"), T(w), x, width) >>
        \o Opt(Has(f, li, bias), << Plain("Add", <<x, T(bias)>>, T(out), width) >>)

SplitNodes(f, li) ==
    Projection(f, li, "attn_q", "attn_q_bias", "q_proj", "q", QDim(f))
    \o Projection(f, li, "attn_k", "attn_k_bias", "k_proj", "k", KvDim(f))
    \o Projection(f, li, "attn_v", "attn_v_bias", "v_proj", "v", KvDim(f))

(* Widths of q, k, v and of one head as they enter the rotation; d is MlaDims. *)
AttnDims(f, li, d) ==
    IF IsMla(f, li)
    THEN [q |-> d.q, k |-> IF d.assemble THEN d.q ELSE d.k, v |-> d.v, head |-> d.head,
          out |-> d.v, assembled |-> d.assemble]
    ELSE [q |-> QDim(f), k |-> KvDim(f), v |-> KvDim(f), head |-> GgufHeadDim(f), out |-> QDim(f),
          assembled |-> FALSE]

GgufRopeAttrs_Leading(f, li, head) ==
    [head_dim |-> head, leading |-> TRUE, mode |-> RopeMode(f), scale |-> f.kv.scaling,
     rotary |-> IF IsMla(f, li) /\ f.kv.qk_rope > 0 /\ head > f.kv.qk_rope
                THEN f.kv.qk_rope ELSE head]

GgufRopeAttrs(f, li, head) ==
    [head_dim |-> head, leading |-> FALSE, mode |-> RopeMode(f), scale |-> f.kv.scaling,
     rotary |-> IF IsMla(f, li) /\ f.kv.qk_rope > 0 /\ head > f.kv.qk_rope
                THEN f.kv.qk_rope ELSE head]

(* q and k norm, rotation, attention and the output projection; d is AttnDims. *)
AttentionNodes(f, li, features, d) ==
    LET T(n) == <<li, n>>
        k0   == IF d.assembled THEN T("k_full") ELSE T("k")
        q    == IF Has(f, li, "attn_q_norm") THEN T("q_n") ELSE T("q")
        k    == IF Has(f, li, "attn_k_norm") THEN T("k_n") ELSE k0
    IN  Opt(Has(f, li, "attn_q_norm"), << Plain("RMSNorm", <<T("q"), T("attn_q_norm")>>, T("q_n"), d.q) >>)
        \o Opt(Has(f, li, "attn_k_norm"), << Plain("RMSNorm", <<k0, T("attn_k_norm")>>, T("k_n"), d.k) >>)
        \o << Rope(q, T("q_rope"), d.q, GgufRopeAttrs(f, li, d.head)),
              IF d.assembled THEN Plain("Identity", <<k>>, T("k_rope"), d.k)
                             ELSE Rope(k, T("k_rope"), d.k, GgufRopeAttrs(f, li, d.head)),
              Attention(T("q_rope"), T("k_rope"), T("v"), T("attn"), d.out, GgufHeads(f), li),
              MatMul(T("attn"), T("attn_output"), T("attn_o"), GgufDim(f)),
              Plain("Add", <<features, T("attn_o")>>, T("resid1"), GgufDim(f)) >>

-----------------------------------------------------------------------------
(* The feed-forward part *)

InterDimFromUp(f, up) == IF up[1] = GgufDim(f) THEN up[2] ELSE up[1]

NExperts(f, li) == Positive(f.kv.expert_count, Rows(f, li, "ffn_gate_exps"))

BanksRefused(f, li) ==
    \E n \in {"ffn_gate_exps", "ffn_up_exps", "ffn_down_exps"} :
        Len(Shape(f, li, n)) # 3 \/ Rows(f, li, n) # NExperts(f, li)

(* Each bank is split into one weight per expert. *)
ExpertShapes(f, li) ==
    LET bank == [gate |-> "ffn_gate_exps", up |-> "ffn_up_exps", down |-> "ffn_down_exps"]
    IN  [t \in {<<li, p, e>> : p \in DOMAIN bank, e \in 0 .. NExperts(f, li) - 1} |->
             LET s == Shape(f, li, bank[t[2]]) IN <<s[2], s[3]>>]

ExpertWeights(li, n) ==
    [i \in 1 .. 3 * n |-> <<li, <<"gate", "up", "down">>[((i - 1) % 3) + 1], (i - 1) \div 3>>]

SharedExpert(f, li) == \A n \in {"ffn_gate_shexp", "ffn_up_shexp", "ffn_down_shexp"} : Has(f, li, n)

MoeNodes(f, li, x) ==
    LET T(n) == <<li, n>>
        dim  == GgufDim(f)
        n    == NExperts(f, li)
        out  == IF SharedExpert(f, li) THEN T("ff_merged") ELSE T("ff_out")
    IN  Experts(x, T("ffn_gate_inp"), ExpertWeights(li, n), li, n, dim)
        \o Opt(SharedExpert(f, li),
               GatedMlp(x, <<T("ffn_gate_shexp"), T("ffn_up_shexp"), T("ffn_down_shexp")>>,
                        <<T("shexp_gate"), T("shexp_up"), T("shexp_act"), T("shexp_hid"), T("shexp_out")>>,
                        "Silu", InterDimFromUp(f, Shape(f, li, "ffn_up_shexp")), dim, TRUE)
               \o << Plain("Add", <<T("ff_out"), T("shexp_out")>>, T("ff_merged"), dim) >>)
        \o << Plain("Add", <<T("resid1"), out>>, T("resid2"), dim) >>

DenseNodes(f, li, x) ==
    LET T(n)  == <<li, n>>
        dim   == GgufDim(f)
        inter == InterDimFromUp(f, Shape(f, li, "ffn_up"))
    IN  (IF Has(f, li, "ffn_gate")
         THEN GatedMlp(x, <<T("ffn_gate"), T("ffn_up"), T("ffn_down")>>,
                       <<T("gate"), T("up"), T("gate_act"), T("ff_hid"), T("ff_out")>>,
                       IF f.arch = "gemma2" THEN "Gelu" ELSE "Silu", inter, dim, TRUE)
         ELSE << MatMul(x, T("ffn_up"), T("up"), inter), Plain("Gelu", <<T("up")>>, T("up_act"), inter),
                 MatMul(T("up_act"), T("ffn_down"), T("ff_out"), dim) >>)
        \o << Plain("Add", <<T("resid1"), T("ff_out")>>, T("resid2"), dim) >>

HasDense(f, li) == Has(f, li, "ffn_up") /\ Has(f, li, "ffn_down")

FfnNodes(f, li) ==
    LET T(n) == <<li, n>>
        x    == IF Has(f, li, "ffn_norm") THEN T("n2") ELSE T("resid1")
    IN  Opt(Has(f, li, "ffn_norm"),
            << NormNode(UseLayerNorm(f), T("resid1"), T("ffn_norm"), T("ffn_norm_bias"),
                        Has(f, li, "ffn_norm_bias"), T("n2"), GgufDim(f)) >>)
        \o (IF IsMoe(f, li) THEN MoeNodes(f, li, x)
            ELSE Opt(HasDense(f, li), DenseNodes(f, li, x)))

-----------------------------------------------------------------------------
(* One layer: refused, the end of the loop, or its nodes *)

GgufLayer(f, li, features) ==
    LET T(n)   == <<li, n>>
        mla    == MlaDims(f, li)
        norm1  == NormNode(UseLayerNorm(f), features, T("attn_norm"), T("attn_norm_bias"),
                           Has(f, li, "attn_norm_bias"), T("n1"), GgufDim(f))
        qkv    == IF IsMla(f, li) THEN MlaNodes(f, li, mla)
                  ELSE IF Has(f, li, "attn_qkv") THEN FusedNodes(f, li) ELSE SplitNodes(f, li)
        shapes == [t \in {T(n) : n \in Registered(f, li)} |-> f.tensors[t]]
    IN  IF UnsupportedType(f, li) THEN [verdict |-> "error"]
        ELSE IF StopsAt(f, li) THEN [verdict |-> "stop", weights |-> shapes]
        ELSE IF IncompleteMla(f, li) \/ (IsMla(f, li) /\ MlaRefused(f, li, mla))
                \/ (IsMoe(f, li) /\ BanksRefused(f, li)) THEN [verdict |-> "error"]
        ELSE [verdict  |-> "layer",
              nodes    |-> <<norm1>> \o qkv \o AttentionNodes(f, li, features, AttnDims(f, li, mla)) \o FfnNodes(f, li),
              weights  |-> IF IsMoe(f, li) THEN Joined(shapes, ExpertShapes(f, li)) ELSE shapes,
              features |-> IF IsMoe(f, li) \/ HasDense(f, li) THEN T("resid2") ELSE T("resid1")]

-----------------------------------------------------------------------------
(* What stands before and behind the layers *)

GgufHead(f) ==
    IF <<Top, "token_embd">> \in f.bad THEN [verdict |-> "error"]
    ELSE [verdict  |-> "layer", features |-> Hidden,
          nodes    |-> << Plain("Embedding", <<Tokens, <<Top, "token_embd">>>>, Hidden, GgufDim(f)) >>,
          weights  |-> [t \in {<<Top, "token_embd">>} |-> f.tensors[t]]]

(* A norm bias of an unsupported type is left out without an error. *)
GgufTail(f, features) ==
    LET normed == <<Top, "normed">>
        biased == Has(f, Top, "output_norm_bias") /\ <<Top, "output_norm_bias">> \notin f.bad
        hasN   == Has(f, Top, "output_norm")
        last   == IF hasN THEN normed ELSE features
        vocab  == f.tensors[LmHead(f)][1]
        ws     == {LmHead(f)} \cup (IF hasN THEN {<<Top, "output_norm">>} ELSE {})
                              \cup (IF hasN /\ biased THEN {<<Top, "output_norm_bias">>} ELSE {})
    IN  IF LmHead(f) \in f.bad \/ <<Top, "output_norm">> \in f.bad THEN [verdict |-> "error"]
        ELSE [verdict |-> "layer", features |-> <<Top, "probs">>,
              nodes   |-> Opt(hasN, << NormNode(UseLayerNorm(f), features, <<Top, "output_norm">>,
                                                <<Top, "output_norm_bias">>, biased, normed, GgufDim(f)) >>)
                          \o << MatMul(last, LmHead(f), <<Top, "logits">>, vocab),
                                Plain("Softmax", <<<<Top, "logits">>>>, <<Top, "probs">>, vocab) >>,
              weights |-> [t \in ws |-> f.tensors[t]]]

GgufMeta_FromKb(f, any_mla) ==
    [n_layers |-> GgufLayers(f), kv_heads |-> IF any_mla THEN GgufHeads(f) ELSE GgufKvHeads(f),
     kv_dim   |-> IF any_mla THEN Rows(f, 0, "attn_k_b") ELSE KvDim(f),
     v_dim    |-> IF any_mla THEN Rows(f, 0, "attn_v_b") ELSE 0]

(* The metadata the session sizes its KV cache by. *)
GgufMeta(f, any_mla) ==
    LET q == IF Has(f, 0, "attn_q_b") THEN "attn_q_b" ELSE "attn_q"
    IN  [n_layers |-> GgufLayers(f),
         kv_heads |-> IF any_mla THEN GgufHeads(f) ELSE GgufKvHeads(f),
         kv_dim   |-> IF any_mla /\ Has(f, 0, q) THEN Rows(f, 0, q) ELSE KvDim(f),
         v_dim    |-> IF any_mla /\ Has(f, 0, "attn_v_b") THEN Rows(f, 0, "attn_v_b") ELSE 0]

===============================================================================

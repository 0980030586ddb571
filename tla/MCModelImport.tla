---------------------------- MODULE MCModelImport ----------------------------
(* Two-layer files of the families the loaders name, whole and with one fault.   *)
(* Widths differ from each other wherever the format lets them, and are          *)
(* multiples of the largest block.                                               *)
EXTENDS ModelImport

CONSTANTS Faults, Quants, Families

U      == 256
Dim    == 6 * U
HeadD  == 4 * U
QD     == 2 * HeadD          \* two heads, one of them in the cache
KvD    == HeadD
Inter  == 10 * U
Vocab  == 5
Latent == 3 * U

Vec(n) == <<1, n>>

Restrict2(t, keep) == [x \in keep |-> t[x]]
InLayers(base) == [t \in {0, 1} \X DOMAIN base |-> base[t[2]]]
AtTop(base)    == [t \in {Top} \X DOMAIN base |-> base[t[2]]]

-----------------------------------------------------------------------------
(* GGUF *)

GgufTop == [token_embd |-> <<Vocab, Dim>>, output_norm |-> Vec(Dim), output |-> <<Vocab, Dim>>]
Norms   == [attn_norm |-> Vec(Dim), ffn_norm |-> Vec(Dim)]
Split   == [attn_q |-> <<QD, Dim>>, attn_k |-> <<KvD, Dim>>, attn_v |-> <<KvD, Dim>>, attn_output |-> <<Dim, QD>>]
Swiglu  == [ffn_gate |-> <<Inter, Dim>>, ffn_up |-> <<Inter, Dim>>, ffn_down |-> <<Dim, Inter>>]
QkvBias == [attn_q_bias |-> Vec(QD), attn_k_bias |-> Vec(KvD), attn_v_bias |-> Vec(KvD)]
QkNorm  == [attn_q_norm |-> Vec(HeadD), attn_k_norm |-> Vec(HeadD)]
FusedLn == [attn_qkv |-> <<QD + 2 * KvD, Dim>>, attn_qkv_bias |-> Vec(QD + 2 * KvD),
            attn_output |-> <<Dim, QD>>, attn_norm_bias |-> Vec(Dim), ffn_norm_bias |-> Vec(Dim),
            ffn_up |-> <<Inter, Dim>>, ffn_down |-> <<Dim, Inter>>]
Moe     == [ffn_gate_inp |-> <<2, Dim>>, ffn_gate_exps |-> <<2, Inter, Dim>>,
            ffn_up_exps |-> <<2, Inter, Dim>>, ffn_down_exps |-> <<2, Dim, Inter>>]
Shared  == [ffn_gate_shexp |-> <<7 * U, Dim>>, ffn_up_shexp |-> <<7 * U, Dim>>, ffn_down_shexp |-> <<Dim, 7 * U>>]
(* Two heads of 3U without and U with rotation; the latent is kept at Latent. *)
Mla     == [attn_kv_a_mqa |-> <<Latent + U, Dim>>, attn_kv_a_norm |-> Vec(Latent),
            attn_k_b |-> <<6 * U, Latent>>, attn_v_b |-> <<4 * U, Latent>>, attn_output |-> <<Dim, 4 * U>>]
MlaQ    == [attn_q |-> <<QD, Dim>>]
MlaLora == [attn_q_a |-> <<U, Dim>>, attn_q_a_norm |-> Vec(U), attn_q_b |-> <<QD, U>>]

GgufKv(mla, blocks, experts) ==
    [head_count |-> 2, head_count_kv |-> IF mla THEN 2 ELSE 1, embedding_length |-> Dim,
     key_length |-> HeadD, block_count |-> blocks, expert_count |-> experts,
     qk_nope |-> IF mla THEN 3 * U ELSE 0, qk_rope |-> IF mla THEN U ELSE 0, scaling |-> "none"]

GgufFile(arch, layer, mla, blocks, experts, cap) ==
    [fmt |-> "gguf", arch |-> arch, tensors |-> InLayers(layer) @@ AtTop(GgufTop),
     kv |-> GgufKv(mla, blocks, experts), cap |-> cap, bad |-> {}, unreadable |-> {},
     quant |-> "F32", packed |-> {}, bytes |-> 64 * Dim * Inter, whole |-> TRUE]

GgufWhole ==
    { GgufFile("llama", Norms @@ Split @@ Swiglu, FALSE, 2, 0, 0),
      GgufFile("llama", Norms @@ Split @@ Swiglu, FALSE, 0, 0, 1),
      GgufFile("qwen2", Norms @@ Split @@ QkvBias @@ Swiglu, FALSE, 2, 0, 0),
      GgufFile("qwen3", Norms @@ Split @@ QkNorm @@ Swiglu, FALSE, 0, 0, 0),
      GgufFile("phi2", Norms @@ FusedLn, FALSE, 2, 0, 0),
      GgufFile("deepseek2", Norms @@ Mla @@ MlaQ @@ Swiglu, TRUE, 2, 0, 0),
      GgufFile("deepseek2", Norms @@ Mla @@ MlaLora @@ Moe @@ Shared, TRUE, 2, 2, 0),
      GgufFile("llama", Norms @@ Split @@ Moe, FALSE, 2, 0, 0),
      GgufFile("qwen2moe", Norms @@ Split @@ QkvBias @@ Moe @@ Shared, FALSE, 2, 2, 0) }

(* Matrices and banks are quantized, not the vectors nor the router. *)
Quantizable(f) == {t \in DOMAIN f.tensors : f.tensors[t][1] > 1 /\ t[2] # "ffn_gate_inp"}
Quantized(f, q) == [f EXCEPT !.quant = q, !.packed = Quantizable(f)]

-----------------------------------------------------------------------------
(* Hugging Face directories *)

HfTop    == [embed |-> <<Vocab, Dim>>, norm |-> Vec(Dim), lm_head |-> <<Vocab, Dim>>]
HfNorms  == [input_layernorm |-> Vec(Dim), post_attention_layernorm |-> Vec(Dim)]
HfSplitW == [q_proj |-> <<QD, Dim>>, k_proj |-> <<KvD, Dim>>, v_proj |-> <<KvD, Dim>>, o_proj |-> <<Dim, QD>>]
HfGated  == [gate_proj |-> <<Inter, Dim>>, up_proj |-> <<Inter, Dim>>, down_proj |-> <<Dim, Inter>>]
HfBiases == [q_proj_bias |-> Vec(QD), k_proj_bias |-> Vec(KvD), v_proj_bias |-> Vec(KvD)]
HfQkNorm == [q_norm |-> Vec(HeadD), k_norm |-> Vec(HeadD)]
HfNeox   == [query_key_value |-> <<QD + 2 * KvD, Dim>>, query_key_value_bias |-> Vec(QD + 2 * KvD),
             attention_dense |-> <<Dim, QD>>, attention_dense_bias |-> Vec(Dim),
             input_layernorm |-> Vec(Dim), input_layernorm_bias |-> Vec(Dim),
             post_attention_layernorm |-> Vec(Dim), post_attention_layernorm_bias |-> Vec(Dim),
             dense_h_to_4h |-> <<Inter, Dim>>, dense_4h_to_h |-> <<Dim, Inter>>]
HfPhi3   == [qkv_proj |-> <<QD + 2 * KvD, Dim>>, o_proj |-> <<Dim, QD>>]
HfGpt2   == [ln_1 |-> Vec(Dim), ln_1_bias |-> Vec(Dim), ln_2 |-> Vec(Dim), ln_2_bias |-> Vec(Dim),
             c_attn |-> <<Dim, QD + 2 * KvD>>, c_attn_bias |-> Vec(QD + 2 * KvD), c_proj |-> <<QD, Dim>>,
             c_proj_bias |-> Vec(Dim), c_fc |-> <<Dim, Inter>>, mlp_c_proj |-> <<Inter, Dim>>]
HfGemma  == [pre_feedforward_layernorm |-> Vec(Dim), post_feedforward_layernorm |-> Vec(Dim)]
HfMoeW   == [moe_gate |-> <<2, Dim>>]
HfShared == [shared_gate |-> <<7 * U, Dim>>, shared_up |-> <<7 * U, Dim>>, shared_down |-> <<Dim, 7 * U>>]
HfExpertTensors ==
    [t \in {<<l, p, e>> : l \in {0, 1}, p \in {"gate", "up", "down"}, e \in {0, 1}} |->
         IF t[2] = "down" THEN <<Dim, Inter>> ELSE <<Inter, Dim>>]

HfJson(family) ==
    [encoder_decoder |-> FALSE, family |-> family, hidden |-> Dim, layers |-> 2, heads |-> 2, kv_heads |-> 1,
     vocab |-> Vocab, head_dim |-> HeadD, inter |-> Inter, act |-> "Silu", scaling |-> "none",
     position |-> "rope", rotary_pct |-> 0, rotary_dim |-> 0, tie |-> FALSE, softcap |-> FALSE, parallel |-> FALSE,
     experts |-> 0, quant |-> ""]

UsualPrefix(family) ==
    IF family = "gpt2" THEN "transformer.h." ELSE IF family = "neox" THEN "gpt_neox.layers." ELSE "model.layers."

HfDir(json, tensors, top) ==
    [fmt |-> "hf", tensors |-> tensors @@ AtTop(top), json |-> json, cap |-> 0, bad |-> {}, unreadable |-> {},
     broken |-> {}, prefix |-> UsualPrefix(json.family), wpe_name |-> "transformer.wpe", quant |-> "F32", packed |-> {}, bytes |-> 64 * Dim * Inter, whole |-> TRUE]

HfWhole ==
    { HfDir(HfJson("llama"), InLayers(HfNorms @@ HfSplitW @@ HfGated), HfTop),
      HfDir([HfJson("qwen2") EXCEPT !.tie = TRUE], InLayers(HfNorms @@ HfSplitW @@ HfBiases @@ HfGated),
            [embed |-> <<Vocab, Dim>>, norm |-> Vec(Dim)]),
      HfDir([HfJson("qwen3") EXCEPT !.scaling = "yarn"],
            InLayers(HfNorms @@ HfSplitW @@ HfQkNorm @@ HfGated), HfTop),
      HfDir([HfJson("neox") EXCEPT !.parallel = TRUE, !.rotary_pct = 25, !.act = "Gelu"],
            InLayers(HfNeox), HfTop @@ [norm_bias |-> Vec(Dim)]),
      HfDir([HfJson("phi") EXCEPT !.rotary_pct = 40], InLayers(HfNorms @@ HfPhi3 @@ HfGated), HfTop),
      HfDir([HfJson("phi") EXCEPT !.rotary_pct = 40, !.rotary_dim = 3 * U],
            InLayers(HfNorms @@ HfPhi3 @@ HfGated), HfTop),
      HfDir(HfJson("gpt2"), InLayers(HfGpt2), HfTop @@ [wpe |-> <<9, Dim>>, norm_bias |-> Vec(Dim)]),
      HfDir([HfJson("gemma2") EXCEPT !.softcap = TRUE, !.act = "Gelu"],
            InLayers(HfNorms @@ HfSplitW @@ HfGated @@ HfGemma), HfTop),
      HfDir([HfJson("mixtral") EXCEPT !.experts = 2], InLayers(HfNorms @@ HfSplitW @@ HfMoeW) @@ HfExpertTensors, HfTop),
      HfDir([HfJson("qwen2_moe") EXCEPT !.experts = 2],
            InLayers(HfNorms @@ HfSplitW @@ HfBiases @@ HfMoeW @@ HfShared) @@ HfExpertTensors, HfTop) }

-----------------------------------------------------------------------------
(* Faults *)

Banks == {"ffn_gate_exps", "ffn_up_exps", "ffn_down_exps"}

Without(f, t)    == [f EXCEPT !.tensors = Restrict2(f.tensors, DOMAIN f.tensors \ {t}), !.whole = FALSE]
Unsupported(f, t) == [f EXCEPT !.bad = {t}, !.whole = FALSE]
Unlisted(f, t)   == [f EXCEPT !.unreadable = {t}, !.whole = FALSE]

(* Whole all the same: under another prefix, with another name for the positions,  *)
(* or with a tensor nobody asks for, in a shard whose header cannot be read.        *)
Renamed(f) == {[f EXCEPT !.prefix = "transformer.h."], [f EXCEPT !.wpe_name = "model.wpe"]}
Broken(f)  == LET t == <<0, "inv_freq">>
              IN  [f EXCEPT !.tensors = @ @@ (t :> Vec(U)), !.unreadable = {t}, !.broken = {t}]

Whole == (IF "gguf" \in Families THEN GgufWhole ELSE {}) \cup (IF "hf" \in Families THEN HfWhole ELSE {})
         \cup (IF "moe" \in Families THEN {f \in GgufWhole : <<0, "ffn_gate_exps">> \in DOMAIN f.tensors} ELSE {})

(* The types of the expert banks of a GGUF file and the dtypes of a Hugging Face  *)
(* directory are not looked at before the weights are read.                       *)
CheckedLate(f, t) == f.fmt = "hf" \/ t[2] \in Banks

MCFiles ==
    Whole
    \cup {Quantized(f, q) : f \in {g \in Whole : g.fmt = "gguf"}, q \in Quants}
    \cup (IF "missing" \in Faults THEN UNION {{Without(f, t) : t \in DOMAIN f.tensors} : f \in Whole} ELSE {})
    \cup (IF "unsupported" \in Faults
          THEN UNION {{Unsupported(f, t) : t \in {u \in DOMAIN f.tensors : ~ CheckedLate(f, u)}} : f \in Whole}
          ELSE {})
    \cup (IF "unlisted" \in Faults
          THEN UNION {{Unlisted(f, t) : t \in DOMAIN f.tensors} : f \in {g \in Whole : g.fmt = "hf"}} ELSE {})
    \cup (IF "renamed" \in Faults THEN UNION {Renamed(f) : f \in {g \in Whole : g.fmt = "hf"}} ELSE {})
    \cup (IF "broken" \in Faults THEN {Broken(f) : f \in {g \in Whole : g.fmt = "hf"}} ELSE {})
    \cup (IF "late" \in Faults
          THEN UNION {{Unsupported(f, t) : t \in {u \in DOMAIN f.tensors : CheckedLate(f, u)}} : f \in Whole}
          ELSE {})

(* What the theorems assume of a file is true of all of these. *)
ASSUME MCFilesAreOrderly == \A f \in MCFiles : StatesRotation(f) /\ UniformCache(f)

=============================================================================

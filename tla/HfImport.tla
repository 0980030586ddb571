------------------------------- MODULE HfImport -------------------------------
(***************************************************************************)
(* HfLoader::load: the graph of a Hugging Face directory.  The layout is        *)
(* recognised from the tensors of layer 0 and then demanded of every layer.     *)
(* A directory is                                                               *)
(*   tensors     [<<layer, name>> -> shape], the union of its shards            *)
(*   unreadable  the tensors the index lists and no shard header has            *)
(*   broken      those of them whose shard has no header that can be read        *)
(*   prefix      what the names of its layers begin with                         *)
(*   wpe_name    the name its table of positions has, if it has one              *)
(*   json        config.json, 0 or "" where a key is absent                     *)
(*   cap         UAII_MAX_LAYERS, 0 when it is not set                          *)
(* A directory names all of its layers alike, so a tensor is found under its      *)
(* prefix or not at all; only what spells a name out asks for the prefix.  A       *)
(* convolution-style weight is stored <<in, out>>.                               *)
(***************************************************************************)
EXTENDS ModelGraph

Listed(f, li, name) == <<li, name>> \in DOMAIN f.tensors
ShapeIn(f, li, name) == f.tensors[<<li, name>>]

kLayerPrefixes ==
    {"model.layers.", "model.decoder.layers.", "model.model.layers.", "transformer.h.",
     "transformer.layers.", "gpt_neox.layers.", "transformer.blocks.", "h."}
WpeNames ==
    {"transformer.wpe", "wpe", "model.wpe", "gpt_neox.embed_positions", "model.embed_positions"}

(* A tensor of layer 0 that is asked for as model.layers.0.<name>. *)
ListedAsModelLayer(f, name) == f.prefix = "model.layers." /\ Listed(f, 0, name)

NoName  == ""
Missing == <<Top, NoName>>      \* tensor id 0

-----------------------------------------------------------------------------
(* config.json *)

KnownActs     == {"Silu", "Gelu", "Relu", "Relu2"}   \* the op an hf activation becomes
KnownScalings == {"none", "linear", "dynamic", "llama3", "yarn"}
BlockedQuants == {"gptq", "awq", "fp8"}

HfRefusesConfig(f) ==
    \/ f.json.encoder_decoder \/ f.json.family = "denied"
    \/ f.json.hidden = 0 \/ f.json.layers = 0 \/ f.json.heads = 0 \/ f.json.vocab = 0
    \/ f.json.act \notin KnownActs \/ f.json.scaling \notin KnownScalings \/ f.json.position = "alibi"
    \/ f.json.head_dim = 0 /\ f.json.hidden \div f.json.heads = 0

HfHeadDim(f) == IF f.json.head_dim > 0 THEN f.json.head_dim ELSE f.json.hidden \div f.json.heads
HfKvHeads(f) == IF f.json.kv_heads > 0 THEN f.json.kv_heads ELSE f.json.heads
HfQDim(f)    == f.json.heads * HfHeadDim(f)
HfKvDim(f)   == HfKvHeads(f) * HfHeadDim(f)
HfInter(f)   == IF f.json.inter > 0 THEN f.json.inter ELSE 4 * f.json.hidden

HfRotary_Unrounded(f) ==
    IF f.json.rotary_dim > 0 THEN f.json.rotary_dim
    ELSE IF f.json.rotary_pct \in 1 .. 99 THEN (HfHeadDim(f) * f.json.rotary_pct) \div 100 ELSE 0

(* rotary_dim as it is stated, or else partial_rotary_factor, in percent: an even *)
(* number of elements, at least two.                                             *)
HfRotary(f) ==
    LET n == (HfHeadDim(f) * f.json.rotary_pct) \div 100
        e == n - (n % 2)
    IN  IF f.json.rotary_dim > 0 THEN f.json.rotary_dim
        ELSE IF f.json.rotary_pct \in 1 .. 99 THEN (IF e <= 0 THEN 2 ELSE e) ELSE 0

HfRopeMode(f) ==
    IF f.json.family = "gpt2" THEN -1
    ELSE IF f.json.family \in {"qwen2", "qwen2_moe", "qwen3", "gemma2", "phi", "neox"} THEN 2 ELSE 0

Activation(f) == f.json.act

-----------------------------------------------------------------------------
(* pick_layout *)

SplitForm(probe, k, v, o, biases, obias, norms) ==
    [probe |-> probe, split |-> TRUE, q |-> probe, k |-> k, v |-> v, o |-> o, biases |-> biases,
     obias |-> obias, norms |-> norms, conv1d |-> FALSE, layernorm |-> FALSE, rope |-> TRUE]
FusedForm(probe, o, biases, obias, conv1d, layernorm) ==
    [probe |-> probe, split |-> FALSE, o |-> o, biases |-> biases, obias |-> obias, norms |-> FALSE,
     conv1d |-> conv1d, layernorm |-> layernorm, rope |-> ~ conv1d]

(* In the order in which they are tried; o is the first of two that is there. *)
AttnForms ==
    << SplitForm("q_proj", "k_proj", "v_proj", <<"o_proj", "dense">>, TRUE, "o_proj_bias", TRUE),
       SplitForm("attn_q_proj", "attn_k_proj", "attn_v_proj", <<"attn_o_proj", "attn_dense">>, FALSE, NoName, FALSE),
       FusedForm("c_attn", <<"c_proj", "c_proj">>, TRUE, "c_proj_bias", TRUE, TRUE),
       FusedForm("qkv_proj", <<"o_proj", "dense">>, TRUE, NoName, FALSE, FALSE),
       FusedForm("W_pack", <<"o_proj", "o_proj">>, FALSE, NoName, FALSE, FALSE),
       FusedForm("query_key_value", <<"attention_dense", "attention_dense">>, TRUE, "attention_dense_bias", FALSE, TRUE),
       FusedForm("self_query_key_value", <<"dense", "o_proj">>, FALSE, NoName, FALSE, FALSE) >>

NormForms == << <<"input_layernorm", FALSE>>, <<"ln_1", TRUE>>, <<"attention_norm", FALSE>> >>
FfnForms  == << <<"pre_feedforward_layernorm", FALSE>>, <<"post_attention_layernorm", FALSE>>,
                <<"ln_2", TRUE>>, <<"ffn_norm", FALSE>> >>
DenseForms == << [fc |-> "c_fc", proj |-> "mlp_c_proj", conv1d |-> TRUE],
                 [fc |-> "dense_h_to_4h", proj |-> "dense_4h_to_h", conv1d |-> FALSE],
                 [fc |-> "fc1", proj |-> "fc2", conv1d |-> FALSE] >>

Recognised(f) == \E i \in DOMAIN AttnForms : Listed(f, 0, AttnForms[i].probe)

(* A name of layer 0, or none. *)
Named(f, name) == IF name # NoName /\ Listed(f, 0, name) THEN name ELSE NoName
Bias(name)     == name \o "_bias"

First(f, forms) ==
    LET found == {i \in DOMAIN forms : Listed(f, 0, forms[i][1])}
    IN  IF found = {} THEN <<NoName, FALSE>> ELSE forms[CHOOSE i \in found : \A j \in found : i <= j]

PickLayout(f) ==
    LET a     == AttnForms[CHOOSE i \in DOMAIN AttnForms :
                              Listed(f, 0, AttnForms[i].probe)
                              /\ \A j \in 1 .. i - 1 : ~ Listed(f, 0, AttnForms[j].probe)]
        n1    == First(f, NormForms)
        n2    == First(f, FfnForms)
        gemma == n2[1] = "pre_feedforward_layernorm"
        moe   == Listed(f, 0, "moe_gate")
        gated == ~ moe /\ Listed(f, 0, "gate_proj")
        dense == {i \in DOMAIN DenseForms : ~ moe /\ ~ gated /\ Listed(f, 0, DenseForms[i].fc)}
        fc    == DenseForms[CHOOSE i \in dense : \A j \in dense : i <= j]
        n1b   == IF n1[1] \in {"input_layernorm", "ln_1"} THEN Named(f, Bias(n1[1])) ELSE NoName
        n2b   == IF n2[1] \notin {NoName, "ffn_norm"} THEN Named(f, Bias(n2[1])) ELSE NoName
    IN  [attn |-> a, moe |-> moe, gated |-> gated, fc |-> dense # {},
         w_fc |-> IF dense # {} THEN fc.fc ELSE NoName, w_proj |-> IF dense # {} THEN fc.proj ELSE NoName,
         o |-> IF Listed(f, 0, a.o[1]) THEN a.o[1] ELSE a.o[2],
         conv1d |-> a.conv1d \/ (dense # {} /\ fc.conv1d),
         layernorm |-> a.layernorm \/ n1[2] \/ n2[2] \/ n1b # NoName \/ n2b # NoName,
         n1 |-> n1[1], n1b |-> n1b, n2 |-> n2[1], n2b |-> n2b, ob |-> Named(f, a.obias),
         q_norm |-> a.norms /\ Listed(f, 0, "q_norm"),
         post_attn |-> IF gemma THEN Named(f, "post_attention_layernorm") ELSE NoName,
         post_mlp  |-> IF gemma THEN Named(f, "post_feedforward_layernorm") ELSE NoName,
         shared |-> Listed(f, 0, "shared_gate"),
         wpe |-> Listed(f, Top, "wpe"),
         rope |-> a.rope]

(* The experts of layer 0 are counted when config.json does not say. *)
HfExperts(f) ==
    IF f.json.experts > 0 THEN f.json.experts
    ELSE CHOOSE n \in 0 .. Cardinality(DOMAIN f.tensors) :
             /\ <<0, "gate", n>> \notin DOMAIN f.tensors
             /\ \A e \in 0 .. n - 1 : <<0, "gate", e>> \in DOMAIN f.tensors

(* Tensors without which the mathematics of a family would be another. *)
HfLacksFamilyTensors(f, L) ==
    \/ f.json.family = "qwen3" /\ ~ L.q_norm
    \/ f.json.family = "gemma2" /\ L.post_attn = NoName
    \/ f.json.family = "gpt2" /\ ~ L.wpe

HfRefused_NoFamilyTensors(f) ==
    HfRefusesConfig(f) \/ ~ Recognised(f) \/ ~ Listed(f, Top, "embed")

(* Everything load() refuses before it looks at a layer. *)
HfRefused(f) ==
    \/ HfRefusesConfig(f)
    \/ ListedAsModelLayer(f, "q_a_proj") \/ ListedAsModelLayer(f, "kv_a_proj")
    \/ f.json.family = "gpt_oss"
    \/ \E t \in DOMAIN f.tensors : t[2] \in {"qweight", "qzeros", "g_idx"}
    \/ f.json.quant \in BlockedQuants \cup {"mxfp4"}
    \/ ~ Recognised(f) \/ ~ Listed(f, Top, "embed")
    \/ Recognised(f) /\ HfLacksFamilyTensors(f, PickLayout(f))

(* hf_inspect_directory: the capability report printed before a load.  It spells    *)
(* the names out instead of taking them from pick_layout, and it reads the header    *)
(* and the dtypes of every shard, which load() does not.  Its line about the          *)
(* tokenizer, which load() has no part in, is left out.                               *)
HfInspectBlocks(f) ==
    \/ HfRefusesConfig(f)
    \/ ListedAsModelLayer(f, "q_a_proj") \/ ListedAsModelLayer(f, "kv_a_proj")
    \/ f.json.family = "qwen3" /\ ~ ListedAsModelLayer(f, "q_norm")
    \/ f.json.family = "gemma2" /\ ~ ListedAsModelLayer(f, "pre_feedforward_layernorm")
    \/ f.json.family = "gpt2" /\ ~ (f.wpe_name \in {"transformer.wpe", "wpe"} /\ Listed(f, Top, "wpe"))
    \/ \E t \in DOMAIN f.tensors : t[2] \in {"qweight", "qzeros"}
    \/ f.json.quant \in BlockedQuants \cup {"mxfp4"}
    \/ f.json.family = "gpt_oss" \/ f.bad # {} \/ f.broken # {}

-----------------------------------------------------------------------------
(* One layer *)

(* add_weight_ref: tensor id 0 for a name that is not listed. *)
Ref(f, li, name) == IF name # NoName /\ Listed(f, li, name) THEN <<li, name>> ELSE Missing
Present(t)       == t # Missing

Biased(x, bias, out, width) == Opt(Present(bias), << Plain("Add", <<x, bias>>, out, width) >>)
AfterBias(x, bias, out) == IF Present(bias) THEN out ELSE x

(* The bias of a split projection is looked for only if layer 0 has it. *)
SplitBias(f, li, L, w) ==
    IF L.attn.biases THEN Ref(f, li, Named(f, Bias(w))) ELSE Missing

HfSplit(f, li, L) ==
    LET T(n) == <<li, n>>
        One(w, x, out, width) ==
            << Project(T("n1"), Ref(f, li, w), T(x), width, ~ L.conv1d) >>
            \o Biased(T(x), SplitBias(f, li, L, w), T(out), width)
    IN  One(L.attn.q, "q0", "q_b", HfQDim(f)) \o One(L.attn.k, "k0", "k_b", HfKvDim(f))
        \o One(L.attn.v, "v0", "v_b", HfKvDim(f))

HfFused(f, li, L) ==
    LET T(n)   == <<li, n>>
        q      == HfQDim(f)
        kv     == HfKvDim(f)
        packed == q + 2 * kv
        bias   == SplitBias(f, li, L, L.attn.probe)
        x      == AfterBias(T("qkv"), bias, T("qkv_b"))
    IN  << Project(T("n1"), Ref(f, li, L.attn.probe), T("qkv"), packed, ~ L.conv1d) >>
        \o Biased(T("qkv"), bias, T("qkv_b"), packed)
        \o << Slice(x, T("q"), 0, q), Slice(x, T("k"), q, q + kv), Slice(x, T("v"), q + kv, packed) >>

(* Where q, k and v stand after the projections. *)
HfQkv(f, li, L) ==
    LET T(n) == <<li, n>>
    IN  IF L.attn.split
        THEN << AfterBias(T("q0"), SplitBias(f, li, L, L.attn.q), T("q_b")),
                AfterBias(T("k0"), SplitBias(f, li, L, L.attn.k), T("k_b")),
                AfterBias(T("v0"), SplitBias(f, li, L, L.attn.v), T("v_b")) >>
        ELSE << T("q"), T("k"), T("v") >>

HfRopeAttrs(f) ==
    LET head == HfHeadDim(f)
        r    == HfRotary(f)
    IN  [head_dim |-> head, rotary |-> IF r > 0 THEN r ELSE head, leading |-> r > 0 /\ head > r,
         mode |-> HfRopeMode(f), scale |-> f.json.scaling]

HfAttention(f, li, L) ==
    LET T(n)  == <<li, n>>
        qkv   == HfQkv(f, li, L)
        qn    == IF L.q_norm THEN Ref(f, li, "q_norm") ELSE Missing
        kn    == IF L.q_norm /\ Listed(f, 0, "k_norm") THEN Ref(f, li, "k_norm") ELSE Missing
        q     == IF Present(qn) THEN T("q_n") ELSE qkv[1]
        k     == IF Present(kn) THEN T("k_n") ELSE qkv[2]
        roped == L.rope /\ HfRopeMode(f) >= 0
    IN  Opt(Present(qn), << Plain("RMSNorm", <<qkv[1], qn>>, T("q_n"), HfQDim(f)) >>)
        \o Opt(Present(kn), << Plain("RMSNorm", <<qkv[2], kn>>, T("k_n"), HfKvDim(f)) >>)
        \o Opt(roped, << Rope(q, T("q_rope"), HfQDim(f), HfRopeAttrs(f)),
                         Rope(k, T("k_rope"), HfKvDim(f), HfRopeAttrs(f)) >>)
        \o << Attention(IF roped THEN T("q_rope") ELSE q, IF roped THEN T("k_rope") ELSE k, qkv[3],
                        T("attn"), HfQDim(f), f.json.heads, li) >>

(* The output projection, with its bias and the norm behind it. *)
HfOutput(f, li, L) ==
    LET T(n) == <<li, n>>
        bo   == Ref(f, li, L.ob)
        o    == AfterBias(T("attn_o0"), bo, T("o_b"))
        pa   == Ref(f, li, L.post_attn)
    IN  [out   |-> AfterBias(o, pa, T("post_attn")),
         nodes |-> << Project(T("attn"), Ref(f, li, L.o), T("attn_o0"), f.json.hidden, ~ L.conv1d) >>
                   \o Biased(T("attn_o0"), bo, T("o_b"), f.json.hidden)
                   \o Opt(Present(pa), << Plain("RMSNorm", <<o, pa>>, T("post_attn"), f.json.hidden) >>)]

HfExpertRefs(f, li) ==
    [i \in 1 .. 3 * HfExperts(f) |->
         LET t == <<li, <<"gate", "up", "down">>[((i - 1) % 3) + 1], (i - 1) \div 3>>
         IN  IF t \in DOMAIN f.tensors THEN t ELSE Missing]

HfMoe(L, f) == L.moe /\ HfExperts(f) > 0

(* The feed-forward part without norm and residual; the dense form does not ask *)
(* whether its weights are there.                                               *)
HfMlp(f, li, L, x) ==
    LET T(n) == <<li, n>>
        dim  == f.json.hidden
    IN  CASE HfMoe(L, f) -> Experts(x, Ref(f, li, "moe_gate"), HfExpertRefs(f, li), li, HfExperts(f), dim)
          [] ~ HfMoe(L, f) /\ L.gated ->
                 GatedMlp(x, <<Ref(f, li, "gate_proj"), Ref(f, li, "up_proj"), Ref(f, li, "down_proj")>>,
                          <<T("gate"), T("up"), T("gate_act"), T("ff_hid"), T("ff_out")>>,
                          Activation(f), HfInter(f), dim, ~ L.conv1d)
          [] ~ HfMoe(L, f) /\ ~ L.gated /\ L.fc ->
                 << Project(x, Ref(f, li, L.w_fc), T("up"), HfInter(f), ~ L.conv1d),
                    Plain("Gelu", <<T("up")>>, T("up_act"), HfInter(f)),
                    Project(T("up_act"), Ref(f, li, L.w_proj), T("ff_out"), dim, ~ L.conv1d) >>
          [] OTHER -> <<>>

HasMlp(L, f) == HfMoe(L, f) \/ L.gated \/ L.fc

SharedNames == {"shared_gate", "shared_up", "shared_down"}
SharedThere(f, li, L) == L.shared /\ \A n \in SharedNames : Listed(f, li, n)

(* The norm behind the feed-forward part, then the shared expert. *)
HfAfterMlp(f, li, L, x) ==
    LET T(n) == <<li, n>>
        dim  == f.json.hidden
        pm   == Ref(f, li, L.post_mlp)
        out1 == AfterBias(T("ff_out"), pm, T("post_mlp"))
        sh   == SharedThere(f, li, L)
    IN  [out   |-> IF sh THEN T("ff_merged") ELSE out1,
         nodes |-> Opt(Present(pm), << Plain("RMSNorm", <<T("ff_out"), pm>>, T("post_mlp"), dim) >>)
                   \o Opt(sh, GatedMlp(x, <<T("shared_gate"), T("shared_up"), T("shared_down")>>,
                                       <<T("sh_g"), T("sh_u"), T("sh_ga"), T("sh_hid"), T("sh_out")>>,
                                       Activation(f), ShapeIn(f, li, "shared_gate")[1], dim, ~ L.conv1d)
                              \o << Plain("Add", <<out1, T("sh_out")>>, T("ff_merged"), dim) >>)]

(* Attention and feed-forward in sequence, or side by side on the same input. *)
HfLayerNodes(f, li, L, features) ==
    LET T(n)   == <<li, n>>
        dim    == f.json.hidden
        par    == f.json.parallel
        o      == HfOutput(f, li, L)
        hasN2  == Present(Ref(f, li, L.n2))
        mid    == IF par THEN features ELSE T("resid1")
        x      == IF hasN2 THEN T("n2") ELSE mid
        after  == HfAfterMlp(f, li, L, x)
        norm(in, w, b, out) == NormNode(L.layernorm, in, Ref(f, li, w), Ref(f, li, b),
                                        Present(Ref(f, li, b)), out, dim)
        ff     == HasMlp(L, f)
    IN  [features |-> IF ff THEN T("resid2") ELSE T("resid1"),
         nodes |-> << norm(features, L.n1, L.n1b, T("n1")) >>
                   \o (IF L.attn.split THEN HfSplit(f, li, L) ELSE HfFused(f, li, L))
                   \o HfAttention(f, li, L) \o o.nodes
                   \o Opt(~ par, << Plain("Add", <<features, o.out>>, T("resid1"), dim) >>)
                   \o Opt(hasN2, << norm(mid, L.n2, L.n2b, T("n2")) >>)
                   \o HfMlp(f, li, L, x)
                   \o Opt(ff, after.nodes)
                   \o Opt(par /\ ff, << Plain("Add", <<features, o.out>>, T("par_mid"), dim),
                                        Plain("Add", <<T("par_mid"), after.out>>, T("resid2"), dim) >>)
                   \o Opt(par /\ ~ ff, << Plain("Add", <<features, o.out>>, T("resid1"), dim) >>)
                   \o Opt(~ par /\ ff, << Plain("Add", <<T("resid1"), after.out>>, T("resid2"), dim) >>)]

(* What a layer must have: its first norm, q, k and v (or the packed form), the  *)
(* output projection, every expert with its gate, all of a gated MLP.            *)
HfIncomplete(f, li, L) ==
    LET need == {L.n1, L.o} \cup (IF L.attn.split THEN {L.attn.q, L.attn.k, L.attn.v} ELSE {L.attn.probe})
                \cup (IF HfMoe(L, f) THEN {"moe_gate"} ELSE {})
                \cup (IF ~ HfMoe(L, f) /\ L.gated THEN {"gate_proj", "up_proj", "down_proj"} ELSE {})
    IN  \/ \E n \in need : ~ Present(Ref(f, li, n))
        \/ HfMoe(L, f) /\ Missing \in ToSet(HfExpertRefs(f, li))

(* The shape of a bias is not read but demanded. *)
HfWeight(f, L, t) ==
    LET q  == HfQDim(f)
        kv == HfKvDim(f)
        demanded == {<<L.ob, f.json.hidden>>}
                    \cup (IF L.attn.split THEN {<<Bias(L.attn.q), q>>, <<Bias(L.attn.k), kv>>, <<Bias(L.attn.v), kv>>}
                                          ELSE {<<Bias(L.attn.probe), q + 2 * kv>>})
    IN  IF \E d \in demanded : d[1] = t[2] THEN <<1, (CHOOSE d \in demanded : d[1] = t[2])[2]>>
        ELSE f.tensors[t]

HfLayer(f, li, L, features) ==
    LET built == HfLayerNodes(f, li, L, features)
        asked == {<<li, n>> : n \in {L.n1b, L.n2b}
                                      \cup (IF L.shared /\ HasMlp(L, f) THEN SharedNames ELSE {})}
        used  == ((UNION {ToSet(n.ins) : n \in ToSet(built.nodes)}) \cup asked) \cap DOMAIN f.tensors
    IN  IF HfIncomplete(f, li, L) \/ used \cap f.unreadable # {} THEN [verdict |-> "error"]
        ELSE [verdict |-> "layer", features |-> built.features, nodes |-> built.nodes,
              weights |-> [t \in used |-> HfWeight(f, L, t)]]

-----------------------------------------------------------------------------
(* What stands before and behind the layers *)

HfLmHead(f) == IF Listed(f, Top, "lm_head") /\ ~ f.json.tie THEN <<Top, "lm_head">> ELSE <<Top, "embed">>

HfHead(f) ==
    LET emb  == <<Top, "embed">>
        wpe  == <<Top, "wpe">>
        dim  == f.json.hidden
        ws   == {emb} \cup (IF Listed(f, Top, "wpe") THEN {wpe} ELSE {})
    IN  IF (ws \cup {HfLmHead(f)}) \cap f.unreadable # {} THEN [verdict |-> "error"]
        ELSE [verdict |-> "layer", features |-> Hidden, weights |-> [t \in ws |-> f.tensors[t]],
              nodes |-> IF wpe \in ws
                        THEN << Plain("Embedding", <<Tokens, emb>>, <<Top, "tok_emb">>, dim),
                                Plain("Positions", <<Tokens>>, <<Top, "positions">>, 1),
                                Plain("Embedding", <<<<Top, "positions">>, wpe>>, <<Top, "pos_emb">>, dim),
                                Plain("Add", <<<<Top, "tok_emb">>, <<Top, "pos_emb">>>>, Hidden, dim) >>
                        ELSE << Plain("Embedding", <<Tokens, emb>>, Hidden, dim) >>]

HfTail(f, L, features) ==
    LET normed == <<Top, "normed">>
        hasN   == Listed(f, Top, "norm")
        biased == Listed(f, Top, "norm_bias")
        vocab  == f.json.vocab
        logits == IF f.json.softcap THEN <<Top, "logits_cap">> ELSE <<Top, "logits">>
        ws     == {HfLmHead(f)} \cup (IF hasN THEN {<<Top, "norm">>} ELSE {})
                                \cup (IF hasN /\ biased THEN {<<Top, "norm_bias">>} ELSE {})
    IN  IF hasN /\ <<Top, "norm">> \in f.unreadable THEN [verdict |-> "error"]
        ELSE [verdict |-> "layer", features |-> <<Top, "probs">>,
              weights |-> [t \in ws |-> IF t[2] = "norm_bias" THEN <<1, f.json.hidden>> ELSE f.tensors[t]],
              nodes |-> Opt(hasN, << NormNode(L.layernorm, features, <<Top, "norm">>, <<Top, "norm_bias">>,
                                              biased, normed, f.json.hidden) >>)
                        \o << MatMul(IF hasN THEN normed ELSE features, HfLmHead(f), <<Top, "logits">>, vocab) >>
                        \o Opt(f.json.softcap, << Plain("Softcap", <<<<Top, "logits">>>>, logits, vocab) >>)
                        \o << Plain("Softmax", <<logits>>, <<Top, "probs">>, vocab) >>]

HfMeta(f) ==
    [n_layers |-> ApplyLayerCap(f.json.layers, f.cap), kv_heads |-> HfKvHeads(f), kv_dim |-> HfKvDim(f), v_dim |-> 0]

===============================================================================

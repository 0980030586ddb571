-------------------------- MODULE ModelImportProofs --------------------------
(* Proofs about what the loaders build, for every file: that queries and keys  *)
(* are rotated alike, that the cache has the width of what attentions append,   *)
(* and that the capability report agrees with load().                            *)
EXTENDS ModelImport, FiniteSetTheorems, TLAPS

-----------------------------------------------------------------------------
(* Lists of nodes *)

NodeList(s) == s \in Seq(ToSet(s))

(* A layer the loader builds; a Hugging Face directory has no other. *)
Made(f, l) == f.fmt = "gguf" => Buildable(f, l)

(* A node that is no attention and, if it makes a value, as wide as a value is.    *)
(* In a Hugging Face layer this is also the width of every key.                     *)
KvNames(f)  == IF f.fmt = "hf" THEN Operands ELSE {"v", "v0"}
Calm(f, n)  ==
    /\ n.op # "Attention"
    /\ n.out[2] \in KvNames(f) => n.width = ValueWidth(f, n.out[1]) /\ Made(f, n.out[1])
Quiet(f, s) == NodeList(s) /\ \A n \in ToSet(s) : Calm(f, n)

(* The nodes of two lists, one behind the other. *)
LEMMA ConcatIs ==
    ASSUME NEW s, NEW t, NodeList(s), NodeList(t)
    PROVE  NodeList(s \o t) /\ ToSet(s \o t) = ToSet(s) \cup ToSet(t)
<1> DEFINE S == ToSet(s) \cup ToSet(t)
<1>1. s \in Seq(S) /\ t \in Seq(S)
  BY DEF NodeList
<1>2. /\ s \o t \in Seq(S) /\ Len(s) \in Nat /\ Len(t) \in Nat /\ DOMAIN s = 1 .. Len(s)
      /\ DOMAIN t = 1 .. Len(t) /\ DOMAIN (s \o t) = 1 .. (Len(s) + Len(t))
      /\ Len(s \o t) = Len(s) + Len(t)
      /\ \A i \in 1 .. Len(s) : (s \o t)[i] = s[i]
      /\ \A i \in 1 .. Len(t) : (s \o t)[Len(s) + i] = t[i]
  BY <1>1
<1>3. ToSet(s \o t) = S
  <2>1. ASSUME NEW x \in S PROVE x \in ToSet(s \o t)
    <3>1. CASE x \in ToSet(s)
      BY <1>2, <3>1 DEF ToSet
    <3>2. CASE x \in ToSet(t)
      <4>1. PICK i \in 1 .. Len(t) : t[i] = x
        BY <1>2, <3>2 DEF ToSet
      <4>2. Len(s) + i \in DOMAIN (s \o t)
        BY <1>2
      <4> QED
        BY <1>2, <4>1, <4>2 DEF ToSet
    <3> QED
      BY <3>1, <3>2
  <2>2. ASSUME NEW x \in ToSet(s \o t) PROVE x \in S
    <3>1. PICK i \in 1 .. (Len(s) + Len(t)) : (s \o t)[i] = x
      BY <1>2 DEF ToSet
    <3>2. CASE i <= Len(s)
      BY <1>2, <3>1, <3>2 DEF ToSet
    <3>3. CASE i > Len(s)
      <4>1. i - Len(s) \in 1 .. Len(t) /\ Len(s) + (i - Len(s)) = i
        BY <1>2, <3>3
      <4> QED
        BY <1>2, <3>1, <4>1 DEF ToSet
    <3> QED
      BY <1>2, <3>2, <3>3
  <2> QED
    BY <2>1, <2>2
<1> QED
  BY <1>2, <1>3 DEF NodeList

(* Quiet lists stay so when they are joined. *)
LEMMA QuietConcat ==
    ASSUME NEW f, NEW s, NEW t, Quiet(f, s), Quiet(f, t)
    PROVE  Quiet(f, s \o t)
BY ConcatIs DEF Quiet

(* Lists written out. *)
LEMMA Lists ==
    /\ NodeList(<<>>) /\ ToSet(<<>>) = {}
    /\ \A a : NodeList(<<a>>) /\ ToSet(<<a>>) = {a}
    /\ \A a, b : NodeList(<<a, b>>) /\ ToSet(<<a, b>>) = {a, b}
    /\ \A a, b, c : NodeList(<<a, b, c>>) /\ ToSet(<<a, b, c>>) = {a, b, c}
    /\ \A a, b, c, d : NodeList(<<a, b, c, d>>) /\ ToSet(<<a, b, c, d>>) = {a, b, c, d}
    /\ \A a, b, c, d, e : NodeList(<<a, b, c, d, e>>) /\ ToSet(<<a, b, c, d, e>>) = {a, b, c, d, e}
<1>1. NodeList(<<>>) /\ ToSet(<<>>) = {}
  BY DEF NodeList, ToSet
<1>2. \A a : NodeList(<<a>>) /\ ToSet(<<a>>) = {a}
  BY DEF NodeList, ToSet
<1>3. \A a, b : NodeList(<<a, b>>) /\ ToSet(<<a, b>>) = {a, b}
  <2> TAKE a, b
  <2>1. ToSet(<<a, b>>) = {a, b}
    BY DEF ToSet
  <2> QED
    BY <2>1 DEF NodeList
<1>4. \A a, b, c : NodeList(<<a, b, c>>) /\ ToSet(<<a, b, c>>) = {a, b, c}
  <2> TAKE a, b, c
  <2>1. ToSet(<<a, b, c>>) = {a, b, c}
    BY DEF ToSet
  <2> QED
    BY <2>1 DEF NodeList
<1>5. \A a, b, c, d : NodeList(<<a, b, c, d>>) /\ ToSet(<<a, b, c, d>>) = {a, b, c, d}
  <2> TAKE a, b, c, d
  <2>1. ToSet(<<a, b, c, d>>) = {a, b, c, d}
    BY DEF ToSet
  <2> QED
    BY <2>1 DEF NodeList
<1>6. \A a, b, c, d, e : NodeList(<<a, b, c, d, e>>) /\ ToSet(<<a, b, c, d, e>>) = {a, b, c, d, e}
  <2> TAKE a, b, c, d, e
  <2>1. ToSet(<<a, b, c, d, e>>) = {a, b, c, d, e}
    BY DEF ToSet
  <2> QED
    BY <2>1 DEF NodeList
<1> QED
  BY <1>1, <1>2, <1>3, <1>4, <1>5, <1>6

(* An optional part is quiet if what it stands for is. *)
LEMMA OptQuiet == ASSUME NEW f, NEW c, NEW s, c => Quiet(f, s) PROVE Quiet(f, Opt(c, s))
<1>1. Quiet(f, <<>>)
  BY Lists DEF Quiet
<1> QED
  BY <1>1 DEF Opt

(* Lists of calm nodes are quiet. *)
LEMMA QuietLists ==
    /\ \A f, a : Calm(f, a) => Quiet(f, <<a>>)
    /\ \A f, a, b : (Calm(f, a) /\ Calm(f, b)) => Quiet(f, <<a, b>>)
    /\ \A f, a, b, c : (Calm(f, a) /\ Calm(f, b) /\ Calm(f, c)) => Quiet(f, <<a, b, c>>)
    /\ \A f, a, b, c, d : 
          (Calm(f, a) /\ Calm(f, b) /\ Calm(f, c) /\ Calm(f, d))
              => Quiet(f, <<a, b, c, d>>)
    /\ \A f, a, b, c, d, e : 
          (Calm(f, a) /\ Calm(f, b) /\ Calm(f, c) /\ Calm(f, d) /\ Calm(f, e))
              => Quiet(f, <<a, b, c, d, e>>)
<1>1. \A f, a : Calm(f, a) => Quiet(f, <<a>>)
  <2> TAKE f, a
  <2>1. NodeList(<<a>>) /\ ToSet(<<a>>) = {a}
    BY Lists
  <2> QED
    BY <2>1 DEF Quiet
<1>2. \A f, a, b : (Calm(f, a) /\ Calm(f, b)) => Quiet(f, <<a, b>>)
  <2> TAKE f, a, b
  <2>1. NodeList(<<a, b>>) /\ ToSet(<<a, b>>) = {a, b}
    BY Lists
  <2> QED
    BY <2>1 DEF Quiet
<1>3. \A f, a, b, c : (Calm(f, a) /\ Calm(f, b) /\ Calm(f, c)) => Quiet(f, <<a, b, c>>)
  <2> TAKE f, a, b, c
  <2>1. NodeList(<<a, b, c>>) /\ ToSet(<<a, b, c>>) = {a, b, c}
    BY Lists
  <2> QED
    BY <2>1 DEF Quiet
<1>4. \A f, a, b, c, d : 
        (Calm(f, a) /\ Calm(f, b) /\ Calm(f, c) /\ Calm(f, d))
            => Quiet(f, <<a, b, c, d>>)
  <2> TAKE f, a, b, c, d
  <2>1. NodeList(<<a, b, c, d>>) /\ ToSet(<<a, b, c, d>>) = {a, b, c, d}
    BY Lists
  <2> QED
    BY <2>1 DEF Quiet
<1>5. \A f, a, b, c, d, e : 
        (Calm(f, a) /\ Calm(f, b) /\ Calm(f, c) /\ Calm(f, d) /\ Calm(f, e))
            => Quiet(f, <<a, b, c, d, e>>)
  <2> TAKE f, a, b, c, d, e
  <2>1. NodeList(<<a, b, c, d, e>>) /\ ToSet(<<a, b, c, d, e>>) = {a, b, c, d, e}
    BY Lists
  <2> QED
    BY <2>1 DEF Quiet
<1> QED
  BY <1>1, <1>2, <1>3, <1>4, <1>5

(* What the constructors of nodes put where. *)
LEMMA NodeIs ==
    /\ \A op, ins, out, width, attrs :
          LET n == AddNode(op, ins, out, width, attrs)
          IN  n.op = op /\ n.ins = ins /\ n.out = out /\ n.width = width /\ n.attrs = attrs
    /\ \A op, ins, out, width :
          LET n == Plain(op, ins, out, width)
          IN  n.op = op /\ n.ins = ins /\ n.out = out /\ n.width = width
    /\ \A x, w, out, width, tb :
          LET n == Project(x, w, out, width, tb)
          IN  n.op = "MatMul" /\ n.out = out /\ n.width = width
    /\ \A x, w, out, width :
          LET n == MatMul(x, w, out, width)
          IN  n.op = "MatMul" /\ n.out = out /\ n.width = width
    /\ \A x, out, start, end :
          LET n == Slice(x, out, start, end)
          IN  n.op = "Slice" /\ n.out = out /\ n.width = end - start
    /\ \A x, out, width, attrs :
          LET n == Rope(x, out, width, attrs)
          IN  n.op = "RoPE" /\ n.out = out /\ n.width = width /\ n.attrs = attrs
    /\ \A ln, x, w, b, hb, out, dim :
          LET n == NormNode(ln, x, w, b, hb, out, dim)
          IN  n.op \in {"LayerNorm", "RMSNorm"} /\ n.out = out /\ n.width = dim
BY DEF AddNode, Plain, Project, MatMul, Slice, Rope, NormNode

(* Nodes that are calm because of their name. *)
LEMMA CalmNodes ==
    ASSUME NEW f, NEW l, NEW nm, nm \notin KvNames(f)
    PROVE  /\ \A op, ins, w : op # "Attention" => Calm(f, Plain(op, ins, <<l, nm>>, w))
           /\ \A op, ins, w, attrs : op # "Attention" => Calm(f, AddNode(op, ins, <<l, nm>>, w, attrs))
           /\ \A x, y, w, tb : Calm(f, Project(x, y, <<l, nm>>, w, tb))
           /\ \A x, y, w : Calm(f, MatMul(x, y, <<l, nm>>, w))
           /\ \A x, i, j : Calm(f, Slice(x, <<l, nm>>, i, j))
           /\ \A x, w, attrs : Calm(f, Rope(x, <<l, nm>>, w, attrs))
           /\ \A ln, x, w, b, hb, d : Calm(f, NormNode(ln, x, w, b, hb, <<l, nm>>, d))
<1>1. <<l, nm>>[2] = nm
  OBVIOUS
<1>2. \A n : n.op # "Attention" /\ n.out = <<l, nm>> => Calm(f, n)
  BY <1>1 DEF Calm
<1>3. \A ln, x, w, b, hb, d : NormNode(ln, x, w, b, hb, <<l, nm>>, d).op # "Attention"
  BY NodeIs
<1> QED
  BY <1>2, <1>3, NodeIs

(* Nodes that are calm because of their width. *)
LEMMA CalmValues ==
    ASSUME NEW f, NEW l, NEW nm, NEW w, w = ValueWidth(f, l), Made(f, l)
    PROVE  /\ \A op, ins : op # "Attention" => Calm(f, Plain(op, ins, <<l, nm>>, w))
           /\ \A x, y, tb : Calm(f, Project(x, y, <<l, nm>>, w, tb))
           /\ \A x, y : Calm(f, MatMul(x, y, <<l, nm>>, w))
           /\ \A x, i, j : j - i = w => Calm(f, Slice(x, <<l, nm>>, i, j))
           /\ \A x, attrs : Calm(f, Rope(x, <<l, nm>>, w, attrs))
<1>1. <<l, nm>>[1] = l
  OBVIOUS
<1>2. \A n : n.op # "Attention" /\ n.out = <<l, nm>> /\ n.width = w => Calm(f, n)
  BY <1>1 DEF Calm
<1> QED
  BY <1>2, NodeIs

(* The blocks that every loader uses. *)
LEMMA BlocksQuiet ==
    ASSUME NEW f, NEW l
    PROVE  /\ \A x, ws, a, b, c, d, e, act, inter, dim, tb :
                  act # "Attention" /\ {a, b, c, d, e} \cap Operands = {} =>
                      Quiet(f, GatedMlp(x, ws, <<<<l, a>>, <<l, b>>, <<l, c>>, <<l, d>>, <<l, e>>>>,
                                        act, inter, dim, tb))
           /\ \A x, gate, ws, n, dim : Quiet(f, Experts(x, gate, ws, l, n, dim))
<1>1. ASSUME NEW x, NEW ws, NEW a, NEW b, NEW c, NEW d, NEW e, NEW act, NEW inter, NEW dim, NEW tb,
             act # "Attention", {a, b, c, d, e} \cap Operands = {}
      PROVE  Quiet(f, GatedMlp(x, ws, <<<<l, a>>, <<l, b>>, <<l, c>>, <<l, d>>, <<l, e>>>>, act, inter, dim, tb))
  <2> DEFINE outs == <<<<l, a>>, <<l, b>>, <<l, c>>, <<l, d>>, <<l, e>>>>
             n1 == Project(x, ws[1], outs[1], inter, tb)
             n2 == Project(x, ws[2], outs[2], inter, tb)
             n3 == Plain(act, <<outs[1]>>, outs[3], inter)
             n4 == Plain("Mul", <<outs[3], outs[2]>>, outs[4], inter)
             n5 == Project(outs[4], ws[3], outs[5], dim, tb)
  <2>1. \A nm \in {a, b, c, d, e} : nm \notin KvNames(f)
    BY <1>1 DEF KvNames, Operands
  <2>2. /\ outs[1] = <<l, a>> /\ outs[2] = <<l, b>> /\ outs[3] = <<l, c>>
        /\ outs[4] = <<l, d>> /\ outs[5] = <<l, e>>
    OBVIOUS
  <2> HIDE DEF outs
  <2>3. Calm(f, n1) /\ Calm(f, n2) /\ Calm(f, n5)
    BY <2>1, <2>2, CalmNodes
  <2>4. Calm(f, n3) /\ Calm(f, n4)
    BY <1>1, <2>1, <2>2, CalmNodes
  <2>5. GatedMlp(x, ws, outs, act, inter, dim, tb) = <<n1, n2, n3, n4, n5>>
    BY DEF GatedMlp
  <2> HIDE DEF n1, n2, n3, n4, n5
  <2>6. Quiet(f, <<n1, n2, n3, n4, n5>>)
    BY <2>3, <2>4, QuietLists
  <2> QED
    BY <2>5, <2>6 DEF outs
<1>2. ASSUME NEW x, NEW gate, NEW ws, NEW n, NEW dim
      PROVE  Quiet(f, Experts(x, gate, ws, l, n, dim))
  <2>1. "moe_probs" \notin KvNames(f) /\ "ff_out" \notin KvNames(f)
    BY DEF KvNames, Operands
  <2> QED
    BY <2>1, CalmNodes, QuietLists DEF Experts
<1> QED
  BY <1>1, <1>2

(* A list of one such node, or none. *)
LEMMA OneNode ==
    ASSUME NEW f, NEW l, NEW nm, nm \notin KvNames(f)
    PROVE  /\ \A c, op, ins, w : op # "Attention" =>
                  Quiet(f, <<Plain(op, ins, <<l, nm>>, w)>>) /\ Quiet(f, Opt(c, <<Plain(op, ins, <<l, nm>>, w)>>))
           /\ \A x, y, w, tb : Quiet(f, <<Project(x, y, <<l, nm>>, w, tb)>>)
           /\ \A x, y, w : Quiet(f, <<MatMul(x, y, <<l, nm>>, w)>>)
           /\ \A c, x, i, j : Quiet(f, Opt(c, <<Slice(x, <<l, nm>>, i, j)>>))
           /\ \A c, ln, x, w, b, hb, d :
                  /\ Quiet(f, <<NormNode(ln, x, w, b, hb, <<l, nm>>, d)>>)
                  /\ Quiet(f, Opt(c, <<NormNode(ln, x, w, b, hb, <<l, nm>>, d)>>))
<1>1. \A n, c : Calm(f, n) => Quiet(f, <<n>>) /\ Quiet(f, Opt(c, <<n>>))
  BY QuietLists, OptQuiet
<1> QED
  BY <1>1, CalmNodes

(* The list computes t. *)
Writes(s, t) == \E n \in ToSet(s) : n.out = t

(* What one of two lists computes is computed when they are joined. *)
LEMMA WritesConcat ==
    ASSUME NEW f, NEW s, NEW t, Quiet(f, s), Quiet(f, t), NEW x, Writes(s, x) \/ Writes(t, x)
    PROVE  Writes(s \o t, x)
BY ConcatIs DEF Writes, Quiet

-----------------------------------------------------------------------------
(* A GGUF layer *)

(* Only the value has a name of its own. *)
LEMMA GgufNames ==
    ASSUME NEW f, f.fmt = "gguf", NEW nm, nm \notin {"v", "v0"}
    PROVE  nm \notin KvNames(f)
BY DEF KvNames

(* The projections of latent attention, and the value among them. *)
LEMMA MlaPartsQuiet ==
    ASSUME NEW f, f.fmt = "gguf", NEW l, Made(f, l), IsMla(f, l), NEW d, d.v = ValueWidth(f, l)
    PROVE  /\ Quiet(f, MlaQNodes(f, l, d)) /\ Quiet(f, MlaKvNodes(f, l, d))
           /\ Writes(MlaKvNodes(f, l, d), <<l, "v">>)
<1>1. Quiet(f, MlaQNodes(f, l, d))
  <2>1. "q_a" \notin KvNames(f) /\ "q_a_n" \notin KvNames(f) /\ "q" \notin KvNames(f)
    BY GgufNames
  <2>2. \A a, b, x : Quiet(f, <<MatMul(a, b, <<l, "q_a">>, x)>>) /\ Quiet(f, <<MatMul(a, b, <<l, "q">>, x)>>)
    BY <2>1, OneNode
  <2>3. \A c, a, x : Quiet(f, Opt(c, <<Plain("RMSNorm", a, <<l, "q_a_n">>, x)>>))
    BY <2>1, OneNode
  <2> QED
    BY <2>2, <2>3, QuietConcat, Zenon DEF MlaQNodes
<1> DEFINE sliced == IF d.full # d.latent THEN <<l, "kv_latent">> ELSE <<l, "kvc">>
           latent == IF Has(f, l, "attn_kv_a_norm") THEN <<l, "kv_latent_n">> ELSE sliced
           s1 == << MatMul(<<l, "n1">>, <<l, KvA(f, l)>>, <<l, "kvc">>, d.full) >>
           s2 == Opt(d.full # d.latent, << Slice(<<l, "kvc">>, <<l, "kv_latent">>, 0, d.latent) >>)
           s3 == Opt(Has(f, l, "attn_kv_a_norm"),
                     << Plain("RMSNorm", <<sliced, <<l, "attn_kv_a_norm">>>>, <<l, "kv_latent_n">>, d.latent) >>)
           nk == MatMul(latent, <<l, "attn_k_b">>, <<l, "k">>, d.k)
           nv == MatMul(latent, <<l, "attn_v_b">>, <<l, "v">>, d.v)
<1>2. MlaKvNodes(f, l, d) = s1 \o s2 \o s3 \o <<nk, nv>>
  BY DEF MlaKvNodes
<1>3. /\ "kvc" \notin KvNames(f) /\ "kv_latent" \notin KvNames(f) /\ "kv_latent_n" \notin KvNames(f)
      /\ "k" \notin KvNames(f)
  BY GgufNames
<1>4. Quiet(f, s1) /\ Quiet(f, s2)
  BY <1>3, OneNode
<1>5. Quiet(f, s3)
  BY <1>3, OneNode
<1>6. Calm(f, nk) /\ Calm(f, nv)
  BY <1>3, CalmNodes, CalmValues
<1>7. nv.out = <<l, "v">>
  BY NodeIs
<1> HIDE DEF s1, s2, s3, nk, nv
<1>8. Quiet(f, <<nk, nv>>) /\ Writes(<<nk, nv>>, <<l, "v">>)
  BY <1>6, <1>7, QuietLists, Lists DEF Writes
<1>9. Quiet(f, s1 \o s2) /\ Quiet(f, s1 \o s2 \o s3)
  BY <1>4, <1>5, QuietConcat
<1>10. Quiet(f, s1 \o s2 \o s3 \o <<nk, nv>>) /\ Writes(s1 \o s2 \o s3 \o <<nk, nv>>, <<l, "v">>)
  BY <1>8, <1>9, QuietConcat, WritesConcat
<1> QED
  BY <1>1, <1>2, <1>10

(* Latent attention, with the keys assembled if need be. *)
LEMMA MlaQuiet ==
    ASSUME NEW f, f.fmt = "gguf", NEW l, Made(f, l), IsMla(f, l), NEW d, d.v = ValueWidth(f, l)
    PROVE  Quiet(f, MlaNodes(f, l, d)) /\ Writes(MlaNodes(f, l, d), <<l, "v">>)
<1>1. Quiet(f, Opt(d.assemble, MlaAssembleNodes(f, l, d)))
  <2>1. "k_pe" \notin KvNames(f) /\ "k_pe_rope" \notin KvNames(f) /\ "k_full" \notin KvNames(f)
    BY GgufNames
  <2>2. Quiet(f, MlaAssembleNodes(f, l, d))
    BY <2>1, CalmNodes, QuietLists DEF MlaAssembleNodes
  <2> QED
    BY <2>2, OptQuiet
<1>2. /\ Quiet(f, MlaQNodes(f, l, d)) /\ Quiet(f, MlaKvNodes(f, l, d))
      /\ Writes(MlaKvNodes(f, l, d), <<l, "v">>)
  BY MlaPartsQuiet
<1>3. /\ Quiet(f, MlaQNodes(f, l, d) \o MlaKvNodes(f, l, d))
      /\ Writes(MlaQNodes(f, l, d) \o MlaKvNodes(f, l, d), <<l, "v">>)
  BY <1>2, QuietConcat, WritesConcat
<1> QED
  BY <1>1, <1>3, QuietConcat, WritesConcat DEF MlaNodes

(* The widths that the metadata states are integers. *)
LEMMA GgufWidths ==
    ASSUME NEW f, FileTyped(f), f.fmt = "gguf", Has(f, Top, "token_embd")
    PROVE  QDim(f) \in Int /\ KvDim(f) \in Int
<1>1. /\ f.kv.head_count \in Int /\ f.kv.head_count_kv \in Int /\ f.kv.key_length \in Int
      /\ f.kv.embedding_length \in Int
  BY DEF FileTyped
<1>2. GgufDim(f) \in Int
  <2>1. f.tensors[<<Top, "token_embd">>] \in Seq(Nat) /\ Len(f.tensors[<<Top, "token_embd">>]) \in 2 .. 3
    BY DEF FileTyped, Has
  <2> QED
    BY <2>1 DEF GgufDim, Cols, Shape
<1>3. GgufHeads(f) \in Int /\ GgufHeads(f) > 0
  BY <1>1 DEF GgufHeads, Positive
<1>4. GgufKvHeads(f) \in Int
  BY <1>1, <1>3 DEF GgufKvHeads, Positive
<1>5. GgufHeadDim(f) \in Int
  <2>1. Positive(f.kv.embedding_length, GgufDim(f)) \in Int
    BY <1>1, <1>2 DEF Positive
  <2>2. Positive(f.kv.embedding_length, GgufDim(f)) \div GgufHeads(f) \in Int
    BY <1>3, <2>1
  <2> QED
    BY <1>1, <2>2 DEF GgufHeadDim, Positive
<1> QED
  BY <1>3, <1>4, <1>5 DEF QDim, KvDim

(* A packed q, k and v. *)
LEMMA FusedQuiet ==
    ASSUME NEW f, FileTyped(f), f.fmt = "gguf", Has(f, Top, "token_embd"), NEW l, Made(f, l), ~ IsMla(f, l)
    PROVE  Quiet(f, FusedNodes(f, l)) /\ Writes(FusedNodes(f, l), <<l, "v">>)
<1> DEFINE q     == QDim(f)
           kv    == KvDim(f)
           total == q + 2 * kv
           qkv   == IF Has(f, l, "attn_qkv_bias") THEN <<l, "qkv">> ELSE <<l, "qkv_proj">>
           s1    == << MatMul(<<l, "n1">>, <<l, "attn_qkv">>, <<l, "qkv_proj">>, total) >>
           s2    == Opt(Has(f, l, "attn_qkv_bias"),
                        << Plain("Add", <<<<l, "qkv_proj">>, <<l, "attn_qkv_bias">>>>, <<l, "qkv">>, total) >>)
           nq    == Slice(qkv, <<l, "q">>, 0, q)
           nk    == Slice(qkv, <<l, "k">>, q, q + kv)
           nv    == Slice(qkv, <<l, "v">>, q + kv, total)
<1>1. FusedNodes(f, l) = s1 \o s2 \o <<nq, nk, nv>>
  BY DEF FusedNodes
<1>2. /\ "qkv_proj" \notin KvNames(f) /\ "qkv" \notin KvNames(f) /\ "q" \notin KvNames(f)
      /\ "k" \notin KvNames(f)
  BY GgufNames
<1>3. Quiet(f, s1) /\ Quiet(f, s2)
  BY <1>2, OneNode
<1>4. total - (q + kv) = ValueWidth(f, l)
  BY GgufWidths DEF ValueWidth
<1> HIDE DEF q, kv, total, qkv
<1>5. Calm(f, nq) /\ Calm(f, nk)
  BY <1>2, CalmNodes
<1>6. Calm(f, nv) /\ nv.out = <<l, "v">>
  BY <1>4, CalmValues, NodeIs
<1> HIDE DEF s1, s2, nq, nk, nv
<1>7. Quiet(f, <<nq, nk, nv>>) /\ Writes(<<nq, nk, nv>>, <<l, "v">>)
  BY <1>5, <1>6, QuietLists, Lists DEF Writes
<1>8. Quiet(f, s1 \o s2)
  BY <1>3, QuietConcat
<1>9. Quiet(f, s1 \o s2 \o <<nq, nk, nv>>) /\ Writes(s1 \o s2 \o <<nq, nk, nv>>, <<l, "v">>)
  BY <1>7, <1>8, QuietConcat, WritesConcat
<1> QED
  BY <1>1, <1>9

(* q, k and v of their own, each with its bias if there is one. *)
LEMMA SplitQuiet ==
    ASSUME NEW f, f.fmt = "gguf", NEW l, Made(f, l), ~ IsMla(f, l)
    PROVE  Quiet(f, SplitNodes(f, l)) /\ Writes(SplitNodes(f, l), <<l, "v">>)
<1> DEFINE x(bias, proj, out) == IF Has(f, l, bias) THEN <<l, proj>> ELSE <<l, out>>
           m(w, bias, proj, out, width) == MatMul(<<l, "n1">>, <<l, w>>, x(bias, proj, out), width)
           a(bias, proj, out, width) == Plain("Add", <<x(bias, proj, out), <<l, bias>>>>, <<l, out>>, width)
           P(w, bias, proj, out, width) == Projection(f, l, w, bias, proj, out, width)
<1>1. ASSUME NEW w, NEW bias, NEW proj, NEW out, NEW width, proj \notin KvNames(f),
             out \notin KvNames(f) \/ width = ValueWidth(f, l)
      PROVE  Quiet(f, P(w, bias, proj, out, width)) /\ Writes(P(w, bias, proj, out, width), <<l, out>>)
  <2> DEFINE nm == m(w, bias, proj, out, width)
             na == a(bias, proj, out, width)
  <2>1. P(w, bias, proj, out, width) = <<nm>> \o Opt(Has(f, l, bias), <<na>>)
    BY DEF Projection
  <2>2. na.out = <<l, out>> /\ nm.out = x(bias, proj, out)
    BY NodeIs
  <2>3. Calm(f, na) /\ Calm(f, nm)
    <3>1. CASE out \notin KvNames(f)
      BY <1>1, <3>1, CalmNodes
    <3>2. CASE width = ValueWidth(f, l)
      BY <3>2, CalmValues
    <3> QED
      BY <1>1, <3>1, <3>2
  <2>4. Has(f, l, bias) \/ nm.out = <<l, out>>
    BY <2>2
  <2> HIDE DEF nm, na
  <2>5. Quiet(f, <<nm>>) /\ Quiet(f, <<na>>) /\ ToSet(<<nm>>) = {nm} /\ ToSet(<<na>>) = {na}
    BY <2>3, QuietLists, Lists
  <2>6. Quiet(f, Opt(Has(f, l, bias), <<na>>))
    BY <2>5, OptQuiet
  <2>7. Writes(<<nm>>, <<l, out>>) \/ Writes(Opt(Has(f, l, bias), <<na>>), <<l, out>>)
    BY <2>2, <2>4, <2>5 DEF Writes, Opt
  <2> DEFINE o == Opt(Has(f, l, bias), <<na>>)
             p == P(w, bias, proj, out, width)
  <2> HIDE DEF o, p
  <2>8. Quiet(f, <<nm>> \o o) /\ Writes(<<nm>> \o o, <<l, out>>)
    BY <2>5, <2>6, <2>7, QuietConcat, WritesConcat DEF o
  <2>9. p = <<nm>> \o o
    BY <2>1 DEF o, p
  <2> QED
    BY <2>8, <2>9 DEF p
<1>2. /\ "q_proj" \notin KvNames(f) /\ "k_proj" \notin KvNames(f) /\ "v_proj" \notin KvNames(f)
      /\ "q" \notin KvNames(f) /\ "k" \notin KvNames(f) /\ KvDim(f) = ValueWidth(f, l)
  BY GgufNames DEF ValueWidth
<1> DEFINE sq == P("attn_q", "attn_q_bias", "q_proj", "q", QDim(f))
           sk == P("attn_k", "attn_k_bias", "k_proj", "k", KvDim(f))
           sv == P("attn_v", "attn_v_bias", "v_proj", "v", KvDim(f))
<1>3. SplitNodes(f, l) = sq \o sk \o sv
  BY DEF SplitNodes
<1> HIDE DEF P
<1>4. Quiet(f, sq) /\ Quiet(f, sk) /\ Quiet(f, sv) /\ Writes(sv, <<l, "v">>)
  BY <1>1, <1>2
<1> HIDE DEF sq, sk, sv
<1>5. Quiet(f, sq \o sk)
  BY <1>4, QuietConcat
<1>6. Quiet(f, sq \o sk \o sv) /\ Writes(sq \o sk \o sv, <<l, "v">>)
  BY <1>4, <1>5, QuietConcat, WritesConcat
<1> QED
  BY <1>3, <1>6

(* The feed-forward part, dense or of experts. *)
LEMMA FfnQuiet == ASSUME NEW f, f.fmt = "gguf", NEW l PROVE Quiet(f, FfnNodes(f, l))
<1>1. \A nm \in {"ff_merged", "resid2", "up", "up_act", "ff_out", "n2"} : nm \notin KvNames(f)
  BY GgufNames
<1>2. \A x : Quiet(f, MoeNodes(f, l, x))
  <2> TAKE x
  <2>1. \A c, ws, inter, dim, a, z :
            Quiet(f, Opt(c, GatedMlp(x, ws, <<<<l, "shexp_gate">>, <<l, "shexp_up">>, <<l, "shexp_act">>,
                                              <<l, "shexp_hid">>, <<l, "shexp_out">>>>, "Silu", inter, dim, TRUE)
                            \o <<Plain("Add", a, <<l, "ff_merged">>, z)>>))
    <3> TAKE c, ws, inter, dim, a, z
    <3> DEFINE G == GatedMlp(x, ws, <<<<l, "shexp_gate">>, <<l, "shexp_up">>, <<l, "shexp_act">>,
                                      <<l, "shexp_hid">>, <<l, "shexp_out">>>>, "Silu", inter, dim, TRUE)
               A == <<Plain("Add", a, <<l, "ff_merged">>, z)>>
    <3>1. {"shexp_gate", "shexp_up", "shexp_act", "shexp_hid", "shexp_out"} \cap Operands = {}
      BY DEF Operands
    <3>2. Quiet(f, G)
      BY <3>1, BlocksQuiet
    <3>3. Quiet(f, A)
      BY <1>1, OneNode
    <3> HIDE DEF G, A
    <3>4. Quiet(f, Opt(c, G \o A))
      BY <3>2, <3>3, QuietConcat, OptQuiet
    <3> QED
      BY <3>4 DEF G, A
  <2>2. \A a, z : Quiet(f, <<Plain("Add", a, <<l, "resid2">>, z)>>)
    BY <1>1, OneNode
  <2> QED
    BY <2>1, <2>2, BlocksQuiet, QuietConcat, Zenon DEF MoeNodes
<1>3. \A x : Quiet(f, DenseNodes(f, l, x))
  <2> TAKE x
  <2>1. \A a, b, w, aa, ww, aaa, bbb, www :
            Quiet(f, <<MatMul(a, b, <<l, "up">>, w), Plain("Gelu", aa, <<l, "up_act">>, ww),
                       MatMul(aaa, bbb, <<l, "ff_out">>, www)>>)
    BY <1>1, CalmNodes, QuietLists
  <2>2. \A ws, inter, dim :
            Quiet(f, GatedMlp(x, ws, <<<<l, "gate">>, <<l, "up">>, <<l, "gate_act">>, <<l, "ff_hid">>,
                                       <<l, "ff_out">>>>,
                              IF f.arch = "gemma2" THEN "Gelu" ELSE "Silu", inter, dim, TRUE))
    <3>1. {"gate", "up", "gate_act", "ff_hid", "ff_out"} \cap Operands = {}
      BY DEF Operands
    <3>2. (IF f.arch = "gemma2" THEN "Gelu" ELSE "Silu") # "Attention"
      OBVIOUS
    <3> QED
      BY <3>1, <3>2, BlocksQuiet
  <2>3. \A a, z : Quiet(f, <<Plain("Add", a, <<l, "resid2">>, z)>>)
    BY <1>1, OneNode
  <2> QED
    BY <2>1, <2>2, <2>3, QuietConcat, Zenon DEF DenseNodes
<1>4. \A c, ln, x, w, b, hb, dim : Quiet(f, Opt(c, <<NormNode(ln, x, w, b, hb, <<l, "n2">>, dim)>>))
  BY <1>1, OneNode
<1>5. \A x : Quiet(f, IF IsMoe(f, l) THEN MoeNodes(f, l, x) ELSE Opt(HasDense(f, l), DenseNodes(f, l, x)))
  BY <1>2, <1>3, OptQuiet
<1> QED
  BY <1>4, <1>5, QuietConcat, Zenon DEF FfnNodes

-----------------------------------------------------------------------------
(* Attention *)

(* Both nodes rotate in the same way, neither does, or the key is an expansion  *)
(* whose shared part is rotated as the query is.                                 *)
SameRotation(ns, q, k) ==
    \/ q.op = "RoPE" /\ k.op = "RoPE" /\ RopeSpan(q) = RopeSpan(k)
    \/ q.op \notin {"RoPE", "Identity"} /\ k.op \notin {"RoPE", "Identity"}
    \/ /\ q.op = "RoPE" /\ k.op = "Identity"
       /\ \E e, r \in ns : /\ e.op = "MLAExpandK" /\ e.out = k.ins[1] /\ r.out = e.ins[2]
                            /\ RopeSpan(q) = ExpandSpan(e, RopeSpan(r))

AttendsAlike(ns, a) ==
    \E q, k \in ns : q.out = a.ins[1] /\ k.out = a.ins[2] /\ SameRotation(ns, q, k)

(* The key and the value of an attention are as wide as those of its layer.        *)
Sized(f, ns, a) ==
    /\ \E k \in ns : k.out = a.ins[2] /\ k.width = KeyWidth(f, a.attrs.layer)
    /\ \E v \in ns : v.out = a.ins[3] /\ v.width = ValueWidth(f, a.attrs.layer)
    /\ a.ins[2][2] \in Operands /\ a.ins[3][2] \in Operands /\ a.out[2] \notin KvNames(f)

(* It belongs to one of the layers up to top, a GGUF layer that load() builds. *)
Layered(f, a, top) == a.attrs.layer \in 0 .. (top - 1) /\ Made(f, a.attrs.layer)

Attends(f, ns, a, top) ==
    (StatesRotation(f) => AttendsAlike(ns, a)) /\ Sized(f, ns, a) /\ Layered(f, a, top)

(* Every attention of the list is as it should be, and every other node calm. *)
Right(f, s, top) ==
    /\ NodeList(s)
    /\ \A n \in ToSet(s) : IF n.op = "Attention" THEN Attends(f, ToSet(s), n, top) ELSE Calm(f, n)

(* Attentions keep the nodes they refer to when lists are joined. *)
LEMMA RightConcat ==
    ASSUME NEW f, NEW top, NEW s, NEW t, Right(f, s, top), Right(f, t, top)
    PROVE  Right(f, s \o t, top)
<1>1. NodeList(s \o t) /\ ToSet(s \o t) = ToSet(s) \cup ToSet(t)
  BY ConcatIs DEF Right
<1>2. ASSUME NEW a \in ToSet(s \o t), a.op = "Attention" PROVE Attends(f, ToSet(s \o t), a, top)
  <2>1. Attends(f, ToSet(s), a, top) \/ Attends(f, ToSet(t), a, top)
    BY <1>1, <1>2 DEF Right
  <2>2. ToSet(s) \subseteq ToSet(s \o t) /\ ToSet(t) \subseteq ToSet(s \o t)
    BY <1>1
  <2>3. ASSUME NEW ns, ns \subseteq ToSet(s \o t), Attends(f, ns, a, top)
        PROVE  Attends(f, ToSet(s \o t), a, top)
    <3>1. AttendsAlike(ns, a) => AttendsAlike(ToSet(s \o t), a)
      BY <2>3 DEF AttendsAlike, SameRotation
    <3>2. Sized(f, ns, a) => Sized(f, ToSet(s \o t), a)
      BY <2>3 DEF Sized
    <3> QED
      BY <2>3, <3>1, <3>2 DEF Attends
  <2> QED
    BY <2>1, <2>2, <2>3
<1>3. ASSUME NEW n \in ToSet(s \o t), n.op # "Attention" PROVE Calm(f, n)
  BY <1>1, <1>3 DEF Right
<1> QED
  BY <1>1, <1>2, <1>3 DEF Right

(* A quiet list has no attention to be wrong. *)
LEMMA QuietRight == ASSUME NEW f, NEW top, NEW s, Quiet(f, s) PROVE Right(f, s, top)
BY DEF Quiet, Right, Calm

(* An attention among calm nodes is enough. *)
LEMMA OneAttention ==
    ASSUME NEW f, NEW top, NEW s, NodeList(s), NEW a \in ToSet(s), a.op = "Attention",
           Attends(f, ToSet(s), a, top), \A n \in ToSet(s) \ {a} : Calm(f, n)
    PROVE  Right(f, s, top)
BY DEF Right, Calm

(* The next layer does not disturb those before. *)
LEMMA RightLater ==
    ASSUME NEW f, NEW top \in Nat, NEW s, Right(f, s, top)
    PROVE  Right(f, s, top + 1)
<1>1. \A a : Layered(f, a, top) => Layered(f, a, top + 1)
  BY DEF Layered
<1> QED
  BY <1>1 DEF Right, Attends

(* The rotated part of an assembled key: that of the query. *)
LEMMA AssembledRotation ==
    ASSUME NEW f, FileTyped(f), f.fmt = "gguf", StatesRotation(f), NEW l,
           IsMla(f, l), ~ IncompleteMla(f, l), MlaDims(f, l).assemble,
           ~ MlaRefused(f, l, MlaDims(f, l)),
           NEW q, NEW e, NEW r,
           q.attrs = GgufRopeAttrs(f, l, MlaDims(f, l).head),
           e.attrs = [heads |-> GgufHeads(f), nope |-> MlaDims(f, l).nope, rope |-> MlaDims(f, l).rope],
           r.attrs = [head_dim |-> MlaDims(f, l).rope, rotary |-> MlaDims(f, l).rope, leading |-> FALSE,
                      mode |-> RopeMode(f), scale |-> "none"]
    PROVE  RopeSpan(q) = ExpandSpan(e, RopeSpan(r)) /\ ~ Has(f, l, "attn_k_norm")
<1> DEFINE d == MlaDims(f, l)
<1>1. f.kv.qk_rope > 0 /\ f.kv.qk_rope \in Int /\ f.kv.scaling = "none" /\ ~ Has(f, l, "attn_k_norm")
  <2>1. <<l, "attn_k_b">> \in DOMAIN f.tensors /\ <<l, "attn_k_b">>[1] = l
    BY DEF IsMla, Has
  <2>2. l \in {t[1] : t \in DOMAIN f.tensors}
    BY <2>1
  <2> QED
    BY <2>2 DEF StatesRotation, FileTyped
<1>2. d.rope = f.kv.qk_rope
  BY <1>1 DEF MlaDims, Positive
<1>3. d.nope \in Int
  <2>1. GgufHeads(f) \in Int /\ GgufHeads(f) > 0
    BY DEF FileTyped, GgufHeads, Positive
  <2>2. Rows(f, l, "attn_k_b") \in Nat
    <3>1. <<l, "attn_k_b">> \in DOMAIN f.tensors
      BY DEF IsMla, Has
    <3>2. Shape(f, l, "attn_k_b") \in Seq(Nat) /\ Len(Shape(f, l, "attn_k_b")) \in 2 .. 3
      BY <3>1 DEF Shape, FileTyped
    <3> QED
      BY <3>2 DEF Rows
  <2>3. d.nope = Positive(f.kv.qk_nope, IF Rows(f, l, "attn_k_b") % GgufHeads(f) = 0
                                       THEN Rows(f, l, "attn_k_b") \div GgufHeads(f) ELSE 0)
    BY DEF MlaDims
  <2>4. f.kv.qk_nope \in Int
    BY DEF FileTyped
  <2> QED
    BY <2>1, <2>2, <2>3, <2>4 DEF Positive
<1>4. d.nope > 0
  BY <1>3 DEF MlaRefused
<1>5. d.head = d.nope + d.rope
  BY Zenon DEF MlaDims
<1> HIDE DEF d
<1>6. d.head > f.kv.qk_rope
  BY <1>1, <1>2, <1>3, <1>4, <1>5
<1>7. /\ q.attrs.head_dim = d.head /\ q.attrs.leading = FALSE /\ q.attrs.mode = RopeMode(f)
      /\ q.attrs.scale = "none" /\ q.attrs.rotary = d.rope
  BY <1>1, <1>2, <1>6 DEF GgufRopeAttrs, d
<1>8. d.head - d.rope = d.nope /\ (d.rope - d.rope) + d.nope = d.nope
  BY <1>1, <1>2, <1>3, <1>5
<1>9. RopeSpan(q) = {[from |-> d.nope, length |-> d.rope, mode |-> RopeMode(f), scale |-> "none"]}
  BY <1>7, <1>8 DEF RopeSpan
<1>10. RopeSpan(r) = {[from |-> d.rope - d.rope, length |-> d.rope, mode |-> RopeMode(f), scale |-> "none"]}
  BY DEF RopeSpan, d
<1>11. e.attrs.nope = d.nope
  BY DEF d
<1>12. ExpandSpan(e, RopeSpan(r)) = {[from |-> d.nope, length |-> d.rope, mode |-> RopeMode(f), scale |-> "none"]}
  BY <1>8, <1>10, <1>11 DEF ExpandSpan
<1> QED
  BY <1>1, <1>9, <1>12

(* Every layer of a GGUF file, whichever of its three forms of q, k and v. *)
LEMMA GgufLayerRight ==
    ASSUME NEW f, FileTyped(f), f.fmt = "gguf", Has(f, Top, "token_embd"), NEW l \in Nat, NEW x,
           GgufLayer(f, l, x).verdict = "layer"
    PROVE  Right(f, GgufLayer(f, l, x).nodes, l + 1)
<1> DEFINE m     == MlaDims(f, l)
           d     == AttnDims(f, l, m)
           norm1 == NormNode(UseLayerNorm(f), x, <<l, "attn_norm">>, <<l, "attn_norm_bias">>,
                             Has(f, l, "attn_norm_bias"), <<l, "n1">>, GgufDim(f))
           qkv   == IF IsMla(f, l) THEN MlaNodes(f, l, m)
                    ELSE IF Has(f, l, "attn_qkv") THEN FusedNodes(f, l) ELSE SplitNodes(f, l)
           att   == AttentionNodes(f, l, x, d)
           ffn   == FfnNodes(f, l)
           s     == <<norm1>> \o qkv \o att \o ffn
<1>1. /\ GgufLayer(f, l, x).nodes = s /\ Buildable(f, l) /\ Made(f, l)
      /\ IsMla(f, l) => ~ MlaRefused(f, l, m)
  BY DEF GgufLayer, Buildable, Made
<1>2. Quiet(f, <<norm1>>) /\ Quiet(f, qkv) /\ Quiet(f, ffn) /\ Writes(qkv, <<l, "v">>)
  <2>1. Quiet(f, <<norm1>>)
    BY GgufNames, OneNode
  <2>2. IsMla(f, l) => Quiet(f, qkv) /\ Writes(qkv, <<l, "v">>)
    BY <1>1, MlaQuiet DEF ValueWidth
  <2>3. ~ IsMla(f, l) => Quiet(f, qkv) /\ Writes(qkv, <<l, "v">>)
    BY <1>1, FusedQuiet, SplitQuiet
  <2> QED
    BY <2>1, <2>2, <2>3, FfnQuiet
<1> DEFINE k0 == IF d.assembled THEN <<l, "k_full">> ELSE <<l, "k">>
           tq == IF Has(f, l, "attn_q_norm") THEN <<l, "q_n">> ELSE <<l, "q">>
           tk == IF Has(f, l, "attn_k_norm") THEN <<l, "k_n">> ELSE k0
           o1 == Opt(Has(f, l, "attn_q_norm"),
                     << Plain("RMSNorm", <<<<l, "q">>, <<l, "attn_q_norm">>>>, <<l, "q_n">>, d.q) >>)
           o2 == Opt(Has(f, l, "attn_k_norm"),
                     << Plain("RMSNorm", <<k0, <<l, "attn_k_norm">>>>, <<l, "k_n">>, d.k) >>)
           nq == Rope(tq, <<l, "q_rope">>, d.q, GgufRopeAttrs(f, l, d.head))
           nk == IF d.assembled THEN Plain("Identity", <<tk>>, <<l, "k_rope">>, d.k)
                 ELSE Rope(tk, <<l, "k_rope">>, d.k, GgufRopeAttrs(f, l, d.head))
           na == Attention(<<l, "q_rope">>, <<l, "k_rope">>, <<l, "v">>, <<l, "attn">>, d.out, GgufHeads(f), l)
           no == MatMul(<<l, "attn">>, <<l, "attn_output">>, <<l, "attn_o">>, GgufDim(f))
           nr == Plain("Add", <<x, <<l, "attn_o">>>>, <<l, "resid1">>, GgufDim(f))
<1>3. att = o1 \o o2 \o <<nq, nk, na, no, nr>>
  BY DEF AttentionNodes
<1>4. Quiet(f, o1) /\ Quiet(f, o2)
  BY GgufNames, OneNode
<1>5. /\ nq.op = "RoPE" /\ nq.out = <<l, "q_rope">> /\ nq.attrs = GgufRopeAttrs(f, l, d.head)
      /\ nk.out = <<l, "k_rope">>
      /\ na.op = "Attention" /\ na.ins[1] = <<l, "q_rope">> /\ na.ins[2] = <<l, "k_rope">>
      /\ na.ins[3] = <<l, "v">> /\ na.out = <<l, "attn">> /\ na.attrs.layer = l
  BY NodeIs DEF Rope, Plain, Attention, AddNode
<1>6. ~ d.assembled => nk.op = "RoPE" /\ nk.attrs = GgufRopeAttrs(f, l, d.head)
  BY NodeIs DEF Rope
<1>7. d.assembled => nk.op = "Identity" /\ nk.ins[1] = tk
  BY NodeIs DEF Plain
<1>8. Calm(f, nq) /\ Calm(f, nk) /\ Calm(f, no) /\ Calm(f, nr)
  <2>1. "q_rope" \notin KvNames(f) /\ "k_rope" \notin KvNames(f) /\ "attn_o" \notin KvNames(f)
        /\ "resid1" \notin KvNames(f)
    BY GgufNames
  <2>2. Calm(f, nq) /\ Calm(f, no)
    BY <2>1, CalmNodes
  <2>3. Calm(f, nk)
    BY <2>1, CalmNodes
  <2>4. Calm(f, nr)
    BY <2>1, CalmNodes
  <2> QED
    BY <2>2, <2>3, <2>4
<1>9. d.assembled => IsMla(f, l) /\ m.assemble /\ d.head = m.head
  BY DEF AttnDims
<1>10. /\ NodeList(s)
       /\ ToSet(s) = {norm1} \cup ToSet(qkv) \cup (ToSet(o1) \cup ToSet(o2) \cup {nq, nk, na, no, nr}) \cup ToSet(ffn)
  <2> HIDE DEF norm1, qkv, att, ffn, o1, o2, nq, nk, na, no, nr
  <2>1. NodeList(<<nq, nk, na, no, nr>>) /\ ToSet(<<nq, nk, na, no, nr>>) = {nq, nk, na, no, nr}
    BY Lists
  <2>2. NodeList(att) /\ ToSet(att) = ToSet(o1) \cup ToSet(o2) \cup {nq, nk, na, no, nr}
    <3>1. NodeList(o1 \o o2) /\ ToSet(o1 \o o2) = ToSet(o1) \cup ToSet(o2)
      BY <1>4, ConcatIs DEF Quiet
    <3> DEFINE o == o1 \o o2
               L == <<nq, nk, na, no, nr>>
    <3> HIDE DEF o, L
    <3>2. NodeList(o \o L) /\ ToSet(o \o L) = ToSet(o) \cup ToSet(L)
      BY <2>1, <3>1, ConcatIs DEF o, L
    <3>3. att = o \o L
      BY <1>3 DEF o, L
    <3> QED
      BY <2>1, <3>1, <3>2, <3>3 DEF o, L
  <2>3. NodeList(<<norm1>>) /\ ToSet(<<norm1>>) = {norm1}
    BY Lists
  <2>4. NodeList(<<norm1>> \o qkv) /\ ToSet(<<norm1>> \o qkv) = {norm1} \cup ToSet(qkv)
    BY <1>2, <2>3, ConcatIs DEF Quiet
  <2>5. NodeList(<<norm1>> \o qkv \o att)
        /\ ToSet(<<norm1>> \o qkv \o att) = {norm1} \cup ToSet(qkv) \cup ToSet(att)
    BY <2>2, <2>4, ConcatIs
  <2>6. NodeList(s) /\ ToSet(s) = {norm1} \cup ToSet(qkv) \cup ToSet(att) \cup ToSet(ffn)
    BY <1>2, <2>5, ConcatIs DEF Quiet
  <2> QED
    BY <2>2, <2>6
<1> HIDE DEF s
<1>11. StatesRotation(f) => SameRotation(ToSet(s), nq, nk)
  <2> SUFFICES ASSUME StatesRotation(f) PROVE SameRotation(ToSet(s), nq, nk)
    OBVIOUS
  <2>1. CASE ~ d.assembled
    <3>1. nk.op = "RoPE" /\ nk.attrs = nq.attrs
      BY <1>5, <1>6, <2>1
    <3> HIDE DEF nq, nk, s
    <3>2. RopeSpan(nq) = RopeSpan(nk)
      BY <3>1 DEF RopeSpan
    <3> QED
      BY <1>5, <3>1, <3>2 DEF SameRotation
  <2>2. CASE d.assembled
    <3> DEFINE r == Rope(<<l, "k_pe">>, <<l, "k_pe_rope">>, m.rope,
                         [head_dim |-> m.rope, rotary |-> m.rope, leading |-> FALSE,
                          mode |-> RopeMode(f), scale |-> "none"])
               e == AddNode("MLAExpandK", <<<<l, "k">>, <<l, "k_pe_rope">>>>, <<l, "k_full">>, m.q,
                            [heads |-> GgufHeads(f), nope |-> m.nope, rope |-> m.rope])
               c == Slice(<<l, "kvc">>, <<l, "k_pe">>, m.latent, m.latent + m.rope)
    <3>1. IsMla(f, l) /\ m.assemble /\ d.head = m.head /\ ~ MlaRefused(f, l, m) /\ ~ IncompleteMla(f, l)
      BY <1>1, <1>9, <2>2 DEF Buildable
    <3>2. MlaAssembleNodes(f, l, m) = <<c, r, e>>
      BY DEF MlaAssembleNodes
    <3>3. r \in ToSet(qkv) /\ e \in ToSet(qkv)
      <4> DEFINE p == MlaQNodes(f, l, m) \o MlaKvNodes(f, l, m)
      <4> HIDE DEF c, r, e, m, d
      <4>1. qkv = p \o <<c, r, e>>
        BY <3>1, <3>2 DEF MlaNodes, Opt
      <4>2. Quiet(f, p)
        BY <1>1, <3>1, MlaPartsQuiet, QuietConcat DEF ValueWidth, m
      <4>3. NodeList(<<c, r, e>>) /\ ToSet(<<c, r, e>>) = {c, r, e}
        BY Lists
      <4> HIDE DEF p, qkv
      <4>4. ToSet(qkv) = ToSet(p) \cup {c, r, e}
        BY <4>1, <4>2, <4>3, ConcatIs DEF Quiet
      <4> QED
        BY <4>4
    <3>4. /\ e.op = "MLAExpandK" /\ e.out = <<l, "k_full">> /\ r.out = e.ins[2]
          /\ e.attrs = [heads |-> GgufHeads(f), nope |-> m.nope, rope |-> m.rope]
          /\ r.attrs = [head_dim |-> m.rope, rotary |-> m.rope, leading |-> FALSE,
                        mode |-> RopeMode(f), scale |-> "none"]
      BY NodeIs DEF Rope, AddNode
    <3> HIDE DEF r, e, c, m, d, nq, nk, qkv
    <3>5. RopeSpan(nq) = ExpandSpan(e, RopeSpan(r)) /\ ~ Has(f, l, "attn_k_norm")
      BY <1>1, <1>5, <3>1, <3>4, AssembledRotation DEF m
    <3>6. nk.ins[1] = <<l, "k_full">> /\ nk.op = "Identity"
      BY <1>7, <2>2, <3>5
    <3>7. r \in ToSet(s) /\ e \in ToSet(s)
      BY <1>10, <3>3
    <3> QED
      BY <1>5, <3>4, <3>5, <3>6, <3>7 DEF SameRotation
  <2> QED
    BY <2>1, <2>2
<1> HIDE DEF norm1, qkv, att, ffn, o1, o2, nq, nk, na, no, nr
<1>12. nq \in ToSet(s) /\ nk \in ToSet(s) /\ na \in ToSet(s)
  BY <1>10
<1>13. nk.width = KeyWidth(f, l)
  <2>1. nk.width = d.k
    BY NodeIs DEF nk
  <2>2. d.k = KeyWidth(f, l)
    <3>1. CASE ~ IsMla(f, l)
      BY <3>1 DEF AttnDims, KeyWidth
    <3>2. CASE IsMla(f, l)
      <4>1. m.assemble <=> m.q # m.k
        BY Zenon DEF MlaDims
      <4>2. d.k = IF m.assemble THEN m.q ELSE m.k
        BY <3>2 DEF AttnDims
      <4> QED
        BY <3>2, <4>1, <4>2 DEF KeyWidth
    <3> QED
      BY <3>1, <3>2
  <2> QED
    BY <2>1, <2>2
<1>14. PICK v \in ToSet(qkv) : v.out = <<l, "v">> /\ v.width = ValueWidth(f, l)
  <2>1. PICK v \in ToSet(qkv) : v.out = <<l, "v">>
    BY <1>2 DEF Writes
  <2>2. Calm(f, v) /\ "v" \in KvNames(f)
    BY <1>2 DEF Quiet, KvNames
  <2> QED
    BY <2>1, <2>2 DEF Calm
<1>15. Sized(f, ToSet(s), na)
  <2>1. v \in ToSet(s) /\ "attn" \notin KvNames(f)
    BY <1>10, <1>14, GgufNames
  <2> QED
    BY <1>5, <1>12, <1>13, <1>14, <2>1 DEF Sized, Operands
<1>16. Attends(f, ToSet(s), na, l + 1)
  <2>1. StatesRotation(f) => AttendsAlike(ToSet(s), na)
    BY <1>5, <1>11, <1>12 DEF AttendsAlike
  <2> QED
    BY <1>1, <1>5, <1>15, <2>1 DEF Attends, Layered
<1>17. \A n \in ToSet(s) \ {na} : Calm(f, n)
  <2>1. Calm(f, norm1)
    BY <1>2, Lists DEF Quiet
  <2> QED
    BY <1>2, <1>4, <1>8, <1>10, <2>1 DEF Quiet
<1> QED
  BY <1>1, <1>5, <1>10, <1>12, <1>16, <1>17, OneAttention

-----------------------------------------------------------------------------
(* A layer of a Hugging Face directory *)

HfOpened(f) == FileTyped(f) /\ f.fmt = "hf" /\ ~ HfRefused(f)

(* What load() has looked at before the layers: widths are known and positive. *)
LEMMA HfWidths ==
    ASSUME NEW f, HfOpened(f)
    PROVE  HfQDim(f) \in Int /\ HfKvDim(f) \in Int /\ HfKvDim(f) > 0 /\ f.json.act \in KnownActs
<1>1. /\ f.json.hidden \in Nat /\ f.json.heads \in Nat /\ f.json.kv_heads \in Nat /\ f.json.head_dim \in Nat
  BY DEF HfOpened, FileTyped
<1>2. /\ f.json.heads # 0 /\ f.json.act \in KnownActs
      /\ ~ (f.json.head_dim = 0 /\ f.json.hidden \div f.json.heads = 0)
  BY DEF HfOpened, HfRefused, HfRefusesConfig
<1>3. f.json.hidden \div f.json.heads \in Nat
  BY <1>1, <1>2
<1>4. HfHeadDim(f) \in Nat /\ HfHeadDim(f) > 0
  BY <1>1, <1>2, <1>3 DEF HfHeadDim
<1>5. HfKvHeads(f) \in Nat /\ HfKvHeads(f) > 0
  BY <1>1, <1>2 DEF HfKvHeads
<1>6. \A a, b \in Nat : a > 0 /\ b > 0 => a * b \in Nat /\ a * b > 0
  OBVIOUS
<1>7. HfKvHeads(f) * HfHeadDim(f) \in Nat /\ HfKvHeads(f) * HfHeadDim(f) > 0
  BY <1>4, <1>5, <1>6
<1>8. f.json.heads * HfHeadDim(f) \in Int
  BY <1>1, <1>4
<1> QED
  BY <1>2, <1>7, <1>8 DEF HfKvDim, HfQDim

(* Only what attention reads has a width of its own. *)
LEMMA HfNames ==
    ASSUME NEW f, f.fmt = "hf"
    PROVE  KvNames(f) = Operands /\ \A l : KeyWidth(f, l) = HfKvDim(f) /\ ValueWidth(f, l) = HfKvDim(f)
BY DEF KvNames, KeyWidth, ValueWidth

(* The list computes t, without rotating it. *)
Unrotated(s, t) == \E n \in ToSet(s) : n.out = t /\ n.op \notin {"RoPE", "Identity"}

(* What one of two lists computes is computed when they are joined. *)
LEMMA UnrotatedConcat ==
    ASSUME NEW f, NEW s, NEW t, Quiet(f, s), Quiet(f, t), NEW x, Unrotated(s, x) \/ Unrotated(t, x)
    PROVE  Unrotated(s \o t, x)
BY ConcatIs DEF Unrotated, Quiet

(* A projection and its bias. *)
LEMMA BiasedIs ==
    ASSUME NEW f, NEW l, NEW y, NEW w, NEW x, NEW width, NEW tb, NEW b, NEW out,
           (x \notin KvNames(f) /\ out \notin KvNames(f)) \/ (width = ValueWidth(f, l) /\ Made(f, l))
    PROVE  LET s == <<Project(y, w, <<l, x>>, width, tb)>> \o Biased(<<l, x>>, b, <<l, out>>, width)
           IN  Quiet(f, s) /\ Unrotated(s, AfterBias(<<l, x>>, b, <<l, out>>))
<1> DEFINE p == Project(y, w, <<l, x>>, width, tb)
           a == Plain("Add", <<<<l, x>>, b>>, <<l, out>>, width)
           B == Biased(<<l, x>>, b, <<l, out>>, width)
           t == AfterBias(<<l, x>>, b, <<l, out>>)
<1>1. /\ p.op = "MatMul" /\ p.out = <<l, x>> /\ a.op = "Add" /\ a.out = <<l, out>>
  BY NodeIs DEF Project, Plain
<1>2. B = Opt(Present(b), <<a>>)
  BY DEF Biased
<1>3. Calm(f, p) /\ Calm(f, a)
  <2>1. CASE x \notin KvNames(f) /\ out \notin KvNames(f)
    BY <2>1, CalmNodes
  <2>2. CASE width = ValueWidth(f, l) /\ Made(f, l)
    BY <2>2, CalmValues
  <2> QED
    BY <2>1, <2>2
<1>4. t = IF Present(b) THEN <<l, out>> ELSE <<l, x>>
  BY DEF AfterBias
<1> HIDE DEF p, a, B, t
<1>5. Quiet(f, <<p>>) /\ ToSet(<<p>>) = {p} /\ Quiet(f, <<a>>) /\ ToSet(<<a>>) = {a}
  BY <1>3, QuietLists, Lists
<1>6. Quiet(f, B)
  BY <1>2, <1>5, OptQuiet
<1>7. Unrotated(<<p>>, t) \/ Unrotated(B, t)
  <2>1. CASE Present(b)
    BY <1>1, <1>2, <1>4, <1>5, <2>1 DEF Opt, Unrotated
  <2>2. CASE ~ Present(b)
    BY <1>1, <1>4, <1>5, <2>2 DEF Unrotated
  <2> QED
    BY <2>1, <2>2
<1>8. Quiet(f, <<p>> \o B) /\ Unrotated(<<p>> \o B, t)
  BY <1>5, <1>6, <1>7, QuietConcat, UnrotatedConcat
<1> QED
  BY <1>8 DEF p, B, t

(* The list computes q, k and v of a layer, and k and v under one of their names. *)
GivesQkv(f, l, s, qkv) ==
    /\ Quiet(f, s) /\ \A i \in 1 .. 3 : Unrotated(s, qkv[i])
    /\ qkv[2] \in {<<l, "k0">>, <<l, "k_b">>, <<l, "k">>}
    /\ qkv[3] \in {<<l, "v0">>, <<l, "v_b">>, <<l, "v">>}

(* So do the projections of a layer, split or packed. *)
LEMMA HfQkvIs ==
    ASSUME NEW f, HfOpened(f), NEW l, NEW L
    PROVE  GivesQkv(f, l, IF L.attn.split THEN HfSplit(f, l, L) ELSE HfFused(f, l, L), HfQkv(f, l, L))
<1>1. f.fmt = "hf" /\ KvNames(f) = Operands /\ ValueWidth(f, l) = HfKvDim(f)
  BY HfNames DEF HfOpened
<1>2. CASE L.attn.split
  <2> DEFINE One(w, x, out, width) ==
                 << Project(<<l, "n1">>, Ref(f, l, w), <<l, x>>, width, ~ L.conv1d) >>
                 \o Biased(<<l, x>>, SplitBias(f, l, L, w), <<l, out>>, width)
             q == One(L.attn.q, "q0", "q_b", HfQDim(f))
             k == One(L.attn.k, "k0", "k_b", HfKvDim(f))
             v == One(L.attn.v, "v0", "v_b", HfKvDim(f))
             tq == AfterBias(<<l, "q0">>, SplitBias(f, l, L, L.attn.q), <<l, "q_b">>)
             tk == AfterBias(<<l, "k0">>, SplitBias(f, l, L, L.attn.k), <<l, "k_b">>)
             tv == AfterBias(<<l, "v0">>, SplitBias(f, l, L, L.attn.v), <<l, "v_b">>)
  <2>1. HfSplit(f, l, L) = q \o k \o v
    BY DEF HfSplit
  <2>2. HfQkv(f, l, L) = <<tq, tk, tv>>
    BY <1>2 DEF HfQkv
  <2>3. "q0" \notin KvNames(f) /\ "q_b" \notin KvNames(f)
    BY <1>1 DEF Operands
  <2>4. Quiet(f, q) /\ Unrotated(q, tq)
    BY <2>3, BiasedIs
  <2>5. Quiet(f, k) /\ Unrotated(k, tk)
    BY <1>1, BiasedIs DEF HfOpened, Made
  <2>6. Quiet(f, v) /\ Unrotated(v, tv)
    BY <1>1, BiasedIs DEF HfOpened, Made
  <2>7. tk \in {<<l, "k0">>, <<l, "k_b">>} /\ tv \in {<<l, "v0">>, <<l, "v_b">>}
    BY DEF AfterBias
  <2> HIDE DEF q, k, v, tq, tk, tv
  <2>8. Quiet(f, q \o k) /\ Unrotated(q \o k, tq) /\ Unrotated(q \o k, tk)
    BY <2>4, <2>5, QuietConcat, UnrotatedConcat
  <2>9. /\ Quiet(f, q \o k \o v) /\ Unrotated(q \o k \o v, tq) /\ Unrotated(q \o k \o v, tk)
        /\ Unrotated(q \o k \o v, tv)
    BY <2>6, <2>8, QuietConcat, UnrotatedConcat
  <2> QED
    BY <1>2, <2>1, <2>2, <2>7, <2>9 DEF GivesQkv
<1>3. CASE ~ L.attn.split
  <2> DEFINE q      == HfQDim(f)
             kv     == HfKvDim(f)
             packed == q + 2 * kv
             bias   == SplitBias(f, l, L, L.attn.probe)
             x      == AfterBias(<<l, "qkv">>, bias, <<l, "qkv_b">>)
             p      == << Project(<<l, "n1">>, Ref(f, l, L.attn.probe), <<l, "qkv">>, packed, ~ L.conv1d) >>
                       \o Biased(<<l, "qkv">>, bias, <<l, "qkv_b">>, packed)
             sq     == Slice(x, <<l, "q">>, 0, q)
             sk     == Slice(x, <<l, "k">>, q, q + kv)
             sv     == Slice(x, <<l, "v">>, q + kv, packed)
  <2>1. HfFused(f, l, L) = p \o <<sq, sk, sv>>
    BY DEF HfFused
  <2>2. HfQkv(f, l, L) = <<<<l, "q">>, <<l, "k">>, <<l, "v">>>>
    BY <1>3 DEF HfQkv
  <2>3. "qkv" \notin KvNames(f) /\ "qkv_b" \notin KvNames(f) /\ "q" \notin KvNames(f)
    BY <1>1 DEF Operands
  <2>4. Quiet(f, p)
    BY <2>3, BiasedIs
  <2>5. (q + kv) - q = ValueWidth(f, l) /\ packed - (q + kv) = ValueWidth(f, l)
    BY <1>1, HfWidths
  <2>6. /\ sq.op = "Slice" /\ sk.op = "Slice" /\ sv.op = "Slice"
        /\ sq.out = <<l, "q">> /\ sk.out = <<l, "k">> /\ sv.out = <<l, "v">>
    BY NodeIs DEF Slice
  <2> HIDE DEF q, kv, packed, bias, x, p
  <2>7. Calm(f, sq)
    BY <2>3, CalmNodes
  <2>8. Calm(f, sk) /\ Calm(f, sv)
    BY <2>5, CalmValues DEF HfOpened, Made
  <2> HIDE DEF sq, sk, sv
  <2>9. Quiet(f, <<sq, sk, sv>>) /\ ToSet(<<sq, sk, sv>>) = {sq, sk, sv}
    BY <2>7, <2>8, QuietLists, Lists
  <2>10. /\ Unrotated(<<sq, sk, sv>>, <<l, "q">>) /\ Unrotated(<<sq, sk, sv>>, <<l, "k">>)
         /\ Unrotated(<<sq, sk, sv>>, <<l, "v">>)
    BY <2>6, <2>9 DEF Unrotated
  <2> DEFINE c == <<sq, sk, sv>>
  <2> HIDE DEF c
  <2>11. /\ Quiet(f, p \o c) /\ Unrotated(p \o c, <<l, "q">>) /\ Unrotated(p \o c, <<l, "k">>)
         /\ Unrotated(p \o c, <<l, "v">>)
    BY <2>4, <2>9, <2>10, QuietConcat, UnrotatedConcat DEF c
  <2> QED
    BY <1>3, <2>1, <2>2, <2>11 DEF GivesQkv, c
<1> QED
  BY <1>2, <1>3

(* The attention behind any list that computes q, k and v. *)
LEMMA HfAttentionRight ==
    ASSUME NEW f, HfOpened(f), NEW l \in Nat, NEW L, NEW s, GivesQkv(f, l, s, HfQkv(f, l, L))
    PROVE  Right(f, s \o HfAttention(f, l, L), l + 1)
<1> DEFINE qkv == HfQkv(f, l, L)
           qn  == IF L.q_norm THEN Ref(f, l, "q_norm") ELSE Missing
           kn  == IF L.q_norm /\ Listed(f, 0, "k_norm") THEN Ref(f, l, "k_norm") ELSE Missing
           q   == IF Present(qn) THEN <<l, "q_n">> ELSE qkv[1]
           k   == IF Present(kn) THEN <<l, "k_n">> ELSE qkv[2]
           roped == L.rope /\ HfRopeMode(f) >= 0
           mq  == Plain("RMSNorm", <<qkv[1], qn>>, <<l, "q_n">>, HfQDim(f))
           mk  == Plain("RMSNorm", <<qkv[2], kn>>, <<l, "k_n">>, HfKvDim(f))
           nq  == Rope(q, <<l, "q_rope">>, HfQDim(f), HfRopeAttrs(f))
           nk  == Rope(k, <<l, "k_rope">>, HfKvDim(f), HfRopeAttrs(f))
           na  == Attention(IF roped THEN <<l, "q_rope">> ELSE q, IF roped THEN <<l, "k_rope">> ELSE k, qkv[3],
                            <<l, "attn">>, HfQDim(f), f.json.heads, l)
           o1  == Opt(Present(qn), <<mq>>)
           o2  == Opt(Present(kn), <<mk>>)
           o3  == Opt(roped, <<nq, nk>>)
<1>1. HfAttention(f, l, L) = o1 \o o2 \o o3 \o <<na>>
  BY DEF HfAttention
<1>2. /\ mq.op = "RMSNorm" /\ mq.out = <<l, "q_n">> /\ mk.op = "RMSNorm" /\ mk.out = <<l, "k_n">>
      /\ nq.op = "RoPE" /\ nq.out = <<l, "q_rope">> /\ nk.op = "RoPE" /\ nk.out = <<l, "k_rope">>
      /\ nq.attrs = nk.attrs /\ na.op = "Attention" /\ na.out = <<l, "attn">> /\ na.attrs.layer = l
  BY NodeIs DEF Plain, Rope, Attention
<1>3. /\ na.ins[1] = IF roped THEN <<l, "q_rope">> ELSE q
      /\ na.ins[2] = IF roped THEN <<l, "k_rope">> ELSE k
      /\ na.ins[3] = qkv[3]
  BY NodeIs DEF Attention
<1>4. RopeSpan(nq) = RopeSpan(nk)
  <2> HIDE DEF nq, nk
  <2> QED
    BY <1>2 DEF RopeSpan
<1>5. Calm(f, mq) /\ Calm(f, mk) /\ Calm(f, nq) /\ Calm(f, nk)
  <2>1. "q_n" \notin KvNames(f) /\ "q_rope" \notin KvNames(f)
    BY HfNames DEF HfOpened, Operands
  <2>2. HfKvDim(f) = ValueWidth(f, l)
    BY HfNames DEF HfOpened
  <2>3. Calm(f, mq) /\ Calm(f, nq)
    BY <2>1, CalmNodes
  <2>4. Calm(f, mk) /\ Calm(f, nk)
    BY <2>2, CalmValues DEF HfOpened, Made
  <2> QED
    BY <2>3, <2>4
<1> HIDE DEF mq, mk, nq, nk, na, qn, kn, roped, qkv
<1>6. /\ Quiet(f, o1) /\ (Present(qn) => ToSet(o1) = {mq})
      /\ Quiet(f, o2) /\ (Present(kn) => ToSet(o2) = {mk})
      /\ Quiet(f, o3) /\ (roped => ToSet(o3) = {nq, nk})
  <2>1. Quiet(f, <<mq>>) /\ ToSet(<<mq>>) = {mq} /\ Quiet(f, <<mk>>) /\ ToSet(<<mk>>) = {mk}
    BY <1>5, QuietLists, Lists
  <2>2. Quiet(f, <<nq, nk>>) /\ ToSet(<<nq, nk>>) = {nq, nk}
    BY <1>5, QuietLists, Lists
  <2>3. Quiet(f, o1) /\ (Present(qn) => o1 = <<mq>>)
    BY <2>1, OptQuiet DEF Opt
  <2>4. Quiet(f, o2) /\ (Present(kn) => o2 = <<mk>>)
    BY <2>1, OptQuiet DEF Opt
  <2>5. Quiet(f, o3) /\ (roped => o3 = <<nq, nk>>)
    BY <2>2, OptQuiet DEF Opt
  <2> HIDE DEF o1, o2, o3
  <2> QED
    BY <2>1, <2>2, <2>3, <2>4, <2>5
<1>7. NodeList(<<na>>) /\ ToSet(<<na>>) = {na}
  BY Lists
<1> HIDE DEF o1, o2, o3
<1> DEFINE a == o1 \o o2 \o o3 \o <<na>>
           w == s \o a
<1>8. NodeList(w) /\ ToSet(w) = ToSet(s) \cup (ToSet(o1) \cup ToSet(o2) \cup ToSet(o3) \cup {na})
  <2>1. NodeList(o1 \o o2) /\ ToSet(o1 \o o2) = ToSet(o1) \cup ToSet(o2)
    BY <1>6, ConcatIs DEF Quiet
  <2>2. NodeList(o1 \o o2 \o o3) /\ ToSet(o1 \o o2 \o o3) = ToSet(o1) \cup ToSet(o2) \cup ToSet(o3)
    BY <1>6, <2>1, ConcatIs DEF Quiet
  <2>3. NodeList(a) /\ ToSet(a) = ToSet(o1) \cup ToSet(o2) \cup ToSet(o3) \cup {na}
    <3> DEFINE b == o1 \o o2 \o o3
               c == <<na>>
    <3> HIDE DEF b, c
    <3>1. NodeList(b \o c) /\ ToSet(b \o c) = ToSet(b) \cup ToSet(c)
      BY <1>7, <2>2, ConcatIs DEF b, c
    <3> QED
      BY <1>7, <2>2, <3>1 DEF b, c
  <2> HIDE DEF a
  <2> QED
    BY <2>3, ConcatIs DEF Quiet, GivesQkv
<1> HIDE DEF w
<1>9. \A n \in ToSet(w) \ {na} : Calm(f, n)
  BY <1>6, <1>8 DEF Quiet, GivesQkv
<1>10. /\ \E n \in ToSet(w) : n.out = q /\ n.op \notin {"RoPE", "Identity"}
       /\ \E n \in ToSet(w) : n.out = k /\ n.op \notin {"RoPE", "Identity"}
       /\ \E n \in ToSet(w) : n.out = qkv[3]
  <2>1. /\ Unrotated(s, qkv[1]) /\ Unrotated(s, qkv[2]) /\ Unrotated(s, qkv[3])
    BY DEF GivesQkv, qkv
  <2>2. \E n \in ToSet(w) : n.out = q /\ n.op \notin {"RoPE", "Identity"}
    <3>1. CASE Present(qn)
      BY <1>2, <1>6, <1>8, <3>1
    <3>2. CASE ~ Present(qn)
      BY <1>8, <2>1, <3>2 DEF Unrotated
    <3> QED
      BY <3>1, <3>2
  <2>3. \E n \in ToSet(w) : n.out = k /\ n.op \notin {"RoPE", "Identity"}
    <3>1. CASE Present(kn)
      BY <1>2, <1>6, <1>8, <3>1
    <3>2. CASE ~ Present(kn)
      BY <1>8, <2>1, <3>2 DEF Unrotated
    <3> QED
      BY <3>1, <3>2
  <2> QED
    BY <1>8, <2>1, <2>2, <2>3 DEF Unrotated
<1>11. AttendsAlike(ToSet(w), na)
  <2>1. CASE roped
    <3>1. nq \in ToSet(w) /\ nk \in ToSet(w)
      BY <1>6, <1>8, <2>1
    <3>2. na.ins[1] = nq.out /\ na.ins[2] = nk.out
      BY <1>2, <1>3, <2>1
    <3> QED
      BY <1>2, <1>4, <3>1, <3>2 DEF AttendsAlike, SameRotation
  <2>2. CASE ~ roped
    <3>1. PICK n, m \in ToSet(w) : /\ n.out = q /\ n.op \notin {"RoPE", "Identity"}
                                   /\ m.out = k /\ m.op \notin {"RoPE", "Identity"}
      BY <1>10
    <3>2. na.ins[1] = n.out /\ na.ins[2] = m.out
      BY <1>3, <2>2, <3>1
    <3> QED
      BY <3>1, <3>2 DEF AttendsAlike, SameRotation
  <2> QED
    BY <2>1, <2>2
<1>12. /\ na.ins[2] \in {<<l, nm>> : nm \in Operands}
       /\ na.ins[3] \in {<<l, nm>> : nm \in Operands}
  <2>1. /\ qkv[2] \in {<<l, "k0">>, <<l, "k_b">>, <<l, "k">>}
        /\ qkv[3] \in {<<l, "v0">>, <<l, "v_b">>, <<l, "v">>}
    BY DEF GivesQkv, qkv
  <2>2. na.ins[2] \in {<<l, "k_rope">>, <<l, "k_n">>, <<l, "k0">>, <<l, "k_b">>, <<l, "k">>}
    BY <1>3, <2>1
  <2> QED
    BY <1>3, <2>1, <2>2 DEF Operands
<1>13. ASSUME NEW n \in ToSet(w), NEW nm \in Operands, n.out = <<l, nm>>
       PROVE  n.width = HfKvDim(f)
  <2>1. n # na
    BY <1>2, <1>13 DEF Operands
  <2>2. Calm(f, n) /\ KvNames(f) = Operands /\ ValueWidth(f, l) = HfKvDim(f)
    BY <1>9, <2>1, HfNames DEF HfOpened
  <2> QED
    BY <1>13, <2>2 DEF Calm
<1>14. Sized(f, ToSet(w), na)
  <2>1. PICK n \in ToSet(w) : n.out = na.ins[2]
    BY <1>11 DEF AttendsAlike
  <2>2. PICK m \in ToSet(w) : m.out = na.ins[3]
    BY <1>3, <1>10
  <2>3. n.width = HfKvDim(f) /\ m.width = HfKvDim(f)
    BY <1>12, <1>13, <2>1, <2>2
  <2>4. KeyWidth(f, na.attrs.layer) = HfKvDim(f) /\ ValueWidth(f, na.attrs.layer) = HfKvDim(f)
    BY HfNames DEF HfOpened
  <2>5. na.ins[2][2] \in Operands /\ na.ins[3][2] \in Operands
    BY <1>12
  <2>6. na.out[2] \notin KvNames(f)
    BY <1>2, HfNames DEF HfOpened, Operands
  <2> QED
    BY <2>1, <2>2, <2>3, <2>4, <2>5, <2>6 DEF Sized
<1>15. Attends(f, ToSet(w), na, l + 1)
  BY <1>2, <1>11, <1>14 DEF Attends, Layered, Made, HfOpened
<1>16. Right(f, w, l + 1)
  BY <1>2, <1>8, <1>9, <1>15, OneAttention
<1> QED
  BY <1>1, <1>16 DEF w, a

(* Adding calm nodes changes nothing. *)
LEMMA RightThenQuiet ==
    ASSUME NEW f, NEW top, NEW s, NEW t, Right(f, s, top), Quiet(f, t)
    PROVE  Right(f, s \o t, top)
BY RightConcat, QuietRight

(* The feed-forward part and the output projection are calm. *)
LEMMA HfMlpQuiet ==
    ASSUME NEW f, HfOpened(f), NEW l, NEW L, NEW x
    PROVE  /\ Quiet(f, HfMlp(f, l, L, x)) /\ Quiet(f, HfAfterMlp(f, l, L, x).nodes)
           /\ Quiet(f, HfOutput(f, l, L).nodes)
<1>1. Activation(f) # "Attention"
  BY HfWidths DEF Activation, KnownActs
<1>2. \A nm \in {"up", "up_act", "ff_out", "post_mlp", "ff_merged", "attn_o0", "o_b", "post_attn"} :
          nm \notin KvNames(f)
  BY HfNames DEF HfOpened, Operands
<1>3. \A ws, a, b, c, d, e, inter, dim, tb :
          {a, b, c, d, e} \cap Operands = {} =>
              Quiet(f, GatedMlp(x, ws, <<<<l, a>>, <<l, b>>, <<l, c>>, <<l, d>>, <<l, e>>>>,
                                Activation(f), inter, dim, tb))
  BY <1>1, BlocksQuiet
<1>4. Quiet(f, HfMlp(f, l, L, x))
  <2>1. CASE HfMoe(L, f)
    BY <2>1, BlocksQuiet DEF HfMlp
  <2>2. CASE ~ HfMoe(L, f) /\ L.gated
    <3>1. {"gate", "up", "gate_act", "ff_hid", "ff_out"} \cap Operands = {}
      BY DEF Operands
    <3> QED
      BY <1>3, <2>2, <3>1 DEF HfMlp
  <2>3. CASE ~ HfMoe(L, f) /\ ~ L.gated /\ L.fc
    <3>1. \A a, b, w, tb, aa, ww, aaa, bbb, www, tbb :
              Quiet(f, <<Project(a, b, <<l, "up">>, w, tb), Plain("Gelu", aa, <<l, "up_act">>, ww),
                         Project(aaa, bbb, <<l, "ff_out">>, www, tbb)>>)
      BY <1>2, CalmNodes, QuietLists
    <3> QED
      BY <2>3, <3>1 DEF HfMlp
  <2>4. CASE ~ HfMoe(L, f) /\ ~ L.gated /\ ~ L.fc
    BY <2>4, Lists DEF HfMlp, Quiet
  <2> QED
    BY <2>1, <2>2, <2>3, <2>4
<1>5. Quiet(f, HfAfterMlp(f, l, L, x).nodes)
  <2>1. \A c, a, w : Quiet(f, Opt(c, <<Plain("RMSNorm", a, <<l, "post_mlp">>, w)>>))
    BY <1>2, OneNode
  <2>2. \A c, ws, inter, dim, tb, a, w :
            Quiet(f, Opt(c, GatedMlp(x, ws, <<<<l, "sh_g">>, <<l, "sh_u">>, <<l, "sh_ga">>, <<l, "sh_hid">>,
                                              <<l, "sh_out">>>>, Activation(f), inter, dim, tb)
                            \o <<Plain("Add", a, <<l, "ff_merged">>, w)>>))
    <3> TAKE c, ws, inter, dim, tb, a, w
    <3> DEFINE G == GatedMlp(x, ws, <<<<l, "sh_g">>, <<l, "sh_u">>, <<l, "sh_ga">>, <<l, "sh_hid">>,
                                      <<l, "sh_out">>>>, Activation(f), inter, dim, tb)
               A == <<Plain("Add", a, <<l, "ff_merged">>, w)>>
    <3>1. {"sh_g", "sh_u", "sh_ga", "sh_hid", "sh_out"} \cap Operands = {}
      BY DEF Operands
    <3>2. Quiet(f, G)
      BY <1>3, <3>1
    <3>3. Quiet(f, A)
      BY <1>2, OneNode
    <3> HIDE DEF G, A
    <3>4. Quiet(f, Opt(c, G \o A))
      BY <3>2, <3>3, QuietConcat, OptQuiet
    <3> QED
      BY <3>4 DEF G, A
  <2> QED
    BY <2>1, <2>2, QuietConcat DEF HfAfterMlp
<1>6. Quiet(f, HfOutput(f, l, L).nodes)
  <2>1. \A c, a, w : Quiet(f, Opt(c, <<Plain("RMSNorm", a, <<l, "post_attn">>, w)>>))
    BY <1>2, OneNode
  <2>2. \A y, w, width, tb, b :
            Quiet(f, <<Project(y, w, <<l, "attn_o0">>, width, tb)>>
                     \o Biased(<<l, "attn_o0">>, b, <<l, "o_b">>, width))
    BY <1>2, BiasedIs
  <2> QED
    BY <2>1, <2>2, QuietConcat DEF HfOutput
<1> QED
  BY <1>4, <1>5, <1>6

(* Every layer of a directory that load() opens. *)
LEMMA HfNodesRight ==
    ASSUME NEW f, HfOpened(f), NEW l \in Nat, NEW L, NEW x
    PROVE  Right(f, HfLayerNodes(f, l, L, x).nodes, l + 1)
<1> DEFINE dim   == f.json.hidden
           par   == f.json.parallel
           o     == HfOutput(f, l, L)
           hasN2 == Present(Ref(f, l, L.n2))
           mid   == IF par THEN x ELSE <<l, "resid1">>
           y     == IF hasN2 THEN <<l, "n2">> ELSE mid
           after == HfAfterMlp(f, l, L, y)
           ff    == HasMlp(L, f)
           norm(in, w, b, out) == NormNode(L.layernorm, in, Ref(f, l, w), Ref(f, l, b),
                                           Present(Ref(f, l, b)), out, dim)
           n1    == norm(x, L.n1, L.n1b, <<l, "n1">>)
           qkv   == IF L.attn.split THEN HfSplit(f, l, L) ELSE HfFused(f, l, L)
           s1    == <<n1>> \o qkv
           s2    == s1 \o HfAttention(f, l, L)
           t1    == Opt(~ par, << Plain("Add", <<x, o.out>>, <<l, "resid1">>, dim) >>)
           t2    == Opt(hasN2, << norm(mid, L.n2, L.n2b, <<l, "n2">>) >>)
           t3    == HfMlp(f, l, L, y)
           t4    == Opt(ff, after.nodes)
           t5    == Opt(par /\ ff, << Plain("Add", <<x, o.out>>, <<l, "par_mid">>, dim),
                                      Plain("Add", <<<<l, "par_mid">>, after.out>>, <<l, "resid2">>, dim) >>)
           t6    == Opt(par /\ ~ ff, << Plain("Add", <<x, o.out>>, <<l, "resid1">>, dim) >>)
           t7    == Opt(~ par /\ ff, << Plain("Add", <<<<l, "resid1">>, after.out>>, <<l, "resid2">>, dim) >>)
<1>1. HfLayerNodes(f, l, L, x).nodes = s2 \o o.nodes \o t1 \o t2 \o t3 \o t4 \o t5 \o t6 \o t7
  BY DEF HfLayerNodes
<1>2. \A nm \in {"n1", "n2", "resid1", "resid2", "par_mid"} : nm \notin KvNames(f)
  BY HfNames DEF HfOpened, Operands
<1>3. Quiet(f, t1) /\ Quiet(f, t6) /\ Quiet(f, t7)
  <2> HIDE DEF o, after, ff, par, dim
  <2>1. \A c, ins, w, nm : nm \in {"resid1", "resid2"} => Quiet(f, Opt(c, <<Plain("Add", ins, <<l, nm>>, w)>>))
    BY <1>2, OneNode
  <2> QED
    BY <2>1
<1>4. Quiet(f, t5)
  <2> HIDE DEF o, after, ff, par, dim
  <2>1. \A ins, w, insb, wb :
            Quiet(f, <<Plain("Add", ins, <<l, "par_mid">>, w), Plain("Add", insb, <<l, "resid2">>, wb)>>)
    BY <1>2, CalmNodes, QuietLists
  <2> QED
    BY <2>1, OptQuiet
<1>5. Quiet(f, t2) /\ Quiet(f, <<n1>>)
  BY <1>2, OneNode
<1>6. Quiet(f, t3) /\ Quiet(f, o.nodes) /\ Quiet(f, t4)
  <2> HIDE DEF y
  <2> QED
    BY HfMlpQuiet, OptQuiet
<1> HIDE DEF t1, t2, t3, t4, t5, t6, t7, n1, o
<1>7. GivesQkv(f, l, s1, HfQkv(f, l, L))
  <2>1. GivesQkv(f, l, qkv, HfQkv(f, l, L))
    BY HfQkvIs
  <2> HIDE DEF qkv
  <2>2. Quiet(f, s1) /\ \A i \in 1 .. 3 : Unrotated(s1, HfQkv(f, l, L)[i])
    BY <1>5, <2>1, QuietConcat, UnrotatedConcat DEF GivesQkv
  <2> QED
    BY <2>1, <2>2 DEF GivesQkv
<1> HIDE DEF s1
<1>8. Right(f, s2, l + 1)
  BY <1>7, HfAttentionRight
<1> HIDE DEF s2
<1>9. Right(f, s2 \o o.nodes \o t1 \o t2 \o t3, l + 1)
  BY <1>3, <1>5, <1>6, <1>8, RightThenQuiet
<1>10. Right(f, s2 \o o.nodes \o t1 \o t2 \o t3 \o t4 \o t5 \o t6 \o t7, l + 1)
  BY <1>3, <1>4, <1>6, <1>9, RightThenQuiet
<1> QED
  BY <1>1, <1>10

(* So is the layer load() accepts. *)
LEMMA HfLayerRight ==
    ASSUME NEW f, HfOpened(f), NEW l \in Nat, NEW L, NEW x, HfLayer(f, l, L, x).verdict = "layer"
    PROVE  Right(f, HfLayer(f, l, L, x).nodes, l + 1)
<1>1. HfLayer(f, l, L, x).nodes = HfLayerNodes(f, l, L, x).nodes
  BY DEF HfLayer
<1> QED
  BY <1>1, HfNodesRight

-----------------------------------------------------------------------------
(* What stands before and behind the layers *)

(* Names of the graph as a whole. *)
LEMMA TopNames ==
    ASSUME NEW f, NEW nm \in {"hidden", "tok_emb", "positions", "pos_emb", "normed", "logits", "logits_cap",
                              "probs", "y"}
    PROVE  nm \notin KvNames(f)
BY DEF KvNames, Operands

(* The embedding of either loader is calm. *)
LEMMA HeadQuiet ==
    ASSUME NEW f
    PROVE  /\ GgufHead(f).verdict = "layer" => Quiet(f, GgufHead(f).nodes)
           /\ HfHead(f).verdict = "layer" => Quiet(f, HfHead(f).nodes)
<1>1. \A a, w : Quiet(f, <<Plain("Embedding", a, Hidden, w)>>)
  BY TopNames, OneNode DEF Hidden
<1>2. \A a, w, aa, ww, aaa, www, aaaa, wwww :
          Quiet(f, <<Plain("Embedding", a, <<Top, "tok_emb">>, w), Plain("Positions", aa, <<Top, "positions">>, ww),
                     Plain("Embedding", aaa, <<Top, "pos_emb">>, www), Plain("Add", aaaa, Hidden, wwww)>>)
  BY TopNames, CalmNodes, QuietLists DEF Hidden
<1>3. GgufHead(f).verdict = "layer" => Quiet(f, GgufHead(f).nodes)
  BY <1>1 DEF GgufHead
<1>4. HfHead(f).verdict = "layer" => Quiet(f, HfHead(f).nodes)
  BY <1>1, <1>2 DEF HfHead
<1> QED
  BY <1>3, <1>4

(* So is the language model head. *)
LEMMA TailQuiet ==
    ASSUME NEW f, NEW L, NEW x
    PROVE  /\ GgufTail(f, x).verdict = "layer" => Quiet(f, GgufTail(f, x).nodes)
           /\ HfTail(f, L, x).verdict = "layer" => Quiet(f, HfTail(f, L, x).nodes)
<1>1. \A a, w : Quiet(f, <<Plain("Softmax", a, <<Top, "probs">>, w)>>)
  BY TopNames, OneNode
<1>2. \A c, ln, y, w, b, hb, dim : Quiet(f, Opt(c, <<NormNode(ln, y, w, b, hb, <<Top, "normed">>, dim)>>))
  BY TopNames, OneNode
<1>3. \A a, b, w, aa, ww : Quiet(f, <<MatMul(a, b, <<Top, "logits">>, w), Plain("Softmax", aa, <<Top, "probs">>, ww)>>)
  BY TopNames, CalmNodes, QuietLists
<1>4. \A a, b, w : Quiet(f, <<MatMul(a, b, <<Top, "logits">>, w)>>)
  BY TopNames, OneNode
<1>5. \A c, a, w : Quiet(f, Opt(c, <<Plain("Softcap", a, IF c THEN <<Top, "logits_cap">> ELSE <<Top, "logits">>, w)>>))
  BY TopNames, OneNode
<1>6. GgufTail(f, x).verdict = "layer" => Quiet(f, GgufTail(f, x).nodes)
  BY <1>2, <1>3, QuietConcat DEF GgufTail
<1>7. HfTail(f, L, x).verdict = "layer" => Quiet(f, HfTail(f, L, x).nodes)
  BY <1>1, <1>2, <1>4, <1>5, QuietConcat DEF HfTail
<1> QED
  BY <1>6, <1>7

-----------------------------------------------------------------------------
(* What the session reads besides the nodes *)

(* A set of numbers has a least one. *)
LEMMA LeastNat == ASSUME NEW S \in SUBSET Nat, S # {} PROVE \E x \in S : \A y \in S : x <= y
<1> DEFINE R == {p \in Nat \X Nat : p[1] < p[2]}
<1>1. IsWellFoundedOn(R, Nat)
  BY NatLessThanWellFounded DEF OpToRel
<1> HIDE DEF R
<1>2. PICK x \in S : \A y \in S : <<y, x>> \notin R
  BY <1>1, WFMin
<1>3. ASSUME NEW y \in S PROVE x <= y
  <2>1. x \in Nat /\ y \in Nat /\ <<y, x>> \notin R
    BY <1>2
  <2>2. <<y, x>>[1] = y /\ <<y, x>>[2] = x /\ <<y, x>> \in Nat \X Nat
    BY <2>1
  <2>3. ~ (y < x)
    BY <2>1, <2>2 DEF R
  <2> QED
    BY <2>1, <2>3
<1> QED
  BY <1>3

(* The number of layers is an integer: not every layer up to the number of tensors *)
(* can have one of them, so that the loader, counting blocks, finds the first       *)
(* that is not there.                                                               *)
LEMMA GgufLayersIs ==
    ASSUME NEW f, FileTyped(f), f.fmt = "gguf"
    PROVE  GgufLayers(f) \in Int
<1> DEFINE D == DOMAIN f.tensors
           N == Cardinality(D)
           gaps == {i \in 0 .. N : ~ HasBlock(f, i)}
           inferred == CHOOSE i \in 0 .. N : ~ HasBlock(f, i) /\ \A j \in 0 .. i - 1 : HasBlock(f, j)
           n == IF f.kv.block_count > 0 \/ ~ HasBlock(f, 0) THEN f.kv.block_count ELSE inferred
<1>1. IsFiniteSet(D) /\ N \in Nat
  BY FS_CardinalityType DEF FileTyped
<1>2. gaps # {}
  <2> SUFFICES ASSUME \A i \in 0 .. N : HasBlock(f, i) PROVE FALSE
    OBVIOUS
  <2> DEFINE of == [i \in 0 .. N |-> CHOOSE t \in D : t[1] = i]
  <2>1. \A i \in 0 .. N : of[i] \in D /\ of[i][1] = i
    <3> TAKE i \in 0 .. N
    <3>1. PICK nm \in LayerProbes : <<i, nm>> \in D
      BY DEF HasBlock, Has
    <3>2. \E t \in D : t[1] = i
      BY <3>1
    <3> QED
      BY <3>2
  <2>2. of \in [0 .. N -> D]
    BY <2>1
  <2>3. IsFiniteSet(0 .. N) /\ Cardinality(0 .. N) = N + 1
    BY <1>1, FS_Interval
  <2> HIDE DEF of, D, N
  <2>4. Cardinality(D) < Cardinality(0 .. N)
    BY <1>1, <2>3 DEF N
  <2>5. PICK i, j \in 0 .. N : i # j /\ of[i] = of[j]
    BY <1>1, <2>2, <2>3, <2>4, FS_PigeonHole
  <2> QED
    BY <2>1, <2>5
<1>3. inferred \in Int
  <2> HIDE DEF N, D
  <2>1. gaps \in SUBSET Nat
    BY <1>1
  <2>2. PICK m \in gaps : \A y \in gaps : m <= y
    BY <1>2, <2>1, LeastNat
  <2>3. m \in 0 .. N /\ ~ HasBlock(f, m) /\ \A j \in 0 .. m - 1 : HasBlock(f, j)
    <3>1. m \in 0 .. N /\ ~ HasBlock(f, m)
      BY <2>2
    <3>2. ASSUME NEW j \in 0 .. m - 1, ~ HasBlock(f, j) PROVE FALSE
      <4>1. j \in 0 .. N /\ j < m
        BY <1>1, <3>1, <3>2
      <4>2. j \in gaps
        BY <3>2, <4>1
      <4> QED
        BY <1>1, <2>2, <3>1, <4>1, <4>2
    <3> QED
      BY <3>1, <3>2
  <2>4. inferred \in 0 .. N
    BY <2>3
  <2> QED
    BY <1>1, <2>4
<1>4. n \in Int
  <2>1. f.kv.block_count \in Int
    BY DEF FileTyped
  <2> HIDE DEF inferred
  <2> QED
    BY <1>3, <2>1
<1>5. GgufLayers(f) = ApplyLayerCap(n, f.cap)
  BY DEF GgufLayers
<1> HIDE DEF n
<1>6. f.cap \in Int
  BY DEF FileTyped
<1> QED
  BY <1>4, <1>5, <1>6 DEF ApplyLayerCap, AbsoluteMaxLayers

(* No weight of the graph is named as something an attention reads. *)
Weighs(ws) == \A t \in DOMAIN ws : t[2] \notin Operands

(* Neither is one of a part that the loaders add. *)
LEMMA PartsWeigh ==
    ASSUME NEW f, FileTyped(f), NEW l, NEW L, NEW x
    PROVE  /\ GgufHead(f).verdict = "layer" => Weighs(GgufHead(f).weights)
           /\ GgufLayer(f, l, x).verdict \in {"layer", "stop"} => Weighs(GgufLayer(f, l, x).weights)
           /\ GgufTail(f, x).verdict = "layer" => Weighs(GgufTail(f, x).weights)
           /\ HfHead(f).verdict = "layer" => Weighs(HfHead(f).weights)
           /\ HfLayer(f, l, L, x).verdict = "layer" => Weighs(HfLayer(f, l, L, x).weights)
           /\ HfTail(f, L, x).verdict = "layer" => Weighs(HfTail(f, L, x).weights)
<1>1. \A t \in DOMAIN f.tensors : t[2] \notin Operands
  BY DEF FileTyped
<1>2. GgufHead(f).verdict = "layer" => Weighs(GgufHead(f).weights)
  BY DEF GgufHead, Weighs, Operands
<1>3. HfHead(f).verdict = "layer" => Weighs(HfHead(f).weights)
  BY DEF HfHead, Weighs, Operands
<1>4. ASSUME GgufTail(f, x).verdict = "layer" PROVE Weighs(GgufTail(f, x).weights)
  <2>1. LmHead(f)[2] \in {"output", "token_embd"}
    BY DEF LmHead
  <2>2. \A t \in DOMAIN GgufTail(f, x).weights :
            t = LmHead(f) \/ t[2] \in {"output_norm", "output_norm_bias"}
    BY <1>4 DEF GgufTail
  <2> QED
    BY <2>1, <2>2 DEF Weighs, Operands
<1>5. ASSUME HfTail(f, L, x).verdict = "layer" PROVE Weighs(HfTail(f, L, x).weights)
  <2>1. HfLmHead(f)[2] \in {"lm_head", "embed"}
    BY DEF HfLmHead
  <2>2. \A t \in DOMAIN HfTail(f, L, x).weights :
            t = HfLmHead(f) \/ t[2] \in {"norm", "norm_bias"}
    BY <1>5 DEF HfTail
  <2> QED
    BY <2>1, <2>2 DEF Weighs, Operands
<1>6. ASSUME HfLayer(f, l, L, x).verdict = "layer" PROVE Weighs(HfLayer(f, l, L, x).weights)
  <2>1. DOMAIN HfLayer(f, l, L, x).weights \subseteq DOMAIN f.tensors
    BY <1>6 DEF HfLayer
  <2> QED
    BY <1>1, <2>1 DEF Weighs
<1>7. ASSUME GgufLayer(f, l, x).verdict \in {"layer", "stop"} PROVE Weighs(GgufLayer(f, l, x).weights)
  <2> DEFINE shapes == [t \in {<<l, n>> : n \in Registered(f, l)} |-> f.tensors[t]]
  <2>1. \A t \in DOMAIN shapes : t \in DOMAIN f.tensors
    BY DEF Registered, Has
  <2>2. \A t \in DOMAIN ExpertShapes(f, l) : t[2] \in {"gate", "up", "down"}
    BY DEF ExpertShapes
  <2>3. GgufLayer(f, l, x).weights \in {shapes, Joined(shapes, ExpertShapes(f, l))}
    BY <1>7 DEF GgufLayer
  <2>4. DOMAIN Joined(shapes, ExpertShapes(f, l)) = DOMAIN shapes \cup DOMAIN ExpertShapes(f, l)
    BY DEF Joined
  <2> HIDE DEF shapes
  <2> QED
    BY <1>1, <2>1, <2>2, <2>3, <2>4 DEF Weighs, Operands
<1> QED
  BY <1>2, <1>3, <1>4, <1>5, <1>6, <1>7

(* The weights of a graph that is extended are its own and those of the part. *)
LEMMA ExtendWeighs ==
    ASSUME NEW g, NEW nodes, NEW ws, Weighs(g.weights), Weighs(ws)
    PROVE  Weighs(Extend(g, nodes, ws).weights)
BY DEF Extend, Joined, Weighs

(* What the loader says of the widths of the cache, and what they are in a layer. *)
MetaOf(f, mla) == IF f.fmt = "gguf" THEN GgufMeta(f, mla) ELSE HfMeta(f)

(* A layer that is built has a tensor in the file. *)
LEMMA MadeIsThere ==
    ASSUME NEW f, f.fmt = "gguf", NEW l, Made(f, l)
    PROVE  l \in {t[1] : t \in DOMAIN f.tensors}
<1>1. <<l, "attn_norm">> \in DOMAIN f.tensors /\ <<l, "attn_norm">>[1] = l
  BY DEF Made, Buildable, StopsAt, Has
<1> QED
  BY <1>1

(* The metadata of layer 0 is true of every layer that is built. *)
LEMMA MetaIsRight ==
    ASSUME NEW f, UniformCache(f), f.fmt = "hf" => HfOpened(f), f.fmt \in {"gguf", "hf"},
           Made(f, 0), NEW l, Made(f, l), NEW mla, mla <=> (f.fmt = "gguf" /\ IsMla(f, 0))
    PROVE  /\ KeyWidth(f, l) = KeyWidth(f, 0) /\ ValueWidth(f, l) = ValueWidth(f, 0)
           /\ KeyWidth(f, 0) > 0 /\ ValueWidth(f, 0) > 0
           /\ f.fmt = "gguf" => (IsMla(f, l) <=> IsMla(f, 0))
           /\ LET m == MetaOf(f, mla)
              IN  /\ m.kv_dim = KeyWidth(f, 0)
                  /\ \/ m.v_dim = ValueWidth(f, 0)
                     \/ m.v_dim = 0 /\ ValueWidth(f, 0) = KeyWidth(f, 0)
<1> DEFINE m == MetaOf(f, mla)
<1>1. CASE f.fmt = "hf"
  <2>1. HfKvDim(f) > 0 /\ \A i : KeyWidth(f, i) = HfKvDim(f) /\ ValueWidth(f, i) = HfKvDim(f)
    BY <1>1, HfWidths, HfNames
  <2>2. m.kv_dim = HfKvDim(f) /\ m.v_dim = 0
    BY <1>1 DEF MetaOf, HfMeta
  <2> QED
    BY <1>1, <2>1, <2>2
<1>2. CASE f.fmt = "gguf"
  <2>1. l \in {t[1] : t \in DOMAIN f.tensors} /\ Buildable(f, 0) /\ Buildable(f, l)
    BY <1>2, MadeIsThere DEF Made
  <2>2. /\ (IsMla(f, l) <=> IsMla(f, 0)) /\ (IsMla(f, 0) /\ Has(f, 0, "attn_q_b") => QLora(f, 0))
        /\ KeyWidth(f, l) = KeyWidth(f, 0) /\ ValueWidth(f, l) = ValueWidth(f, 0)
        /\ KeyWidth(f, 0) > 0 /\ ValueWidth(f, 0) > 0
    <3> DEFINE P(k) == /\ (IsMla(f, k) <=> IsMla(f, 0)) /\ (IsMla(f, 0) /\ Has(f, 0, "attn_q_b") => QLora(f, 0))
                       /\ KeyWidth(f, k) = KeyWidth(f, 0) /\ ValueWidth(f, k) = ValueWidth(f, 0)
                       /\ KeyWidth(f, 0) > 0 /\ ValueWidth(f, 0) > 0
    <3>1. \A k \in {t[1] : t \in DOMAIN f.tensors} : Buildable(f, 0) /\ Buildable(f, k) => P(k)
      BY <1>2 DEF UniformCache
    <3> HIDE DEF P
    <3>2. P(l)
      BY <2>1, <3>1
    <3> QED
      BY <3>2 DEF P
  <2>3. m = GgufMeta(f, mla)
    BY <1>2 DEF MetaOf
  <2>4. CASE ~ IsMla(f, 0)
    <3>1. m.kv_dim = KvDim(f) /\ m.v_dim = 0
      BY <1>2, <2>3, <2>4 DEF GgufMeta
    <3>2. KeyWidth(f, 0) = KvDim(f) /\ ValueWidth(f, 0) = KvDim(f)
      BY <1>2, <2>4 DEF KeyWidth, ValueWidth
    <3> QED
      BY <2>2, <3>1, <3>2
  <2>5. CASE IsMla(f, 0)
    <3>1. KeyWidth(f, 0) = Rows(f, 0, IF QLora(f, 0) THEN "attn_q_b" ELSE "attn_q")
      BY <1>2, <2>5 DEF KeyWidth, MlaDims
    <3>2. ValueWidth(f, 0) = Rows(f, 0, "attn_v_b") /\ Has(f, 0, "attn_v_b")
      BY <1>2, <2>5 DEF ValueWidth, MlaDims, IsMla
    <3>3. m.v_dim = ValueWidth(f, 0)
      BY <1>2, <2>3, <2>5, <3>2 DEF GgufMeta
    <3>4. m.kv_dim = KeyWidth(f, 0)
      <4>1. SomeMla(f, 0)
        BY <2>5 DEF SomeMla, IsMla
      <4>2. QLora(f, 0) \/ Has(f, 0, "attn_q")
        BY <2>1, <4>1 DEF Buildable, IncompleteMla
      <4>3. CASE Has(f, 0, "attn_q_b")
        BY <1>2, <2>2, <2>3, <2>5, <3>1, <4>3 DEF GgufMeta
      <4>4. CASE ~ Has(f, 0, "attn_q_b")
        BY <1>2, <2>3, <2>5, <3>1, <4>2, <4>4 DEF GgufMeta, QLora
      <4> QED
        BY <4>3, <4>4
    <3> QED
      BY <2>2, <3>3, <3>4
  <2> QED
    BY <2>4, <2>5
<1> QED
  BY <1>1, <1>2

(* The layer that is built is one of those. *)
LEMMA LayerMade ==
    ASSUME NEW f, NEW l, NEW L, NEW x,
           f.fmt = "gguf" => GgufLayer(f, l, x).verdict = "layer"
    PROVE  Made(f, l)
BY DEF GgufLayer, Made, Buildable

-----------------------------------------------------------------------------
(* The invariant *)

Stages == {"file", "layers", "tail", "loaded", "created", "ready", "error"}

WrittenOnce(g) == \A i, j \in DOMAIN g.nodes : g.nodes[i].out = g.nodes[j].out => i = j

(* The layers that are built are some of those the file states, the first of them *)
(* one that load() builds.                                                         *)
LayersAreBuilt ==
    /\ li \in Nat /\ (stage = "file" => li = 0)
    /\ li > 0 => li <= Layers /\ Made(file, 0)
    /\ stage \in {"layers", "tail"} /\ Gguf => Has(file, Top, "token_embd")

(* What the loader noted on the way and tells the session is what layer 0 is. *)
MetaIsKnown ==
    /\ UniformCache(file) => (any_mla <=> (li > 0 /\ Gguf /\ IsMla(file, 0)))
    /\ stage \in {"loaded", "created", "ready"} /\ li > 0 => meta = MetaOf(file, any_mla)

(* Nothing refused is built from; every attention stands among the nodes that     *)
(* rotate its operands and make its key and value; no weight hides one of these;   *)
(* and what create() accepted computes no tensor twice.                            *)
ImportInv ==
    /\ stage \in Stages /\ file \in Files
    /\ stage \notin {"file", "error"} => ~ Refused
    /\ LayersAreBuilt
    /\ MetaIsKnown
    /\ Right(file, graph.nodes, li) /\ Weighs(graph.weights)
    /\ stage \in {"created", "ready"} => WrittenOnce(graph)

(* An opened file has no graph yet. *)
LEMMA ImportInit == Init => ImportInv
<1> SUFFICES ASSUME Init PROVE ImportInv
  OBVIOUS
<1>1. graph.nodes = <<>> /\ graph.weights = <<>> /\ stage = "file" /\ file \in Files /\ li = 0 /\ any_mla = FALSE
  BY DEF Init, EmptyGraph
<1>2. Right(file, <<>>, li) /\ Weighs(<<>>)
  BY Lists DEF Right, Weighs
<1> QED
  BY <1>1, <1>2 DEF ImportInv, Stages, LayersAreBuilt, MetaIsKnown

(* The number of layers a file states is an integer. *)
LEMMA LayersIs == ASSUME file \in Files PROVE Layers \in Int /\ FileTyped(file) /\ (Gguf \/ file.fmt = "hf")
<1>1. FileTyped(file)
  BY ImportConstants
<1>2. CASE Gguf
  BY <1>1, <1>2, GgufLayersIs DEF Layers, Gguf
<1>3. CASE ~ Gguf
  <2>1. file.fmt = "hf" /\ file.json.layers \in Nat /\ file.cap \in Int
    BY <1>1, <1>3 DEF FileTyped, Gguf
  <2>2. Layers = ApplyLayerCap(file.json.layers, file.cap)
    BY <1>3 DEF Layers
  <2> QED
    BY <1>1, <2>1, <2>2 DEF ApplyLayerCap, AbsoluteMaxLayers
<1> QED
  BY <1>2, <1>3, <1>1

(* A part whose nodes and weights are in order keeps the graph so. *)
LEMMA BuiltRight ==
    ASSUME NEW part, Built(part), NEW top, Right(file, graph.nodes, top), Right(file, part.nodes, top),
           Weighs(graph.weights), Weighs(part.weights)
    PROVE  Right(file, graph'.nodes, top) /\ Weighs(graph'.weights)
<1>1. graph' = Extend(graph, part.nodes, part.weights)
  BY DEF Built
<1>2. graph'.nodes = graph.nodes \o part.nodes
  BY <1>1 DEF Extend
<1>3. Weighs(graph'.weights)
  BY <1>1, ExtendWeighs
<1> QED
  BY <1>2, <1>3, RightConcat

(* A step that changes neither the file, nor the graph, nor the layer. *)
LEMMA Unmoved ==
    ASSUME ImportInv, UNCHANGED <<file, graph, li, any_mla>>, stage' \in Stages \ {"file", "layers", "tail"},
           stage' # "error" => ~ Refused,
           stage' \in {"loaded", "created", "ready"} /\ li > 0 => meta' = MetaOf(file, any_mla),
           stage' \in {"created", "ready"} => WrittenOnce(graph)
    PROVE  ImportInv'
BY DEF ImportInv, LayersAreBuilt, MetaIsKnown, Layers, Gguf, Refused, WrittenOnce

(* A file without an embedding has no layer. *)
LEMMA WeightsOnlyStep == ASSUME ImportInv, WeightsOnly PROVE ImportInv'
<1> DEFINE n == Plain("Identity", <<Tokens>>, <<Top, "y">>, 1)
<1>1. /\ graph'.nodes = <<n>> /\ graph'.weights = file.tensors /\ stage = "file" /\ ~ Refused
      /\ stage' = "loaded" /\ UNCHANGED <<file, li, any_mla>>
  BY DEF WeightsOnly
<1>2. FileTyped(file) /\ li = 0
  BY <1>1, LayersIs DEF ImportInv, LayersAreBuilt
<1>3. Calm(file, n)
  BY TopNames, CalmNodes
<1> HIDE DEF n
<1>4. Right(file, graph'.nodes, li)
  BY <1>1, <1>3, QuietLists, QuietRight
<1>5. Weighs(graph'.weights)
  BY <1>1, <1>2 DEF Weighs, FileTyped
<1> QED
  BY <1>1, <1>2, <1>4, <1>5 DEF ImportInv, Stages, LayersAreBuilt, MetaIsKnown, Refused, Gguf, Layers

(* A step that fails. *)
LEMMA FailStep == ASSUME ImportInv, Fail PROVE ImportInv'
<1>1. stage' = "error" /\ UNCHANGED <<file, graph, li, any_mla>>
  BY DEF Fail
<1> QED
  BY <1>1, Unmoved DEF Stages

(* The head of the file stands before every layer. *)
LEMMA OpenFileStep == ASSUME ImportInv, OpenFile PROVE ImportInv'
<1> DEFINE head == IF Gguf THEN GgufHead(file) ELSE HfHead(file)
<1>1. CASE Fail
  BY <1>1, FailStep
<1>2. CASE ~ Fail
  <2>1. /\ head.verdict = "layer" /\ Built(head) /\ stage = "file" /\ stage' = "layers" /\ ~ Refused
        /\ (Gguf => Has(file, Top, "token_embd")) /\ UNCHANGED <<file, li, any_mla>>
    BY <1>2 DEF OpenFile
  <2>2. FileTyped(file) /\ li = 0
    BY <2>1, LayersIs DEF ImportInv, LayersAreBuilt
  <2>3. Right(file, head.nodes, li) /\ Weighs(head.weights)
    BY <2>1, <2>2, HeadQuiet, QuietRight, PartsWeigh
  <2> HIDE DEF head
  <2>4. Right(file, graph'.nodes, li) /\ Weighs(graph'.weights)
    BY <2>1, <2>3, BuiltRight DEF ImportInv
  <2> QED
    BY <2>1, <2>2, <2>4 DEF ImportInv, Stages, LayersAreBuilt, MetaIsKnown, Refused, Gguf, Layers
<1> QED
  BY <1>1, <1>2

(* A layer is one more that the file states, and made as the first one is. *)
LEMMA ImportLayerStep == ASSUME ImportInv, ImportLayer PROVE ImportInv'
<1> DEFINE built == Layer
<1>1. /\ stage = "layers" /\ li < Layers /\ li \in Nat /\ Layers \in Int /\ FileTyped(file) /\ ~ Refused
      /\ (Gguf => Has(file, Top, "token_embd")) /\ (~ Gguf => HfOpened(file))
  BY LayersIs DEF ImportLayer, ImportInv, LayersAreBuilt, HfOpened, Refused
<1>2. CASE Fail
  BY <1>2, FailStep
<1>3. CASE /\ built.verdict = "stop" /\ graph' = Extend(graph, <<>>, built.weights)
           /\ stage' = "tail" /\ UNCHANGED <<file, li, any_mla>>
  <2>1. Right(file, graph'.nodes, li)
    <3>1. graph'.nodes = graph.nodes \o <<>>
      BY <1>3 DEF Extend
    <3>2. Quiet(file, <<>>)
      BY Lists DEF Quiet
    <3> QED
      BY <3>1, <3>2, RightThenQuiet DEF ImportInv
  <2>2. Weighs(built.weights)
    <3>1. CASE Gguf
      BY <1>1, <1>3, <3>1, PartsWeigh DEF Layer
    <3>2. CASE ~ Gguf
      BY <1>3, <3>2 DEF Layer, HfLayer
    <3> QED
      BY <3>1, <3>2
  <2> HIDE DEF built
  <2>3. Weighs(graph'.weights)
    BY <1>3, <2>2, ExtendWeighs DEF ImportInv
  <2> QED
    BY <1>1, <1>3, <2>1, <2>3 DEF ImportInv, Stages, LayersAreBuilt, MetaIsKnown, Refused, Gguf, Layers
<1>4. CASE /\ built.verdict = "layer" /\ Built(built) /\ li' = li + 1
           /\ any_mla' = (any_mla \/ (Gguf /\ IsMla(file, li))) /\ UNCHANGED <<file, stage>>
  <2>1. Right(file, built.nodes, li + 1) /\ Weighs(built.weights) /\ Made(file, li)
    <3>1. CASE Gguf
      <4>1. built = GgufLayer(file, li, features)
        BY <3>1 DEF Layer
      <4> QED
        BY <1>1, <1>4, <3>1, <4>1, GgufLayerRight, PartsWeigh, LayerMade DEF Gguf
    <3>2. CASE ~ Gguf
      <4>1. built = HfLayer(file, li, PickLayout(file), features)
        BY <3>2 DEF Layer
      <4> QED
        BY <1>1, <1>4, <3>2, <4>1, HfLayerRight, PartsWeigh DEF Made, Gguf
    <3> QED
      BY <3>1, <3>2
  <2> HIDE DEF built
  <2>2. Right(file, graph'.nodes, li + 1) /\ Weighs(graph'.weights)
    BY <1>1, <1>4, <2>1, RightLater, BuiltRight DEF ImportInv
  <2>3. Made(file, 0) /\ li + 1 > 0 /\ li + 1 <= Layers /\ li + 1 \in Nat
    BY <1>1, <2>1 DEF ImportInv, LayersAreBuilt
  <2>4. ASSUME UniformCache(file) PROVE any_mla' <=> (Gguf /\ IsMla(file, 0))
    <3>1. CASE li = 0
      BY <1>4, <2>4, <3>1 DEF ImportInv, MetaIsKnown
    <3>2. CASE li # 0
      <4>1. any_mla <=> (Gguf /\ IsMla(file, 0))
        BY <1>1, <2>4, <3>2 DEF ImportInv, MetaIsKnown
      <4>2. Gguf => (IsMla(file, li) <=> IsMla(file, 0))
        BY <2>1, <2>3, <2>4, <4>1, MetaIsRight DEF Gguf
      <4> QED
        BY <1>4, <4>1, <4>2
    <3> QED
      BY <3>1, <3>2
  <2>5. LayersAreBuilt'
    BY <1>1, <1>4, <2>3 DEF LayersAreBuilt, Layers, Gguf
  <2>6. MetaIsKnown'
    BY <1>1, <1>4, <2>3, <2>4 DEF MetaIsKnown, Gguf
  <2> QED
    BY <1>1, <1>4, <2>2, <2>5, <2>6 DEF ImportInv, Stages, Refused, Gguf
<1> QED
  BY <1>2, <1>3, <1>4 DEF ImportLayer

(* The language model head stands behind every layer; what the file says of the   *)
(* cache is kept with the graph.                                                    *)
LEMMA FinishGraphStep == ASSUME ImportInv, FinishGraph PROVE ImportInv'
<1> DEFINE tail == IF Gguf THEN GgufTail(file, features) ELSE HfTail(file, PickLayout(file), features)
<1>1. CASE Fail
  BY <1>1, FailStep
<1>2. CASE /\ tail.verdict = "layer" /\ Built(tail) /\ stage' = "loaded" /\ UNCHANGED <<file, li, any_mla>>
           /\ meta' = IF Gguf THEN GgufMeta(file, any_mla) ELSE HfMeta(file)
  <2>1. stage \in {"layers", "tail"} /\ FileTyped(file) /\ ~ Refused
    BY LayersIs DEF FinishGraph, ImportInv
  <2>2. Right(file, tail.nodes, li) /\ Weighs(tail.weights)
    BY <1>2, <2>1, TailQuiet, QuietRight, PartsWeigh
  <2>3. meta' = MetaOf(file, any_mla)
    BY <1>2 DEF MetaOf, Gguf
  <2> HIDE DEF tail
  <2>4. Right(file, graph'.nodes, li) /\ Weighs(graph'.weights)
    BY <1>2, <2>2, BuiltRight DEF ImportInv
  <2> QED
    BY <1>2, <2>1, <2>3, <2>4 DEF ImportInv, Stages, LayersAreBuilt, MetaIsKnown, Refused, Gguf, Layers
<1> QED
  BY <1>1, <1>2 DEF FinishGraph

(* create() keeps the graph, and accepts none that computes a tensor twice. *)
LEMMA CreateSessionStep ==
    ASSUME ImportInv, NEW keep \in BOOLEAN, NEW where \in Residence, CreateSession(keep, where)
    PROVE  ImportInv'
<1>1. CASE Fail
  BY <1>1, FailStep
<1>2. CASE ValidateGraph(graph) /\ stage' = "created" /\ UNCHANGED <<file, li, graph, any_mla, meta>>
  <2>1. WrittenOnce(graph)
    BY <1>2 DEF ValidateGraph, WrittenOnce
  <2>2. stage = "loaded"
    BY DEF CreateSession
  <2> QED
    BY <1>2, <2>1, <2>2, Unmoved DEF ImportInv, MetaIsKnown, Stages
<1> QED
  BY <1>1, <1>2 DEF CreateSession

(* Every step, one case per action, keeps the invariant. *)
LEMMA ImportStep == ImportInv /\ [Next]_vars => ImportInv'
<1> SUFFICES ASSUME ImportInv, [Next]_vars PROVE ImportInv'
  OBVIOUS
<1>1. CASE EnsureKvCache
  BY <1>1, Unmoved DEF EnsureKvCache, ImportInv, MetaIsKnown, Stages
<1>2. CASE Done \/ UNCHANGED vars
  BY <1>2 DEF Done, vars, ImportInv, LayersAreBuilt, MetaIsKnown, Layers, Refused, Gguf, WrittenOnce
<1> QED
  BY <1>1, <1>2, WeightsOnlyStep, OpenFileStep, ImportLayerStep, FinishGraphStep, CreateSessionStep DEF Next

(* Every reachable state satisfies the invariant. *)
THEOREM ImportInvariant == Spec => []ImportInv
BY ImportInit, ImportStep, PTL DEF Spec

-----------------------------------------------------------------------------
(* How the operands of an attention are rotated *)

(* Rotation, for a tensor that one node writes. *)
LEMMA RotationIs ==
    ASSUME NEW g, WrittenOnce(g), NEW n \in ToSet(g.nodes)
    PROVE  /\ Writer(g, n.out) = n
           /\ n.op = "RoPE" => Rotation(g, n.out) = RopeSpan(n)
           /\ n.op \notin {"RoPE", "Identity"} => Rotation(g, n.out) = {}
           /\ \A e, r \in ToSet(g.nodes) :
                 n.op = "Identity" /\ e.op = "MLAExpandK" /\ e.out = n.ins[1] /\ r.out = e.ins[2] =>
                     Rotation(g, n.out) = ExpandSpan(e, RopeSpan(r))
<1>1. \A m \in ToSet(g.nodes) : Writer(g, m.out) = m
  <2> TAKE m \in ToSet(g.nodes)
  <2>1. PICK i \in DOMAIN g.nodes : g.nodes[i] = m
    BY DEF ToSet
  <2> QED
    BY <2>1 DEF Writer, WrittenOnce
<1>2. n.op = "RoPE" => Rotation(g, n.out) = RopeSpan(n)
  BY <1>1 DEF Rotation
<1>3. n.op \notin {"RoPE", "Identity"} => Rotation(g, n.out) = {}
  BY <1>1 DEF Rotation
<1>4. ASSUME NEW e \in ToSet(g.nodes), NEW r \in ToSet(g.nodes), n.op = "Identity",
             e.op = "MLAExpandK", e.out = n.ins[1], r.out = e.ins[2]
      PROVE  Rotation(g, n.out) = ExpandSpan(e, RopeSpan(r))
  <2>1. Writer(g, n.out) = n /\ Writer(g, n.ins[1]) = e /\ Writer(g, e.ins[2]) = r
    BY <1>1, <1>4
  <2> QED
    BY <1>4, <2>1 DEF Rotation
<1> QED
  BY <1>1, <1>2, <1>3, <1>4

(* For every file: unless it rotates latent keys in a way the query is not told  *)
(* of, the queries and keys of a session are rotated alike, whichever loader and  *)
(* whichever form of attention made them.                                         *)
THEOREM OperandsRotatedAlike == Spec => [](StatesRotation(file) => RotatedAlike)
<1>1. ImportInv => (StatesRotation(file) => RotatedAlike)
  <2> SUFFICES ASSUME ImportInv, StatesRotation(file), stage = "ready", NEW n \in Attentions
               PROVE  Rotation(graph, n.ins[1]) = Rotation(graph, n.ins[2])
    BY DEF RotatedAlike
  <2>1. WrittenOnce(graph) /\ AttendsAlike(ToSet(graph.nodes), n)
    BY DEF ImportInv, Right, Attends, Attentions
  <2>2. PICK q, k \in ToSet(graph.nodes) : /\ q.out = n.ins[1] /\ k.out = n.ins[2]
                                           /\ SameRotation(ToSet(graph.nodes), q, k)
    BY <2>1 DEF AttendsAlike
  <2>3. Rotation(graph, q.out) = Rotation(graph, k.out)
    <3>1. CASE q.op = "RoPE" /\ k.op = "RoPE" /\ RopeSpan(q) = RopeSpan(k)
      BY <2>1, <3>1, RotationIs
    <3>2. CASE q.op \notin {"RoPE", "Identity"} /\ k.op \notin {"RoPE", "Identity"}
      BY <2>1, <3>2, RotationIs
    <3>3. CASE /\ q.op = "RoPE" /\ k.op = "Identity"
               /\ \E e, r \in ToSet(graph.nodes) :
                     /\ e.op = "MLAExpandK" /\ e.out = k.ins[1] /\ r.out = e.ins[2]
                     /\ RopeSpan(q) = ExpandSpan(e, RopeSpan(r))
      BY <2>1, <3>3, RotationIs
    <3> QED
      BY <2>2, <3>1, <3>2, <3>3 DEF SameRotation
  <2> QED
    BY <2>2, <2>3
<1> QED
  BY <1>1, ImportInvariant, PTL

-----------------------------------------------------------------------------
(* The cache *)

(* The width of a tensor that a node of the graph computes. *)
LEMMA ComputedWidth ==
    ASSUME NEW g, WrittenOnce(g), Weighs(g.weights), NEW n \in ToSet(g.nodes), n.out[2] \in Operands
    PROVE  Width(g, n.out) = n.width
<1>1. n.out # Tokens /\ n.out \notin DOMAIN g.weights
  BY DEF Tokens, Operands, Weighs
<1>2. Writer(g, n.out) = n
  BY RotationIs
<1> QED
  BY <1>1, <1>2 DEF Width

(* The first value of a graph is as wide as every value, if there is one. *)
LEMMA FirstValue ==
    ASSUME Right(file, graph.nodes, li), NEW w,
           \A l : Made(file, l) => ValueWidth(file, l) = w
    PROVE  FirstOf({"v", "v0"}) \in {0, w}
<1> DEFINE found == {i \in DOMAIN graph.nodes : Len(graph.nodes[i].out) = 2 /\ graph.nodes[i].out[2] \in {"v", "v0"}}
           first == CHOOSE i \in found : \A j \in found : i <= j
<1>1. FirstOf({"v", "v0"}) = IF found = {} THEN 0 ELSE graph.nodes[first].width
  BY DEF FirstOf
<1>2. ASSUME found # {} PROVE graph.nodes[first].width = w
  <2>1. found \in SUBSET Nat
    <3>1. graph.nodes \in Seq(ToSet(graph.nodes))
      BY DEF Right, NodeList
    <3>2. DOMAIN graph.nodes = 1 .. Len(graph.nodes) /\ Len(graph.nodes) \in Nat
      BY <3>1
    <3> QED
      BY <3>2
  <2>2. first \in found
    <3> HIDE DEF found
    <3>1. \E i \in found : \A j \in found : i <= j
      BY <1>2, <2>1, LeastNat
    <3> QED
      BY <3>1
  <2> DEFINE n == graph.nodes[first]
  <2>3. n \in ToSet(graph.nodes) /\ n.out[2] \in {"v", "v0"}
    <3> HIDE DEF first
    <3> QED
      BY <2>2 DEF ToSet
  <2> HIDE DEF n, first, found
  <2>4. n.out[2] \in KvNames(file)
    <3>1. "v" \in KvNames(file) /\ "v0" \in KvNames(file)
      BY DEF KvNames, Operands
    <3> QED
      BY <2>3, <3>1
  <2>5. n.op # "Attention"
    BY <2>3, <2>4 DEF Right, Attends, Sized
  <2>6. n.width = ValueWidth(file, n.out[1]) /\ Made(file, n.out[1])
    BY <2>3, <2>4, <2>5 DEF Right, Calm
  <2>7. n.width = w
    BY <2>6
  <2> QED
    BY <2>7 DEF n
<1> QED
  BY <1>1, <1>2

(* What ensure_kv_cache makes of the metadata of a graph with an attention. *)
LEMMA CacheStep == ASSUME ImportInv, UniformCache(file), EnsureKvCache PROVE CacheFits'
<1> SUFFICES ASSUME NEW a \in Attentions
             PROVE  /\ a.attrs.layer < cache'.n_layers
                    /\ cache'.k_dim = In(graph, a, 2) /\ cache'.v_dim = In(graph, a, 3)
  <2>1. graph' = graph
    BY DEF EnsureKvCache
  <2>2. Attentions' = Attentions
    BY <2>1 DEF Attentions
  <2>3. \A a : In(graph, a, 2)' = In(graph, a, 2) /\ In(graph, a, 3)' = In(graph, a, 3)
    BY <2>1 DEF In, Width, Writer
  <2> QED
    BY <2>2, <2>3 DEF CacheFits
<1> DEFINE l == a.attrs.layer
           K == KeyWidth(file, 0)
           V == ValueWidth(file, 0)
           fv == FirstOf({"v", "v0"})
           k == Positive(meta.kv_dim, Positive(FirstOf({"k_rope"}), FirstOf({"k_full"})))
           v == Positive(meta.v_dim, Positive(fv, k))
           n == Positive(meta.n_layers, Cardinality(Attentions))
<1>1. /\ a \in ToSet(graph.nodes) /\ Attends(file, ToSet(graph.nodes), a, li)
      /\ Right(file, graph.nodes, li) /\ Weighs(graph.weights) /\ WrittenOnce(graph)
      /\ stage = "created" /\ graph' = graph /\ li \in Nat
  BY DEF ImportInv, EnsureKvCache, Attentions, Right, LayersAreBuilt
<1>2. l \in 0 .. (li - 1) /\ Made(file, l)
  BY <1>1 DEF Attends, Layered
<1>3. li > 0 /\ l < li
  BY <1>1, <1>2
<1>4. /\ li <= Layers /\ Made(file, 0) /\ Layers \in Int /\ ~ Refused
      /\ FileTyped(file) /\ file.fmt \in {"gguf", "hf"} /\ (file.fmt = "hf" => HfOpened(file))
      /\ meta = MetaOf(file, any_mla) /\ (any_mla <=> (Gguf /\ IsMla(file, 0)))
  <2>1. /\ li <= Layers /\ Made(file, 0) /\ ~ Refused
        /\ meta = MetaOf(file, any_mla) /\ (any_mla <=> (Gguf /\ IsMla(file, 0)))
    BY <1>1, <1>3 DEF ImportInv, LayersAreBuilt, MetaIsKnown
  <2>2. Layers \in Int /\ FileTyped(file) /\ file.fmt \in {"gguf", "hf"}
    BY LayersIs DEF ImportInv, Gguf
  <2>3. file.fmt = "hf" => HfOpened(file)
    BY <2>1, <2>2 DEF HfOpened, Refused, Gguf
  <2> QED
    BY <2>1, <2>2, <2>3
<1>5. /\ \A i : Made(file, i) => KeyWidth(file, i) = K /\ ValueWidth(file, i) = V
      /\ K > 0 /\ V > 0 /\ meta.kv_dim = K /\ (meta.v_dim = V \/ (meta.v_dim = 0 /\ V = K))
  BY <1>4, MetaIsRight DEF Gguf
<1>6. meta.n_layers = Layers
  BY <1>4 DEF MetaOf, GgufMeta, HfMeta, Layers, Gguf
<1>7. fv \in {0, V}
  BY <1>1, <1>5, FirstValue
<1>8. n = Layers /\ n > 0
  BY <1>1, <1>3, <1>4, <1>6 DEF Positive
<1>9. k = K /\ v = V
  <2> HIDE DEF K, V, fv
  <2>1. k = K
    BY <1>5 DEF Positive
  <2>2. v = V
    <3>1. CASE meta.v_dim = V
      BY <1>5, <3>1 DEF Positive
    <3>2. CASE meta.v_dim = 0 /\ V = K
      BY <1>5, <1>7, <2>1, <3>2 DEF Positive
    <3> QED
      BY <1>5, <3>1, <3>2
  <2> QED
    BY <2>1, <2>2
<1>10. cache' = [n_layers |-> Layers, k_dim |-> K, v_dim |-> V]
  <2>1. cache' = IF n = 0 \/ k = 0 THEN NoCache ELSE [n_layers |-> n, k_dim |-> k, v_dim |-> v]
    BY Zenon DEF EnsureKvCache
  <2> HIDE DEF n, k, v, K, V
  <2>2. n # 0 /\ k # 0
    BY <1>5, <1>8, <1>9
  <2> QED
    BY <1>8, <1>9, <2>1, <2>2
<1> HIDE DEF K, V, k, v, n, fv
<1>11. In(graph, a, 2) = KeyWidth(file, l) /\ In(graph, a, 3) = ValueWidth(file, l)
  <2>1. PICK kn \in ToSet(graph.nodes) : kn.out = a.ins[2] /\ kn.width = KeyWidth(file, l)
    BY <1>1 DEF Attends, Sized
  <2>2. PICK vn \in ToSet(graph.nodes) : vn.out = a.ins[3] /\ vn.width = ValueWidth(file, l)
    BY <1>1 DEF Attends, Sized
  <2>3. a.ins[2][2] \in Operands /\ a.ins[3][2] \in Operands
    BY <1>1 DEF Attends, Sized
  <2>4. Width(graph, kn.out) = kn.width /\ Width(graph, vn.out) = vn.width
    BY <1>1, <2>1, <2>2, <2>3, ComputedWidth
  <2> QED
    BY <2>1, <2>2, <2>4 DEF In
<1>12. In(graph, a, 2) = K /\ In(graph, a, 3) = V
  BY <1>2, <1>5, <1>11
<1>13. l < Layers
  BY <1>1, <1>2, <1>3, <1>4
<1> QED
  BY <1>10, <1>12, <1>13

(* For every file that has one width of key and of value: the cache a session sizes *)
(* from the metadata has a row of that width for every attention of its graph.       *)
THEOREM CacheFitsEveryLayer == Spec => [](UniformCache(file) => CacheFits)
<1> DEFINE Inv == UniformCache(file) => CacheFits
<1>1. Init => Inv
  BY DEF Init, CacheFits
<1>2. ImportInv /\ Inv /\ [Next]_vars => Inv'
  <2> SUFFICES ASSUME ImportInv, Inv, [Next]_vars PROVE Inv'
    OBVIOUS
  <2>1. CASE EnsureKvCache
    <3>1. file' = file
      BY <2>1 DEF EnsureKvCache
    <3> QED
      BY <2>1, <3>1, CacheStep
  <2>2. CASE stage' # "ready"
    BY <2>2 DEF CacheFits
  <2>3. CASE UNCHANGED <<file, stage, graph, cache>>
    BY <2>3 DEF CacheFits, Attentions, In, Width, Writer
  <2>4. ASSUME Next, ~ EnsureKvCache, stage' = "ready" PROVE UNCHANGED <<file, stage, graph, cache>>
    BY <2>4 DEF Next, WeightsOnly, OpenFile, ImportLayer, FinishGraph, CreateSession, Fail, Done, vars
  <2> QED
    BY <2>1, <2>2, <2>3, <2>4 DEF vars
<1> QED
  BY <1>1, <1>2, ImportInvariant, PTL DEF Spec

-----------------------------------------------------------------------------
(* The capability report *)

(* What PickLayout says of the tensors the report looks at. *)
LEMMA LayoutNeeds ==
    ASSUME NEW f
    PROVE  /\ PickLayout(f).q_norm => Listed(f, 0, "q_norm")
           /\ PickLayout(f).post_attn # NoName => Listed(f, 0, "pre_feedforward_layernorm")
           /\ PickLayout(f).wpe = Listed(f, Top, "wpe")
<1>1. PickLayout(f).q_norm => Listed(f, 0, "q_norm")
  BY DEF PickLayout
<1>2. PickLayout(f).wpe = Listed(f, Top, "wpe")
  BY Zenon DEF PickLayout
<1>3. ASSUME PickLayout(f).post_attn # NoName PROVE Listed(f, 0, "pre_feedforward_layernorm")
  <2>1. First(f, FfnForms)[1] = "pre_feedforward_layernorm"
    BY <1>3 DEF PickLayout
  <2> DEFINE found == {i \in DOMAIN FfnForms : Listed(f, 0, FfnForms[i][1])}
  <2>2. found # {} /\ found \in SUBSET (1 .. 4)
    BY <2>1 DEF First, FfnForms, NoName
  <2>3. \E i \in found : \A j \in found : i <= j
    <3> HIDE DEF found
    <3>1. CASE 1 \in found
      BY <2>2, <3>1
    <3>2. CASE 1 \notin found /\ 2 \in found
      BY <2>2, <3>2
    <3>3. CASE 1 \notin found /\ 2 \notin found /\ 3 \in found
      BY <2>2, <3>3
    <3>4. CASE 1 \notin found /\ 2 \notin found /\ 3 \notin found
      <4>1. ASSUME NEW j \in found PROVE j = 4
        <5>1. j \in 1 .. 4 /\ j # 1 /\ j # 2 /\ j # 3
          BY <2>2, <3>4
        <5> QED
          BY <5>1
      <4>2. 4 \in found
        BY <2>2, <4>1
      <4> QED
        BY <4>1, <4>2
    <3> QED
      BY <3>1, <3>2, <3>3, <3>4
  <2>4. PICK i \in found : First(f, FfnForms) = FfnForms[i]
    BY <2>2, <2>3 DEF First
  <2> QED
    BY <2>1, <2>4
<1> QED
  BY <1>1, <1>2, <1>3

(* For every directory: where the report blocks what becomes a session, the reason  *)
(* is a name that hf_inspect_directory spells out and pick_layout does not, a dtype   *)
(* or a shard header that cannot be read.  Every other reason is one of load().        *)
THEOREM InspectAgrees == Spec => []FalseReportsExplained
<1>1. ImportInv => FalseReportsExplained
  <2> SUFFICES ASSUME ImportInv, stage = "ready", ~ Gguf,
                      NamedAsReported(file), file.bad = {}, file.broken = {}
               PROVE  ~ HfInspectBlocks(file)
    BY DEF FalseReportsExplained
  <2>1. ~ HfRefused(file)
    BY DEF ImportInv, Refused
  <2>2. ~ HfLacksFamilyTensors(file, PickLayout(file))
    BY <2>1 DEF HfRefused
  <2>3. /\ file.json.family = "qwen3" => ListedAsModelLayer(file, "q_norm")
        /\ file.json.family = "gemma2" => ListedAsModelLayer(file, "pre_feedforward_layernorm")
        /\ file.json.family = "gpt2" =>
               file.wpe_name \in {"transformer.wpe", "wpe"} /\ Listed(file, Top, "wpe")
    BY <2>2, LayoutNeeds DEF HfLacksFamilyTensors, NamedAsReported, ListedAsModelLayer
  <2> QED
    BY <2>1, <2>3 DEF HfRefused, HfInspectBlocks
<1> QED
  BY <1>1, ImportInvariant, PTL
=============================================================================

--------------------------- MODULE BackendProofs ---------------------------
(* Proofs that the native runtimes leave nothing behind, whatever vendor call *)
(* fails, that a backend which is ready has what its kernels use, and that    *)
(* dispatch gives what the CPU gives.                                         *)
EXTENDS Backend, TLAPS

-----------------------------------------------------------------------------
(* Steps *)
Fields == {"get", "rel", "drop", "opt", "soft", "alt", "can"}

LEMMA GetStep ==
    ASSUME NEW r, NEW d
    PROVE  /\ Get(r, d).get = {r} /\ Get(r, d).rel = {} /\ Get(r, d).drop = d
           /\ Get(r, d).opt = 0 /\ ~Get(r, d).soft /\ ~Get(r, d).alt
           /\ DOMAIN Get(r, d) = Fields
BY DEF Get, Fields

LEMMA DoStep ==
    ASSUME NEW d
    PROVE  /\ Do(d).get = {} /\ Do(d).rel = {} /\ Do(d).drop = d
           /\ Do(d).opt = 0 /\ ~Do(d).soft /\ ~Do(d).alt
           /\ DOMAIN Do(d) = Fields
BY GetStep DEF Do, Fields

LEMMA OptStep ==
    ASSUME NEW s, NEW n, DOMAIN s = Fields
    PROVE  /\ Opt(s, n).get = s.get /\ Opt(s, n).rel = s.rel /\ Opt(s, n).drop = s.drop
           /\ Opt(s, n).opt = n /\ Opt(s, n).soft = s.soft /\ Opt(s, n).alt = s.alt
           /\ DOMAIN Opt(s, n) = Fields
BY DEF Opt, Fields

LEMMA RelStep ==
    ASSUME NEW s, NEW r, DOMAIN s = Fields
    PROVE  /\ Rel(s, r).get = s.get /\ Rel(s, r).rel = r /\ Rel(s, r).drop = s.drop
           /\ Rel(s, r).opt = s.opt /\ Rel(s, r).soft = s.soft /\ Rel(s, r).alt = s.alt
           /\ DOMAIN Rel(s, r) = Fields
BY DEF Rel, Fields

LEMMA SoftStep ==
    ASSUME NEW p, NEW i \in DOMAIN p, DOMAIN p[i] = Fields
    PROVE  /\ Soft(p)[i].get = p[i].get /\ Soft(p)[i].rel = p[i].rel
           /\ Soft(p)[i].drop = p[i].drop /\ Soft(p)[i].opt = p[i].opt
           /\ Soft(p)[i].alt = p[i].alt /\ Soft(p)[i].soft
           /\ DOMAIN Soft(p)[i] = Fields
BY DEF Soft, Fields

LEMMA StepWithin ==
    ASSUME NEW p, NEW i \in DOMAIN p, DOMAIN p[i] = Fields, NEW more
    PROVE  /\ Within(p, more)[i].get = p[i].get /\ Within(p, more)[i].rel = p[i].rel
           /\ Within(p, more)[i].drop = p[i].drop \cup more
           /\ Within(p, more)[i].opt = p[i].opt
           /\ Within(p, more)[i].alt = p[i].alt /\ Within(p, more)[i].soft = p[i].soft
           /\ DOMAIN Within(p, more)[i] = Fields
BY DEF Within, Fields

(* Sequences, one element after the other. *)
LEMMA Spelled ==
    ASSUME NEW p
    PROVE  /\ p = [i \in 1 .. 5 |-> p[i]] => p = <<p[1], p[2], p[3], p[4], p[5]>>
           /\ p = [i \in 1 .. 7 |-> p[i]] => p = <<p[1], p[2], p[3], p[4], p[5], p[6], p[7]>>
           /\ p = [i \in 1 .. 11 |-> p[i]] =>
                 p = <<p[1], p[2], p[3], p[4], p[5], p[6], p[7], p[8], p[9], p[10], p[11]>>
OBVIOUS

-----------------------------------------------------------------------------
(* A program is tidy when what a call holds before a step is what this step   *)
(* drops if it fails.  A step after whose failure the call goes on, and the   *)
(* last of Metal, may leave what the call is for (K); N: all it ever drops.   *)
RoomOf(s, K) == IF s.soft \/ "pipelines" \in s.get THEN s.drop \cup K ELSE s.drop
RoomAt(P, K, i) == IF i > Len(P) THEN K ELSE RoomOf(P[i], K)
TidyAt(P, K, N, J, i) ==
    LET s == P[i] IN
    /\ s.rel \subseteq N /\ s.drop \subseteq N
    /\ (RoomAt(P, K, i) \cup s.get) \ s.rel \subseteq RoomAt(P, K, i + 1)
    /\ s.opt \in 0 .. 2 /\ i + s.opt <= Len(P) + 1
    /\ s.opt > 0 => RoomAt(P, K, i) \subseteq RoomAt(P, K, i + s.opt)
    /\ s.alt => RoomAt(P, K, i) \subseteq K
    /\ s.soft => /\ J \in (i + 1) .. (Len(P) + 1)
                 /\ J <= Len(P) => ~P[J].soft
                 /\ \A k \in i .. (J - 1) : P[k].soft
                 /\ RoomAt(P, K, i) \ s.drop \subseteq RoomAt(P, K, J)
Tidy(P, K, N, J) ==
    /\ Len(P) \in Nat \ {0}
    /\ \A i \in 1 .. Len(P) : TidyAt(P, K, N, J, i)

Scratch == {"matmul_desc", "a_desc", "b_desc", "c_desc", "d_in", "d_out", "d_pos", "d_inv",
            "d_scores", "d_q", "d_k_full", "d_v_full", "cmd"}
Parts == {"mem", "buffer", "map"}

LEMMA RopeTidy == Tidy(Rope, {}, Scratch, 0)
<1> DEFINE in == {"d_in"}  out == {"d_in", "d_out"}  pos == {"d_in", "d_out", "d_pos"}
<1>1. /\ Len(Rope) = 11
      /\ Rope[1] = Opt(Get("d_in", in), 2) /\ Rope[2] = Do(in)
      /\ Rope[3] = Opt(Get("d_out", out), 1)
      /\ Rope[4] = Opt(Get("d_pos", pos), 2) /\ Rope[5] = Do(pos)
      /\ Rope[6] = Do(pos) /\ Rope[7] = Get("d_inv", pos)
      /\ Rope[8] = Do(RopeBufs) /\ Rope[9] = Do(RopeBufs) /\ Rope[10] = Do(RopeBufs)
      /\ Rope[11] = Rel(Do(RopeBufs), RopeBufs)
  BY DEF Rope, DeviceIn
<1>2. /\ \A i \in 1 .. 11 : ~Rope[i].soft /\ ~Rope[i].alt
      /\ Rope[1].opt = 2 /\ Rope[4].opt = 2 /\ Rope[3].opt = 1
      /\ \A i \in {2, 5, 6, 7, 8, 9, 10, 11} : Rope[i].opt = 0
      /\ Rope[1].get = {"d_in"} /\ Rope[3].get = {"d_out"} /\ Rope[4].get = {"d_pos"}
      /\ Rope[7].get = {"d_inv"} /\ \A i \in {2, 5, 6, 8, 9, 10, 11} : Rope[i].get = {}
      /\ \A i \in 1 .. 10 : Rope[i].rel = {}
      /\ Rope[11].rel = RopeBufs
      /\ Rope[1].drop = in /\ Rope[2].drop = in /\ Rope[3].drop = out
      /\ \A i \in 4 .. 7 : Rope[i].drop = pos
      /\ \A i \in 8 .. 11 : Rope[i].drop = RopeBufs
  BY <1>1, GetStep, DoStep, OptStep, RelStep
<1>3. ASSUME NEW i \in 1 .. 11 PROVE TidyAt(Rope, {}, Scratch, 0, i)
  <2>1. \A j \in 1 .. 11 : RoomAt(Rope, {}, j) = Rope[j].drop
    BY <1>1, <1>2 DEF RoomAt, RoomOf
  <2>2. RoomAt(Rope, {}, 12) = {}
    BY <1>1 DEF RoomAt
  <2> QED
    BY <1>1, <1>2, <2>1, <2>2 DEF TidyAt, Scratch, RopeBufs
<1> QED
  BY <1>1, <1>3 DEF Tidy

(* cuda_runtime_api.cpp: the Lt path keeps nothing, cublasSgemm starts afresh. *)
LEMMA GemmTidy == Tidy(Gemm, {}, Scratch, 8)
<1> DEFINE p == GemmLt
           s == Soft(p)
<1>1. /\ DOMAIN p = 1 .. 7 /\ \A i \in 1 .. 7 : DOMAIN p[i] = Fields
      /\ \A i \in 1 .. 7 : p[i].opt = 0 /\ ~p[i].alt
      /\ p[1].get = {"matmul_desc"} /\ p[3].get = {"a_desc"} /\ p[4].get = {"b_desc"}
      /\ p[5].get = {"c_desc"} /\ \A i \in {2, 6, 7} : p[i].get = {}
      /\ \A i \in 1 .. 6 : p[i].rel = {} /\ p[7].rel = LtDescs
      /\ p[1].drop = {} /\ \A i \in 2 .. 7 : p[i].drop = LtDescs
  BY GetStep, DoStep, RelStep DEF GemmLt
<1>2. /\ s = [i \in 1 .. 7 |-> s[i]]
      /\ \A i \in 1 .. 7 : /\ s[i].get = p[i].get /\ s[i].rel = p[i].rel /\ s[i].soft
                           /\ s[i].drop = p[i].drop /\ s[i].opt = 0 /\ ~s[i].alt
  BY <1>1, SoftStep DEF Soft
<1> HIDE DEF s, p
<1>3. s = <<s[1], s[2], s[3], s[4], s[5], s[6], s[7]>>
  BY <1>2, Spelled
<1> DEFINE sgemm == [Do({}) EXCEPT !.alt = TRUE]
<1>4. /\ sgemm.get = {} /\ sgemm.rel = {} /\ sgemm.drop = {} /\ sgemm.opt = 0 /\ ~sgemm.soft
  <2> DEFINE d == Do({})
  <2>1. /\ d.get = {} /\ d.rel = {} /\ d.drop = {} /\ d.opt = 0 /\ ~d.soft /\ DOMAIN d = Fields
    BY DoStep
  <2> HIDE DEF d
  <2>2. sgemm = [d EXCEPT !.alt = TRUE]
    BY DEF d
  <2> HIDE DEF sgemm
  <2>3. /\ sgemm.get = d.get /\ sgemm.rel = d.rel /\ sgemm.drop = d.drop /\ sgemm.opt = d.opt
        /\ sgemm.soft = d.soft
    BY <2>1, <2>2 DEF Fields
  <2> QED
    BY <2>1, <2>3
<1> HIDE DEF sgemm
<1>5. Gemm = <<s[1], s[2], s[3], s[4], s[5], s[6], s[7]>> \o <<sgemm>>
  <2>1. Gemm = s \o <<sgemm>>
    BY DEF Gemm, s, p, sgemm
  <2> QED
    BY <1>3, <2>1
<1>6. /\ Len(Gemm) = 8 /\ Gemm[8] = sgemm /\ \A i \in 1 .. 7 : Gemm[i] = s[i]
  BY <1>5
<1>7. ASSUME NEW i \in 1 .. 8 PROVE TidyAt(Gemm, {}, Scratch, 8, i)
  <2>1. \A j \in 1 .. 8 : RoomAt(Gemm, {}, j) = Gemm[j].drop
    BY <1>4, <1>6 DEF RoomAt, RoomOf
  <2>2. RoomAt(Gemm, {}, 9) = {}
    BY <1>6 DEF RoomAt
  <2>3. CASE i = 8
    BY <1>4, <1>6, <2>1, <2>2, <2>3 DEF TidyAt
  <2>4. CASE i \in 1 .. 7
    <3>1. /\ Gemm[i] = s[i] /\ s[i].soft /\ ~s[i].alt /\ s[i].opt = 0
          /\ s[i].rel \subseteq LtDescs /\ s[i].drop \subseteq LtDescs
      BY <1>1, <1>2, <1>6, <2>4
    <3>2. (RoomAt(Gemm, {}, i) \cup Gemm[i].get) \ Gemm[i].rel \subseteq RoomAt(Gemm, {}, i + 1)
      BY <1>1, <1>2, <1>4, <1>6, <2>1, <2>4 DEF LtDescs
    <3>3. LtDescs \subseteq Scratch
      BY DEF LtDescs, Scratch
    <3>4. ~Gemm[8].soft /\ \A k \in i .. 7 : Gemm[k].soft
      BY <1>2, <1>4, <1>6, <2>4
    <3> QED
      BY <1>6, <2>1, <2>4, <3>1, <3>2, <3>3, <3>4 DEF TidyAt
  <2> QED
    BY <2>3, <2>4
<1> QED
  BY <1>6, <1>7 DEF Tidy

LEMMA AttentionTidy == Tidy(Attention, {}, Scratch, 0)
<1> DEFINE q == {"d_q"}  out == {"d_q", "d_out"}  k == {"d_q", "d_out", "d_k_full"}
           a == AttentionDecode
           w == Within(a, AttnBufs)
           P == Attention
<1>1. /\ DOMAIN a = 1 .. 5 /\ \A i \in 1 .. 5 : DOMAIN a[i] = Fields
      /\ \A i \in 1 .. 5 : a[i].opt = 0 /\ ~a[i].alt /\ ~a[i].soft
      /\ a[1].get = {"d_scores"} /\ \A i \in 2 .. 5 : a[i].get = {}
      /\ \A i \in 1 .. 4 : a[i].rel = {} /\ a[5].rel = {"d_scores"}
      /\ a[1].drop = {} /\ \A i \in 2 .. 5 : a[i].drop = {"d_scores"}
  BY GetStep, DoStep, RelStep DEF AttentionDecode
<1>2. /\ w = [i \in 1 .. 5 |-> w[i]]
      /\ \A i \in 1 .. 5 : /\ w[i].get = a[i].get /\ w[i].rel = a[i].rel /\ w[i].soft = a[i].soft
                           /\ w[i].drop = a[i].drop \cup AttnBufs
                           /\ w[i].opt = a[i].opt /\ w[i].alt = a[i].alt
  <2> HIDE DEF a
  <2>1. w = [i \in 1 .. 5 |-> w[i]]
    BY <1>1 DEF Within
  <2>2. \A i \in 1 .. 5 : i \in DOMAIN a /\ DOMAIN a[i] = Fields
    BY <1>1
  <2> QED
    BY <2>1, <2>2, StepWithin
<1> HIDE DEF w, a
<1>3. w = <<w[1], w[2], w[3], w[4], w[5]>>
  BY <1>2, Spelled
<1>4. P = << Opt(Get("d_q", q), 2), Do(q), Opt(Get("d_out", out), 1), Get("d_k_full", out),
             Get("d_v_full", k), Do(AttnBufs) >>
          \o <<w[1], w[2], w[3], w[4], w[5]>>
          \o << Rel(Do(AttnBufs), AttnBufs), Do({}), Do({}) >>
  <2>1. P = AttentionPack \o w \o AttentionTail
    BY DEF Attention, w, a
  <2>2. P = AttentionPack \o <<w[1], w[2], w[3], w[4], w[5]>> \o AttentionTail
    BY <1>3, <2>1
  <2> QED
    BY <2>2 DEF AttentionPack, AttentionTail, DeviceIn
<1> HIDE DEF P
<1>5. /\ Len(P) = 14
      /\ P[1] = Opt(Get("d_q", q), 2) /\ P[2] = Do(q) /\ P[3] = Opt(Get("d_out", out), 1)
      /\ P[4] = Get("d_k_full", out) /\ P[5] = Get("d_v_full", k) /\ P[6] = Do(AttnBufs)
      /\ P[7] = w[1] /\ P[8] = w[2] /\ P[9] = w[3] /\ P[10] = w[4] /\ P[11] = w[5]
      /\ P[12] = Rel(Do(AttnBufs), AttnBufs) /\ P[13] = Do({}) /\ P[14] = Do({})
  BY <1>4
<1>6. /\ \A i \in 1 .. 14 : ~P[i].soft /\ ~P[i].alt
      /\ P[1].opt = 2 /\ P[3].opt = 1 /\ P[2].opt = 0 /\ \A i \in 4 .. 14 : P[i].opt = 0
  BY <1>1, <1>2, <1>5, GetStep, DoStep, OptStep, RelStep
<1>7. /\ P[1].get = {"d_q"} /\ P[3].get = {"d_out"} /\ P[4].get = {"d_k_full"}
      /\ P[5].get = {"d_v_full"} /\ P[7].get = {"d_scores"}
      /\ P[2].get = {} /\ P[6].get = {} /\ \A i \in 8 .. 14 : P[i].get = {}
      /\ \A i \in 1 .. 10 : P[i].rel = {}
      /\ P[11].rel = {"d_scores"} /\ P[12].rel = AttnBufs /\ P[13].rel = {} /\ P[14].rel = {}
  BY <1>1, <1>2, <1>5, GetStep, DoStep, OptStep, RelStep
<1>8. /\ P[1].drop = q /\ P[2].drop = q /\ P[3].drop = out /\ P[4].drop = out /\ P[5].drop = k
      /\ P[6].drop = AttnBufs /\ P[7].drop = AttnBufs
      /\ \A i \in 8 .. 11 : P[i].drop = {"d_scores"} \cup AttnBufs
      /\ P[12].drop = AttnBufs /\ P[13].drop = {} /\ P[14].drop = {}
  <2>1. /\ P[1].drop = q /\ P[2].drop = q /\ P[3].drop = out /\ P[4].drop = out /\ P[5].drop = k
        /\ P[6].drop = AttnBufs
    BY <1>5, GetStep, DoStep, OptStep
  <2>2. /\ w[1].drop = AttnBufs /\ \A i \in 2 .. 5 : w[i].drop = {"d_scores"} \cup AttnBufs
    <3>1. \A i \in 1 .. 5 : w[i].drop = a[i].drop \cup AttnBufs
      BY <1>2
    <3>2. w[1].drop = {} \cup AttnBufs
      <4>1. w[1].drop = a[1].drop \cup AttnBufs
        BY <3>1
      <4>2. a[1].drop = {}
        BY <1>1
      <4> QED
        BY <4>1, <4>2
    <3>3. \A i \in 2 .. 5 : w[i].drop = {"d_scores"} \cup AttnBufs
      BY <1>1, <3>1
    <3> QED
      BY <3>2, <3>3
  <2>3. P[12].drop = AttnBufs /\ P[13].drop = {} /\ P[14].drop = {}
    BY <1>5, DoStep, RelStep
  <2> QED
    BY <1>5, <2>1, <2>2, <2>3
<1>9. ASSUME NEW i \in 1 .. 14 PROVE TidyAt(P, {}, Scratch, 0, i)
  <2>1. \A j \in 1 .. 14 : RoomAt(P, {}, j) = P[j].drop
    BY <1>5, <1>6, <1>7 DEF RoomAt, RoomOf
  <2>2. RoomAt(P, {}, 15) = {}
    BY <1>5 DEF RoomAt
  <2>3. P[i].rel \subseteq Scratch /\ P[i].drop \subseteq Scratch
    BY <1>7, <1>8 DEF Scratch, AttnBufs
  <2>4. (RoomAt(P, {}, i) \cup P[i].get) \ P[i].rel \subseteq RoomAt(P, {}, i + 1)
    BY <1>7, <1>8, <2>1, <2>2 DEF AttnBufs
  <2>5. /\ P[i].opt \in 0 .. 2 /\ i + P[i].opt <= 15
        /\ P[i].opt > 0 => RoomAt(P, {}, i) \subseteq RoomAt(P, {}, i + P[i].opt)
    BY <1>6, <1>8, <2>1
  <2> QED
    BY <1>5, <1>6, <2>3, <2>4, <2>5 DEF TidyAt
<1> QED
  BY <1>5, <1>9 DEF Tidy, P

(* vulkan_runtime_api.cpp: the command buffer is freed once it is submitted. *)
LEMMA SubmitTidy == Tidy(SubmitCompute, {}, Scratch, 0)
<1> DEFINE P == SubmitCompute
<1>1. /\ Len(P) = 5 /\ \A i \in 1 .. 5 : ~P[i].soft /\ ~P[i].alt /\ P[i].opt = 0
      /\ P[1].get = {"cmd"} /\ \A i \in 2 .. 5 : P[i].get = {}
      /\ P[4].rel = {"cmd"} /\ \A i \in {1, 2, 3, 5} : P[i].rel = {}
      /\ P[1].drop = {} /\ P[5].drop = {} /\ \A i \in 2 .. 4 : P[i].drop = {"cmd"}
  BY GetStep, DoStep, RelStep DEF SubmitCompute
<1> HIDE DEF P
<1>2. \A i \in 1 .. 6 : RoomAt(P, {}, i) = IF i \in 2 .. 4 THEN {"cmd"} ELSE {}
  <2>1. \A i \in 1 .. 5 : RoomAt(P, {}, i) = P[i].drop
    BY <1>1 DEF RoomAt, RoomOf
  <2>2. RoomAt(P, {}, 6) = {}
    BY <1>1 DEF RoomAt
  <2> QED
    BY <1>1, <2>1, <2>2
<1>3. \A i \in 1 .. 5 : TidyAt(P, {}, Scratch, 0, i)
  BY <1>1, <1>2 DEF TidyAt, Scratch
<1> QED
  BY <1>1, <1>3 DEF Tidy, P

-----------------------------------------------------------------------------
(* The init functions.  A program reaches R at step i if it has acquired R by  *)
(* then.                                                                       *)
Reaches(P, R, i) == \A r \in R : \E j \in 1 .. (i - 1) : r \in P[j].get

(* What every kernel of the runtime uses, with or without pipelines. *)
Basics(a) ==
    CASE a = "cuda" -> {"stream", "copy_stream", "cublas"} [] a = "rocm" -> RocmHandles
      [] a = "vulkan" -> {"instance", "device", "cmd_pool"} [] a = "webgpu" -> WebgpuHandles
      [] a = "metal" -> {"device", "queue"}

(* A failure that is swallowed leaves the basics, and of the pipeline nothing. *)
InitBuilds(P, a) ==
    /\ \A i \in 1 .. Len(P) : P[i].opt = 0 /\ ~P[i].alt /\ P[i].rel \subseteq {"shader"}
    /\ Reaches(P, Basics(a), Len(P) + 1)
    /\ \A i \in 1 .. Len(P) : P[i].soft =>
          Reaches(P, Basics(a), i) /\ P[i].drop \cap Basics(a) = {}

LEMMA CudaInitTidy ==
    /\ Tidy(CudaInit, CudaHandles, CudaHandles, 7) /\ InitBuilds(CudaInit, "cuda")
    /\ Len(CudaInit) = 6
<1> DEFINE P == CudaInit
           all == {"cublas", "copy_stream", "stream"}
           soft == Soft(<< Get("cublaslt", {}) >>)
<1>1. /\ soft = << soft[1] >>
      /\ soft[1].get = {"cublaslt"} /\ soft[1].rel = {} /\ soft[1].drop = {}
      /\ soft[1].opt = 0 /\ soft[1].soft /\ ~soft[1].alt
  <2> DEFINE p == << Get("cublaslt", {}) >>
  <2>1. /\ 1 \in DOMAIN p /\ DOMAIN p = 1 .. 1 /\ DOMAIN p[1] = Fields
        /\ p[1].get = {"cublaslt"} /\ p[1].rel = {} /\ p[1].drop = {}
        /\ p[1].opt = 0 /\ ~p[1].alt
    BY GetStep
  <2> HIDE DEF p
  <2>2. DOMAIN Soft(p) = 1 .. 1 /\ Soft(p) = [i \in 1 .. 1 |-> Soft(p)[i]]
    BY <2>1 DEF Soft
  <2>3. /\ Soft(p)[1].get = {"cublaslt"} /\ Soft(p)[1].rel = {} /\ Soft(p)[1].drop = {}
        /\ Soft(p)[1].opt = 0 /\ Soft(p)[1].soft /\ ~Soft(p)[1].alt
    BY <2>1, SoftStep
  <2>4. Soft(p) = << Soft(p)[1] >>
    BY <2>2
  <2> QED
    BY <2>3, <2>4 DEF p
<1> HIDE DEF soft
<1>2. P = << Do({}), Get("stream", {}), Get("copy_stream", {"stream"}),
             Get("cublas", {"copy_stream", "stream"}), Do(all) >> \o << soft[1] >>
  BY <1>1 DEF CudaInit, soft
<1> HIDE DEF P
<1>3. /\ Len(P) = 6 /\ P[1] = Do({}) /\ P[2] = Get("stream", {})
      /\ P[3] = Get("copy_stream", {"stream"}) /\ P[4] = Get("cublas", {"copy_stream", "stream"})
      /\ P[5] = Do(all) /\ P[6] = soft[1]
  BY <1>2
<1>4. /\ P[1].get = {} /\ P[2].get = {"stream"} /\ P[3].get = {"copy_stream"}
      /\ P[4].get = {"cublas"} /\ P[5].get = {} /\ P[6].get = {"cublaslt"}
      /\ P[1].drop = {} /\ P[2].drop = {} /\ P[3].drop = {"stream"}
      /\ P[4].drop = {"copy_stream", "stream"} /\ P[5].drop = all /\ P[6].drop = {}
  BY <1>1, <1>3, GetStep, DoStep
<1>5. /\ \A i \in 1 .. 6 : P[i].rel = {} /\ P[i].opt = 0 /\ ~P[i].alt
      /\ \A i \in 1 .. 5 : ~P[i].soft
      /\ P[6].soft
  BY <1>1, <1>3, GetStep, DoStep
<1>6. ASSUME NEW i \in 1 .. 6 PROVE TidyAt(P, CudaHandles, CudaHandles, 7, i)
  <2>1. \A j \in 1 .. 5 : RoomAt(P, CudaHandles, j) = P[j].drop
    BY <1>3, <1>4, <1>5 DEF RoomAt, RoomOf
  <2>2. RoomAt(P, CudaHandles, 6) = CudaHandles /\ RoomAt(P, CudaHandles, 7) = CudaHandles
    BY <1>3, <1>4, <1>5 DEF RoomAt, RoomOf
  <2>3. P[i].drop \subseteq CudaHandles /\ P[i].rel = {}
    BY <1>4, <1>5 DEF CudaHandles
  <2>4. RoomAt(P, CudaHandles, i) \cup P[i].get \subseteq RoomAt(P, CudaHandles, i + 1)
    BY <1>4, <2>1, <2>2 DEF CudaHandles
  <2>5. P[i].soft => i = 6
    BY <1>5
  <2> QED
    BY <1>3, <1>5, <2>2, <2>3, <2>4, <2>5 DEF TidyAt
<1>7. Reaches(P, Basics("cuda"), 6) /\ Reaches(P, Basics("cuda"), 7)
  BY <1>4 DEF Reaches, Basics
<1>8. InitBuilds(P, "cuda")
  BY <1>3, <1>4, <1>5, <1>7 DEF InitBuilds
<1> QED
  BY <1>3, <1>6, <1>8 DEF Tidy, P

LEMMA RocmInitTidy ==
    Tidy(RocmInit, RocmHandles, RocmHandles, 0) /\ InitBuilds(RocmInit, "rocm")
<1> DEFINE P == RocmInit
           K == RocmHandles
<1>1. /\ Len(P) = 3 /\ \A i \in 1 .. 3 : ~P[i].soft /\ ~P[i].alt /\ P[i].opt = 0 /\ P[i].rel = {}
      /\ P[1].get = {} /\ P[2].get = {"stream"} /\ P[3].get = {"blas"}
      /\ P[1].drop = {} /\ P[2].drop = {} /\ P[3].drop = {"stream"}
  BY GetStep, DoStep DEF RocmInit
<1> HIDE DEF P
<1>2. /\ RoomAt(P, K, 1) = {} /\ RoomAt(P, K, 2) = {} /\ RoomAt(P, K, 3) = {"stream"}
      /\ RoomAt(P, K, 4) = K
  BY <1>1 DEF RoomAt, RoomOf
<1>3. \A i \in 1 .. 3 : TidyAt(P, K, K, 0, i)
  BY <1>1, <1>2 DEF TidyAt, RocmHandles
<1>4. Reaches(P, Basics("rocm"), 4)
  BY <1>1 DEF Reaches, Basics, RocmHandles
<1>5. InitBuilds(P, "rocm")
  BY <1>1, <1>4 DEF InitBuilds
<1> QED
  BY <1>1, <1>3, <1>5 DEF Tidy, P

LEMMA WebgpuInitTidy ==
    Tidy(WebgpuInit, WebgpuHandles, WebgpuHandles, 0) /\ InitBuilds(WebgpuInit, "webgpu")
<1> DEFINE P == WebgpuInit
           K == WebgpuHandles
<1>1. /\ Len(P) = 4 /\ \A i \in 1 .. 4 : ~P[i].soft /\ ~P[i].alt /\ P[i].opt = 0 /\ P[i].rel = {}
  BY DEF WebgpuInit, Get
<1>2. /\ P[1].get = {"instance"} /\ P[2].get = {"adapter"} /\ P[3].get = {"device"}
      /\ P[4].get = {"queue"}
      /\ P[1].drop = {} /\ P[2].drop = {"instance"} /\ P[3].drop = {"adapter", "instance"}
      /\ P[4].drop = {"device", "adapter", "instance"}
  BY DEF WebgpuInit, Get
<1> HIDE DEF P
<1>3. /\ RoomAt(P, K, 1) = {} /\ RoomAt(P, K, 2) = {"instance"}
      /\ RoomAt(P, K, 3) = {"adapter", "instance"}
      /\ RoomAt(P, K, 4) = {"device", "adapter", "instance"} /\ RoomAt(P, K, 5) = K
  BY <1>1, <1>2 DEF RoomAt, RoomOf
<1>4. \A i \in 1 .. 4 : TidyAt(P, K, K, 0, i)
  BY <1>1, <1>2, <1>3 DEF TidyAt, WebgpuHandles
<1>5. Reaches(P, Basics("webgpu"), 5)
  BY <1>2 DEF Reaches, Basics, WebgpuHandles
<1>6. InitBuilds(P, "webgpu")
  BY <1>1, <1>5 DEF InitBuilds
<1> QED
  BY <1>1, <1>4, <1>6 DEF Tidy, P

LEMMA MetalInitTidy ==
    /\ Tidy(MetalInit, MetalHandles, MetalHandles, 0) /\ InitBuilds(MetalInit, "metal")
    /\ Len(MetalInit) = 3 /\ MetalInit[1].get = {"device"}
    /\ MetalInit[2].get = {"queue"} /\ MetalInit[3].get = {"pipelines"}
    /\ MetalInit[2].drop = {"device"} /\ MetalInit[3].drop = {}
    /\ \A i \in 1 .. 2 : "pipelines" \notin MetalInit[i].get
<1> DEFINE P == MetalInit
           K == MetalHandles
<1>1. /\ Len(P) = 3 /\ \A i \in 1 .. 3 : ~P[i].soft /\ ~P[i].alt /\ P[i].opt = 0 /\ P[i].rel = {}
      /\ P[1].get = {"device"} /\ P[2].get = {"queue"} /\ P[3].get = {"pipelines"}
      /\ P[1].drop = {} /\ P[2].drop = {"device"} /\ P[3].drop = {}
  BY GetStep DEF MetalInit
<1> HIDE DEF P
<1>2. /\ RoomAt(P, K, 1) = {} /\ RoomAt(P, K, 2) = {"device"} /\ RoomAt(P, K, 3) = K
      /\ RoomAt(P, K, 4) = K
  BY <1>1 DEF RoomAt, RoomOf
<1>3. \A i \in 1 .. 3 : TidyAt(P, K, K, 0, i)
  BY <1>1, <1>2 DEF TidyAt, MetalHandles
<1>4. Reaches(P, Basics("metal"), 4)
  BY <1>1 DEF Reaches, Basics
<1>5. InitBuilds(P, "metal")
  BY <1>1, <1>4 DEF InitBuilds
<1> QED
  BY <1>1, <1>3, <1>5 DEF Tidy, P

(* The basics come before the pipeline, which is complete or dropped whole. *)
LEMMA VulkanInitTidy ==
    /\ Tidy(VulkanInit, VulkanHandles, VulkanHandles \cup {"shader"}, 17)
    /\ InitBuilds(VulkanInit, "vulkan")
    /\ Len(VulkanInit) = 16 /\ Reaches(VulkanInit, PipelineParts, 17)
    /\ \A i \in 1 .. 16 : VulkanInit[i].soft => "param_map" \in VulkanInit[i].drop
<1> DEFINE a == BuildAddPipeline
           w == Within(a, PipelineParts)
           s == Soft(w)
           P == VulkanInit
           K == VulkanHandles
<1>1. /\ DOMAIN a = 1 .. 11 /\ \A i \in 1 .. 11 : DOMAIN a[i] = Fields
      /\ \A i \in 1 .. 11 : a[i].opt = 0 /\ ~a[i].alt
      /\ a[4].rel = {"shader"} /\ \A i \in 1 .. 11 : i # 4 => a[i].rel = {}
      /\ a[1].drop = {} /\ \A i \in 2 .. 4 : a[i].drop = {"shader"}
      /\ \A i \in 5 .. 11 : a[i].drop = {}
  BY GetStep, DoStep, RelStep DEF BuildAddPipeline
<1>2. /\ a[1].get = {"shader"} /\ a[2].get = {"dsl"} /\ a[3].get = {"layout"} /\ a[4].get = {"pipe"}
      /\ a[5].get = {"pool"} /\ a[7].get = {"param_buf"} /\ a[9].get = {"param_mem"}
      /\ a[11].get = {"param_map"} /\ a[6].get = {} /\ a[8].get = {} /\ a[10].get = {}
  BY GetStep, DoStep, RelStep DEF BuildAddPipeline
<1> HIDE DEF a
<1>3. /\ DOMAIN w = 1 .. 11
      /\ \A i \in 1 .. 11 : /\ w[i].get = a[i].get /\ w[i].rel = a[i].rel
                            /\ w[i].drop = a[i].drop \cup PipelineParts
                            /\ w[i].opt = a[i].opt /\ w[i].alt = a[i].alt
                            /\ DOMAIN w[i] = Fields
  <2>1. DOMAIN w = 1 .. 11
    BY <1>1 DEF Within
  <2>2. \A i \in 1 .. 11 : i \in DOMAIN a /\ DOMAIN a[i] = Fields
    BY <1>1
  <2> QED
    BY <2>1, <2>2, StepWithin
<1> HIDE DEF w
<1>4. /\ s = [i \in 1 .. 11 |-> s[i]]
      /\ \A i \in 1 .. 11 : /\ s[i].get = a[i].get /\ s[i].rel = a[i].rel /\ s[i].soft
                            /\ s[i].drop = a[i].drop \cup PipelineParts
                            /\ s[i].opt = a[i].opt /\ s[i].alt = a[i].alt
  <2>1. s = [i \in 1 .. 11 |-> s[i]]
    BY <1>3 DEF Soft
  <2>2. \A i \in 1 .. 11 : i \in DOMAIN w /\ DOMAIN w[i] = Fields
    BY <1>3
  <2>3. \A i \in 1 .. 11 : /\ s[i].get = w[i].get /\ s[i].rel = w[i].rel /\ s[i].soft
                           /\ s[i].drop = w[i].drop /\ s[i].opt = w[i].opt /\ s[i].alt = w[i].alt
    BY <2>2, SoftStep
  <2> QED
    BY <1>3, <2>1, <2>3
<1> HIDE DEF s
<1>5. P = << Get("instance", {}), Do({"instance"}), Do({"instance"}), Get("device", {"instance"}),
             Get("cmd_pool", {"device", "instance"}) >>
          \o <<s[1], s[2], s[3], s[4], s[5], s[6], s[7], s[8], s[9], s[10], s[11]>>
  <2>1. s = <<s[1], s[2], s[3], s[4], s[5], s[6], s[7], s[8], s[9], s[10], s[11]>>
    BY <1>4, Spelled
  <2>2. P = << Get("instance", {}), Do({"instance"}), Do({"instance"}), Get("device", {"instance"}),
               Get("cmd_pool", {"device", "instance"}) >> \o s
    BY DEF VulkanInit, s, w, a
  <2> HIDE DEF P
  <2> QED
    BY <2>1, <2>2
<1> HIDE DEF P
<1>6. /\ Len(P) = 16
      /\ P[1] = Get("instance", {}) /\ P[2] = Do({"instance"}) /\ P[3] = Do({"instance"})
      /\ P[4] = Get("device", {"instance"}) /\ P[5] = Get("cmd_pool", {"device", "instance"})
      /\ \A i \in 6 .. 16 : P[i] = s[i - 5]
  BY <1>5
<1>7. /\ \A i \in 1 .. 5 : P[i].rel = {} /\ P[i].opt = 0 /\ ~P[i].alt /\ ~P[i].soft
      /\ P[1].get = {"instance"} /\ P[2].get = {} /\ P[3].get = {} /\ P[4].get = {"device"}
      /\ P[5].get = {"cmd_pool"}
      /\ P[1].drop = {} /\ P[2].drop = {"instance"} /\ P[3].drop = {"instance"}
      /\ P[4].drop = {"instance"} /\ P[5].drop = {"device", "instance"}
  BY <1>6, GetStep, DoStep
<1>8. \A i \in 6 .. 16 : /\ P[i].soft /\ ~P[i].alt /\ P[i].opt = 0
                         /\ P[i].get = a[i - 5].get /\ P[i].rel = a[i - 5].rel
                         /\ P[i].drop = a[i - 5].drop \cup PipelineParts
  <2> SUFFICES ASSUME NEW i \in 6 .. 16
               PROVE  /\ P[i].soft /\ ~P[i].alt /\ P[i].opt = 0
                      /\ P[i].get = a[i - 5].get /\ P[i].rel = a[i - 5].rel
                      /\ P[i].drop = a[i - 5].drop \cup PipelineParts
    OBVIOUS
  <2>1. i - 5 \in 1 .. 11 /\ P[i] = s[i - 5]
    BY <1>6
  <2> QED
    BY <1>1, <1>4, <2>1
<1>9. /\ P[6].get = {"shader"} /\ P[7].get = {"dsl"} /\ P[8].get = {"layout"} /\ P[9].get = {"pipe"}
      /\ P[10].get = {"pool"} /\ P[12].get = {"param_buf"} /\ P[14].get = {"param_mem"}
      /\ P[16].get = {"param_map"} /\ P[11].get = {} /\ P[13].get = {} /\ P[15].get = {}
  BY <1>2, <1>8
<1>10. /\ P[9].rel = {"shader"} /\ \A i \in 1 .. 16 : i # 9 => P[i].rel = {}
       /\ \A i \in 7 .. 9 : P[i].drop = {"shader"} \cup PipelineParts
       /\ \A i \in 6 .. 16 : i \notin 7 .. 9 => P[i].drop = {} \cup PipelineParts
  <2>1. ASSUME NEW i \in 6 .. 16
        PROVE  /\ P[i].rel = IF i = 9 THEN {"shader"} ELSE {}
               /\ P[i].drop = (IF i \in 7 .. 9 THEN {"shader"} ELSE {}) \cup PipelineParts
    <3>1. /\ i - 5 \in 1 .. 11 /\ (i - 5 = 4 <=> i = 9) /\ (i - 5 \in 2 .. 4 <=> i \in 7 .. 9)
          /\ i - 5 = 1 \/ i - 5 \in 2 .. 4 \/ i - 5 \in 5 .. 11
      OBVIOUS
    <3>2. a[i - 5].rel = IF i = 9 THEN {"shader"} ELSE {}
      BY <1>1, <3>1
    <3>3. a[i - 5].drop = IF i \in 7 .. 9 THEN {"shader"} ELSE {}
      BY <1>1, <3>1
    <3> QED
      BY <1>8, <3>2, <3>3
  <2>2. /\ P[9].rel = {"shader"} /\ \A i \in 6 .. 16 : i # 9 => P[i].rel = {}
        /\ \A i \in 7 .. 9 : P[i].drop = {"shader"} \cup PipelineParts
        /\ \A i \in 6 .. 16 : i \notin 7 .. 9 => P[i].drop = {} \cup PipelineParts
    <3>1. ASSUME NEW i \in 7 .. 9 PROVE P[i].drop = {"shader"} \cup PipelineParts
      BY <2>1
    <3>2. ASSUME NEW i \in 6 .. 16, i \notin 7 .. 9 PROVE P[i].drop = {} \cup PipelineParts
      BY <2>1, <3>2
    <3>3. P[9].rel = {"shader"} /\ \A i \in 6 .. 16 : i # 9 => P[i].rel = {}
      BY <2>1
    <3> QED
      BY <3>1, <3>2, <3>3
  <2>3. \A i \in 1 .. 16 : i \in 1 .. 5 \/ i \in 6 .. 16
    OBVIOUS
  <2>4. \A i \in 1 .. 16 : i # 9 => P[i].rel = {}
    BY <1>7, <2>2, <2>3
  <2> QED
    BY <2>2, <2>4
<1>11. /\ RoomAt(P, K, 17) = K
       /\ \A i \in 1 .. 5 : RoomAt(P, K, i) = P[i].drop
       /\ \A i \in 6 .. 16 : RoomAt(P, K, i) = P[i].drop \cup K
  BY <1>6, <1>7, <1>8 DEF RoomAt, RoomOf
<1>12. ASSUME NEW i \in 1 .. 16 PROVE TidyAt(P, K, K \cup {"shader"}, 17, i)
  <2>1. P[i].rel \subseteq K \cup {"shader"} /\ P[i].drop \subseteq K \cup {"shader"}
    BY <1>7, <1>10 DEF VulkanHandles
  <2>2. (RoomAt(P, K, i) \cup P[i].get) \ P[i].rel \subseteq RoomAt(P, K, i + 1)
    <3>1. CASE i \in 1 .. 5
      <4>1. /\ RoomAt(P, K, 1) = {} /\ RoomAt(P, K, 5) = {"device", "instance"}
            /\ \A j \in 2 .. 4 : RoomAt(P, K, j) = {"instance"}
        BY <1>7, <1>11
      <4>2. {"device", "instance", "cmd_pool"} \subseteq RoomAt(P, K, 6)
        <5>1. RoomAt(P, K, 6) = P[6].drop \cup K
          BY <1>11
        <5> QED
          BY <5>1 DEF VulkanHandles
      <4> QED
        BY <1>7, <3>1, <4>1, <4>2
    <3>2. CASE i \in 6 .. 16
      BY <1>9, <1>10, <1>11, <3>2 DEF VulkanHandles, PipelineParts
    <3> QED
      BY <3>1, <3>2
  <2>3. P[i].opt = 0 /\ ~P[i].alt
    BY <1>7, <1>8
  <2>4. P[i].soft => /\ \A k \in i .. 16 : P[k].soft
                     /\ RoomAt(P, K, i) \ P[i].drop \subseteq RoomAt(P, K, 17)
    BY <1>7, <1>8, <1>11
  <2> QED
    BY <1>6, <2>1, <2>2, <2>3, <2>4 DEF TidyAt
<1>13. Reaches(P, PipelineParts, 17)
  BY <1>9 DEF Reaches, PipelineParts
<1>14. \A i \in 6 .. 17 : Reaches(P, Basics("vulkan"), i)
  BY <1>7 DEF Reaches, Basics
<1>15. \A i \in 1 .. 16 : P[i].soft => "param_map" \in P[i].drop /\ P[i].drop \cap Basics("vulkan") = {}
  BY <1>7, <1>10 DEF Basics, PipelineParts
<1>16. InitBuilds(P, "vulkan")
  BY <1>6, <1>7, <1>8, <1>10, <1>14, <1>15 DEF InitBuilds
<1> QED
  BY <1>6, <1>12, <1>13, <1>15, <1>16 DEF Tidy, P

-----------------------------------------------------------------------------
(* The allocate functions: the last call gives the memory or its mapping, and *)
(* each failure before it gives back all.                                      *)
AllocationGives(P) ==
    /\ \A i \in 1 .. Len(P) : ~P[i].soft /\ ~P[i].alt /\ P[i].opt = 0 /\ P[i].rel = {}
    /\ \E r \in Parts : r \in P[Len(P)].get

LEMMA OneCallTidy ==
    ASSUME NEW r \in Parts, NEW P, P = << Get(r, {}) >>
    PROVE  Tidy(P, Parts, Parts, 0) /\ AllocationGives(P)
<1>1. /\ Len(P) = 1 /\ ~P[1].soft /\ ~P[1].alt /\ P[1].opt = 0 /\ P[1].rel = {}
      /\ P[1].get = {r} /\ P[1].drop = {}
  BY GetStep
<1>2. RoomAt(P, Parts, 1) = {} /\ RoomAt(P, Parts, 2) = Parts
  BY <1>1 DEF RoomAt, RoomOf, Parts
<1>3. TidyAt(P, Parts, Parts, 0, 1)
  BY <1>1, <1>2 DEF TidyAt
<1>4. \A i \in 1 .. 1 : i = 1
  OBVIOUS
<1> QED
  BY <1>1, <1>3, <1>4 DEF Tidy, AllocationGives

LEMMA VulkanAllocateTidy ==
    Tidy(VulkanAllocate, Parts, Parts, 0) /\ AllocationGives(VulkanAllocate)
<1> DEFINE P == VulkanAllocate
<1>1. /\ Len(P) = 5 /\ \A i \in 1 .. 5 : ~P[i].soft /\ ~P[i].alt /\ P[i].opt = 0 /\ P[i].rel = {}
      /\ P[1].get = {"buffer"} /\ P[2].get = {} /\ P[3].get = {"mem"} /\ P[4].get = {}
      /\ P[5].get = {"map"}
      /\ P[1].drop = {} /\ P[2].drop = {"buffer"} /\ P[3].drop = {"buffer"}
      /\ P[4].drop = {"mem", "buffer"} /\ P[5].drop = {"mem", "buffer"}
  BY GetStep, DoStep DEF VulkanAllocate
<1> HIDE DEF P
<1>2. (\A i \in 1 .. 5 : RoomAt(P, Parts, i) = P[i].drop) /\ RoomAt(P, Parts, 6) = Parts
  BY <1>1 DEF RoomAt, RoomOf
<1>3. \A i \in 1 .. 5 : TidyAt(P, Parts, Parts, 0, i)
  BY <1>1, <1>2 DEF TidyAt, Parts
<1> QED
  BY <1>1, <1>3 DEF Tidy, AllocationGives, Parts, P

LEMMA WebgpuAllocateTidy ==
    Tidy(WebgpuAllocate, Parts, Parts, 0) /\ AllocationGives(WebgpuAllocate)
<1> DEFINE P == WebgpuAllocate
<1>1. /\ Len(P) = 2 /\ \A i \in 1 .. 2 : ~P[i].soft /\ ~P[i].alt /\ P[i].opt = 0 /\ P[i].rel = {}
      /\ P[1].get = {"buffer"} /\ P[2].get = {"map"} /\ P[1].drop = {} /\ P[2].drop = {"buffer"}
  BY GetStep DEF WebgpuAllocate
<1> HIDE DEF P
<1>2. (\A i \in 1 .. 2 : RoomAt(P, Parts, i) = P[i].drop) /\ RoomAt(P, Parts, 3) = Parts
  BY <1>1 DEF RoomAt, RoomOf
<1>3. \A i \in 1 .. 2 : TidyAt(P, Parts, Parts, 0, i)
  BY <1>1, <1>2 DEF TidyAt, Parts
<1> QED
  BY <1>1, <1>3 DEF Tidy, AllocationGives, Parts, P

-----------------------------------------------------------------------------
(* The call that runs. *)
Runtimes  == {"cuda", "rocm", "vulkan", "webgpu", "metal"}
Kernels   == {"gemm", "rope", "attention", "submit"}
Functions == {"init", "allocate"} \cup Kernels

HandleNames ==
    CASE api = "cuda" -> CudaHandles [] api = "rocm" -> RocmHandles
      [] api = "vulkan" -> VulkanHandles [] api = "webgpu" -> WebgpuHandles
      [] api = "metal" -> MetalHandles
Kept  == IF call.fn = "init" THEN HandleNames ELSE IF call.fn = "allocate" THEN Parts ELSE {}
Drops == IF call.fn = "init" THEN HandleNames \cup {"shader"}
         ELSE IF call.fn = "allocate" THEN Parts ELSE Scratch
Jump  == IF call.fn = "gemm" THEN 8
         ELSE IF call.fn # "init" THEN 0
         ELSE IF api = "cuda" THEN 7 ELSE IF api = "vulkan" THEN 17 ELSE 0
Room(i) == RoomAt(Program, Kept, i)

LEMMA NamesApart ==
    ASSUME api \in Runtimes
    PROVE  /\ Handles = HandleNames \X {Global}
           /\ Basics(api) \subseteq HandleNames /\ "shader" \notin HandleNames
           /\ HandleNames \cap Parts = {} /\ HandleNames \cap Scratch = {}
           /\ Parts \cap Scratch = {} /\ "shader" \notin Parts
<1> USE DEF Runtimes, Handles, HandleNames, Basics, Parts, Scratch
<1>1. CASE api = "cuda"
  BY <1>1 DEF CudaHandles
<1>2. CASE api = "rocm"
  BY <1>2 DEF RocmHandles
<1>3. CASE api = "vulkan"
  BY <1>3 DEF VulkanHandles, PipelineParts
<1>4. CASE api = "webgpu"
  BY <1>4 DEF WebgpuHandles
<1>5. CASE api = "metal"
  BY <1>5 DEF MetalHandles
<1> QED
  BY <1>1, <1>2, <1>3, <1>4, <1>5

LEMMA ProgramTidy ==
    ASSUME api \in Runtimes, call.fn \in Functions
    PROVE  /\ Tidy(Program, Kept, Drops, Jump)
           /\ call.fn = "init" => InitBuilds(Program, api)
           /\ call.fn = "allocate" => AllocationGives(Program)
<1>1. CASE call.fn = "init"
  <2>1. Program = InitProgram /\ Kept = HandleNames /\ Drops = HandleNames \cup {"shader"}
    BY <1>1 DEF Program, Kept, Drops
  <2>2. \A P, K, N, J : Tidy(P, K, N, J) => Tidy(P, K, N \cup {"shader"}, J)
    BY DEF Tidy, TidyAt
  <2> USE <1>1, <2>1, <2>2 DEF InitProgram, HandleNames, Jump
  <2>3. CASE api = "cuda"
    BY <2>3, CudaInitTidy
  <2>4. CASE api = "rocm"
    BY <2>4, RocmInitTidy
  <2>5. CASE api = "vulkan"
    BY <2>5, VulkanInitTidy
  <2>6. CASE api = "webgpu"
    BY <2>6, WebgpuInitTidy
  <2>7. CASE api = "metal"
    BY <2>7, MetalInitTidy
  <2> QED
    BY <2>3, <2>4, <2>5, <2>6, <2>7 DEF Runtimes
<1>2. CASE call.fn = "allocate"
  <2>1. Program = AllocateProgram /\ Kept = Parts /\ Drops = Parts /\ Jump = 0
    BY <1>2 DEF Program, Kept, Drops, Jump
  <2>2. \A P : P = << Get("mem", {}) >> \/ P = << Get("buffer", {}) >> =>
                  Tidy(P, Parts, Parts, 0) /\ AllocationGives(P)
    <3>1. "mem" \in Parts /\ "buffer" \in Parts
      BY DEF Parts
    <3> QED
      BY <3>1, OneCallTidy
  <2>3. Tidy(AllocateProgram, Parts, Parts, 0) /\ AllocationGives(AllocateProgram)
    BY <2>2, VulkanAllocateTidy, WebgpuAllocateTidy
       DEF AllocateProgram, CudaAllocate, RocmAllocate, MetalAllocate, Runtimes
  <2> QED
    BY <1>2, <2>1, <2>3
<1>3. CASE call.fn \in Kernels
  <2>1. Kept = {} /\ Drops = Scratch /\ Jump = IF call.fn = "gemm" THEN 8 ELSE 0
    BY <1>3 DEF Kept, Drops, Jump, Kernels
  <2>2. Tidy(Program, {}, Scratch, Jump)
    BY <1>3, <2>1, GemmTidy, RopeTidy, AttentionTidy, SubmitTidy DEF Program, Kernels
  <2> QED
    BY <1>3, <2>1, <2>2 DEF Kernels
<1> QED
  BY <1>1, <1>2, <1>3 DEF Functions

-----------------------------------------------------------------------------
(* The inductive invariant *)
Typed ==
    /\ api \in Runtimes /\ inited \in BOOLEAN /\ ready \in BOOLEAN /\ native_ready \in BOOLEAN
    /\ call \in [fn : Functions \cup {"none", "free", "shutdown"}, ptr : Ptrs \cup {Global},
                 at : Nat, soft : BOOLEAN, res : {"running", "ok", "error"}]
CallConsistent ==
    ~Idle => /\ call.fn \in Functions /\ call.at \in 1 .. Len(Program)
             /\ call.fn = "init" => ~inited /\ call.ptr = Global /\ ~native_ready /\ doing = "init"
             /\ call.fn = "allocate" => inited /\ call.ptr \notin allocs
             /\ call.fn \in Kernels => inited /\ call.ptr = Global
FlagsConsistent ==
    /\ ready => inited
    /\ native_ready => inited
    /\ doing = "init" /\ call.res = "ok" => inited
Base == PartsOf(allocs) \cup IF inited THEN Handles ELSE {}
(* What is held is in the table, a handle, or dropped when the next step fails. *)
HeldBounded == held \subseteq Base \cup IF Idle THEN {} ELSE Mine(Room(call.at))
HasHandles  == inited => Needed \X {Global} \subseteq held
HasBuffers  == \A p \in allocs : PartsOf({p}) \cap held # {}
Progress(i, h) ==
    \A j \in 1 .. (i - 1) : \A r \in Program[j].get : r # "shader" => <<r, Global>> \in h
InitGoesOn  == ~Idle /\ call.fn = "init" => Progress(call.at, held)
BackendInv ==
    /\ Typed /\ CallConsistent /\ FlagsConsistent
    /\ HeldBounded /\ HasHandles /\ HasBuffers /\ InitGoesOn

(* An init that has come to its end has the basics, and the whole pipeline or *)
(* none of it; Metal's init fails without pipelines.                           *)
InitDone(h) ==
    /\ Basics(api) \X {Global} \subseteq h
    /\ api = "vulkan" /\ <<"param_map", Global>> \in h => PipelineParts \X {Global} \subseteq h
    /\ api = "metal" => <<"pipelines", Global>> \in h

LEMMA NeededIs ==
    ASSUME api \in Runtimes, ready \in BOOLEAN
    PROVE  Needed = Basics(api) \cup IF ~ready THEN {}
                                     ELSE IF api = "vulkan" THEN PipelineParts
                                     ELSE IF api = "metal" THEN {"pipelines"} ELSE {}
BY DEF Needed, Basics, Runtimes

LEMMA NeededAreHandles == ASSUME api \in Runtimes PROVE Needed \subseteq HandleNames
<1> USE DEF Needed, HandleNames, Runtimes
<1>1. CASE api = "cuda"
  BY <1>1 DEF CudaHandles
<1>2. CASE api = "rocm"
  BY <1>2
<1>3. CASE api = "vulkan"
  BY <1>3 DEF VulkanHandles
<1>4. CASE api = "webgpu"
  BY <1>4
<1>5. CASE api = "metal"
  BY <1>5 DEF MetalHandles
<1> QED
  BY <1>1, <1>2, <1>3, <1>4, <1>5

LEMMA InitInv == InitBackend => BackendInv
<1> SUFFICES ASSUME InitBackend PROVE BackendInv
  OBVIOUS
<1> USE DEF InitBackend, Init
<1>1. Typed
  BY ApisAssumption DEF Typed, Runtimes
<1>2. Idle
  BY DEF Idle
<1> QED
  BY <1>1, <1>2 DEF BackendInv, CallConsistent, FlagsConsistent, HeldBounded, HasHandles,
                    HasBuffers, InitGoesOn

(* The program of a call stays the same while it runs. *)
LEMMA SameProgram ==
    ASSUME api' = api, call'.fn = call.fn, call'.ptr = call.ptr
    PROVE  /\ Program' = Program /\ Kept' = Kept /\ Handles' = Handles
           /\ \A i : Room(i)' = Room(i)
           /\ \A S : Mine(S)' = Mine(S)
           /\ \A i, h : Progress(i, h)' = Progress(i, h)
<1>1. Program' = Program
  BY DEF Program, InitProgram, AllocateProgram
<1>2. Kept' = Kept /\ Handles' = Handles
  BY DEF Kept, Handles, HandleNames
<1> QED
  BY <1>1, <1>2 DEF Room, Mine, Progress

LEMMA CallGoesOn ==
    ASSUME Typed, NEW i \in Nat, NEW soft \in BOOLEAN,
           call' = [call EXCEPT !.at = i, !.soft = soft]
    PROVE  /\ call'.fn = call.fn /\ call'.ptr = call.ptr /\ call'.at = i /\ call'.res = call.res
           /\ call' \in [fn : Functions \cup {"none", "free", "shutdown"}, ptr : Ptrs \cup {Global},
                         at : Nat, soft : BOOLEAN, res : {"running", "ok", "error"}]
BY DEF Typed

LEMMA CallReturns ==
    ASSUME Typed, NEW res \in {"ok", "error"}, call' = [call EXCEPT !.res = res]
    PROVE  /\ call'.fn = call.fn /\ call'.ptr = call.ptr /\ call'.res = res /\ Idle'
           /\ call' \in [fn : Functions \cup {"none", "free", "shutdown"}, ptr : Ptrs \cup {Global},
                         at : Nat, soft : BOOLEAN, res : {"running", "ok", "error"}]
BY DEF Typed, Idle

(* A call that goes on at a step holds no more than this step drops. *)
LEMMA GoesOn ==
    ASSUME BackendInv, ~Idle, NEW i \in 1 .. Len(Program), NEW soft \in BOOLEAN,
           call' = [call EXCEPT !.at = i, !.soft = soft],
           UNCHANGED <<api, inited, ready, allocs>>, UNCHANGED backendVars,
           held' \subseteq Base \cup Mine(Room(i)),
           inited => Needed \X {Global} \subseteq held',
           \A p \in allocs : PartsOf({p}) \cap held' # {},
           call.fn = "init" => Progress(i, held')
    PROVE  BackendInv'
<1>1. Typed /\ call.fn \in Functions
  BY DEF BackendInv, CallConsistent
<1>2. /\ i \in Nat /\ i \in 1 .. Len(Program)
  BY <1>1, ProgramTidy DEF Typed, Tidy
<1>3. /\ call'.fn = call.fn /\ call'.ptr = call.ptr /\ call'.at = i /\ call'.res = call.res
      /\ Typed'
  BY <1>1, <1>2, CallGoesOn DEF Typed, backendVars
<1>4. /\ Program' = Program /\ Handles' = Handles /\ Room(i)' = Room(i)
      /\ Mine(Room(i)) ' = Mine(Room(i)) /\ Progress(i, held') = (Progress(i, held))'
  <2>1. Program' = Program /\ Kept' = Kept /\ Handles' = Handles
    BY <1>3, SameProgram
  <2> QED
    BY <1>3, <2>1 DEF Room, Mine, Progress
<1>5. ~Idle'
  BY <1>3 DEF Idle
<1>6. CallConsistent' /\ FlagsConsistent'
  BY <1>2, <1>3, <1>4 DEF BackendInv, CallConsistent, FlagsConsistent, backendVars, Idle
<1>7. HeldBounded'
  <2>1. Base' = Base
    BY <1>4 DEF Base, PartsOf
  <2>2. Room(call.at)' = Room(i) /\ Mine(Room(call.at))' = Mine(Room(i))
    BY <1>3, <1>4 DEF Room, Mine
  <2> QED
    BY <1>5, <2>1, <2>2 DEF HeldBounded
<1>8. HasHandles' /\ HasBuffers'
  <2>1. Needed' = Needed
    BY DEF Needed
  <2> QED
    BY <2>1 DEF HasHandles, HasBuffers, PartsOf
<1>9. InitGoesOn'
  BY <1>3, <1>4 DEF InitGoesOn, Progress
<1> QED
  BY <1>3, <1>6, <1>7, <1>8, <1>9 DEF BackendInv

(* A call that succeeds holds what it is for. *)
LEMMA Succeeds ==
    ASSUME BackendInv, ~Idle, Finish("ok", held'), UNCHANGED api, UNCHANGED backendVars,
           held' \subseteq Base \cup Mine(Kept),
           inited => Needed \X {Global} \subseteq held',
           \A p \in allocs : PartsOf({p}) \cap held' # {},
           call.fn = "init" => InitDone(held'),
           call.fn = "allocate" => PartsOf({call.ptr}) \cap held' # {}
    PROVE  BackendInv'
<1>1. Typed /\ call.fn \in Functions /\ api \in Runtimes
  BY DEF BackendInv, CallConsistent, Typed
<1>2. /\ call' = [call EXCEPT !.res = "ok"]
      /\ call.fn # "init" => inited' = inited /\ ready' = ready
      /\ allocs' = IF call.fn = "allocate" THEN allocs \cup {call.ptr} ELSE allocs
  <2>1. /\ call' = [call EXCEPT !.res = "ok"]
        /\ allocs' = IF call.fn = "allocate" THEN allocs \cup {call.ptr} ELSE allocs
    BY Zenon DEF Finish
  <2>2. call.fn # "init" => inited' = inited /\ ready' = ready
    BY Zenon DEF Finish
  <2> QED
    BY <2>1, <2>2
<1>3. /\ call'.fn = call.fn /\ call'.ptr = call.ptr /\ call'.res = "ok" /\ Idle'
      /\ call' \in [fn : Functions \cup {"none", "free", "shutdown"}, ptr : Ptrs \cup {Global},
                    at : Nat, soft : BOOLEAN, res : {"running", "ok", "error"}]
  BY <1>1, <1>2, CallReturns
<1>4. ASSUME call.fn = "init"
      PROVE  /\ inited' = TRUE /\ ready' \in BOOLEAN
             /\ api = "vulkan" => ready' = (<<"param_map", Global>> \in held')
             /\ api \notin {"vulkan", "metal"} => ready' = FALSE
  <2>1. api = "metal" => <<"device", Global>> \in held'
    BY <1>4 DEF InitDone, Basics
  <2>2. CASE api = "metal"
    <3>1. inited' = TRUE
      BY <1>4, <2>1, <2>2 DEF Finish
    <3>2. ready' = TRUE
      BY <1>4, <2>2 DEF Finish
    <3> QED
      BY <2>2, <3>1, <3>2
  <2>3. CASE api = "vulkan"
    <3>1. inited' = TRUE
      BY <1>4, <2>3 DEF Finish
    <3>2. ready' = (<<"param_map", Global>> \in held')
      BY <1>4, <2>3, Zenon DEF Finish
    <3> QED
      BY <2>3, <3>1, <3>2
  <2>4. CASE api \notin {"vulkan", "metal"}
    BY <1>4, <2>4 DEF Finish
  <2> QED
    BY <2>2, <2>3, <2>4
<1>5. inited' = TRUE /\ ready' \in BOOLEAN
  <2>1. CASE call.fn = "init"
    BY <1>4, <2>1
  <2>2. CASE call.fn # "init"
    <3>1. inited = TRUE /\ ready \in BOOLEAN
      BY <1>1, <2>2 DEF BackendInv, CallConsistent, Typed, Functions
    <3> QED
      BY <1>2, <2>2, <3>1
  <2> QED
    BY <2>1, <2>2
<1>6. Typed' /\ CallConsistent' /\ FlagsConsistent' /\ InitGoesOn'
  BY <1>1, <1>3, <1>5 DEF Typed, CallConsistent, FlagsConsistent, InitGoesOn, backendVars
<1>7. Handles' = Handles /\ Handles = HandleNames \X {Global}
  BY <1>1, NamesApart DEF Handles
<1>8. HeldBounded'
  <2>1. Base' = PartsOf(allocs') \cup Handles
    BY <1>5, <1>7 DEF Base, PartsOf
  <2>2. PartsOf(allocs) \subseteq PartsOf(allocs')
    BY <1>2 DEF PartsOf
  <2>3. Mine(Kept) \subseteq PartsOf(allocs') \cup Handles
    <3>1. CASE call.fn = "init"
      BY <1>7, <3>1 DEF Mine, Kept, BackendInv, CallConsistent
    <3>2. CASE call.fn = "allocate"
      BY <1>2, <3>2 DEF Mine, Kept, PartsOf, Parts
    <3>3. CASE call.fn \notin {"init", "allocate"}
      BY <3>3 DEF Mine, Kept
    <3> QED
      BY <3>1, <3>2, <3>3
  <2>4. Base \subseteq PartsOf(allocs') \cup Handles
    BY <2>2 DEF Base
  <2> QED
    BY <1>3, <2>1, <2>3, <2>4 DEF HeldBounded
<1>9. HasHandles'
  <2>1. CASE call.fn = "init"
    <3>1. Needed' = Basics(api) \cup IF ~ready' THEN {} ELSE IF api = "vulkan" THEN PipelineParts
                                     ELSE IF api = "metal" THEN {"pipelines"} ELSE {}
      BY <1>1, <1>5 DEF Needed, Basics, Runtimes
    <3>2. InitDone(held')
      BY <2>1
    <3>3. \A r \in Needed' : <<r, Global>> \in held'
      <4> SUFFICES ASSUME NEW r \in Needed' PROVE <<r, Global>> \in held'
        OBVIOUS
      <4>1. CASE r \in Basics(api)
        BY <3>2, <4>1 DEF InitDone
      <4>2. CASE ready' /\ api = "vulkan" /\ r \in PipelineParts
        BY <1>4, <2>1, <3>2, <4>2 DEF InitDone
      <4>3. CASE ready' /\ api = "metal" /\ r = "pipelines"
        BY <3>2, <4>3 DEF InitDone
      <4> QED
        BY <3>1, <4>1, <4>2, <4>3
    <3> QED
      BY <3>3 DEF HasHandles
  <2>2. CASE call.fn # "init"
    <3>1. Needed' = Needed /\ inited
      BY <1>1, <1>2, <2>2 DEF Needed, BackendInv, CallConsistent, Functions
    <3> QED
      BY <3>1 DEF HasHandles
  <2> QED
    BY <2>1, <2>2
<1>10. HasBuffers'
  BY <1>2 DEF HasBuffers, PartsOf
<1> QED
  BY <1>6, <1>8, <1>9, <1>10 DEF BackendInv

(* Only Metal's last step of init gets the pipelines. *)
LEMMA PipelinesLast ==
    ASSUME api \in Runtimes, call.fn \in Functions, NEW i \in 1 .. Len(Program),
           "pipelines" \in Program[i].get
    PROVE  call.fn = "init" /\ api = "metal" /\ i = 3
<1>1. /\ Tidy(Program, Kept, Drops, Jump)
  BY ProgramTidy
<1>2. TidyAt(Program, Kept, Drops, Jump, i) /\ i + 1 \in 1 .. (Len(Program) + 1)
  BY <1>1 DEF Tidy
<1>3. RoomAt(Program, Kept, i + 1) \subseteq Drops \cup Kept
  <2>1. CASE i + 1 > Len(Program)
    BY <2>1 DEF RoomAt
  <2>2. CASE i + 1 \in 1 .. Len(Program)
    <3>1. Program[i + 1].drop \subseteq Drops
      BY <1>1, <2>2 DEF Tidy, TidyAt
    <3> QED
      BY <3>1, <2>2, <1>1 DEF RoomAt, RoomOf
  <2> QED
    BY <1>1, <1>2, <2>1, <2>2 DEF Tidy
<1>4. "pipelines" \in Drops \cup Kept
  BY <1>2, <1>3 DEF TidyAt
<1>5. call.fn = "init" /\ "pipelines" \in HandleNames
  BY <1>4 DEF Drops, Kept, Parts, Scratch
<1>6. api = "metal"
  BY <1>5 DEF HandleNames, Runtimes, CudaHandles, RocmHandles, VulkanHandles, PipelineParts,
              WebgpuHandles
<1>7. Program = MetalInit
  BY <1>5, <1>6 DEF Program, InitProgram
<1> QED
  BY <1>5, <1>6, <1>7, MetalInitTidy

(* What a step of a call releases is neither a buffer of the table nor a       *)
(* handle of a runtime that is up.                                             *)
LEMMA Untouched ==
    ASSUME BackendInv, ~Idle, NEW S \in SUBSET Drops, NEW G,
           held' = (held \cup G) \ Mine(S)
    PROVE  /\ inited => Needed \X {Global} \subseteq held'
           /\ \A p \in allocs : PartsOf({p}) \cap held' # {}
<1>1. api \in Runtimes /\ call.fn \in Functions /\ CallConsistent /\ HasHandles /\ HasBuffers
  BY DEF BackendInv, CallConsistent, Typed
<1>2. /\ HandleNames \cap Parts = {} /\ HandleNames \cap Scratch = {}
      /\ Parts \cap Scratch = {} /\ "shader" \notin Parts
  BY <1>1, NamesApart
<1>3. ASSUME inited PROVE Needed \X {Global} \subseteq held'
  <2>1. call.fn # "init"
    BY <1>1, <1>3 DEF CallConsistent
  <2>2. S \cap HandleNames = {}
    BY <1>2, <2>1 DEF Drops
  <2>3. Needed \subseteq HandleNames
    BY <1>1, NeededAreHandles
  <2>4. Needed \X {Global} \subseteq held
    BY <1>1, <1>3 DEF HasHandles
  <2> HIDE DEF Needed, HandleNames
  <2> QED
    BY <2>2, <2>3, <2>4 DEF Mine
<1>4. ASSUME NEW p \in allocs PROVE PartsOf({p}) \cap held' # {}
  <2>1. PICK r \in Parts : <<r, p>> \in held
    BY <1>1 DEF HasBuffers, PartsOf, Parts
  <2>2. <<r, p>> \notin Mine(S)
    <3>1. CASE call.fn = "allocate"
      BY <1>1, <3>1 DEF CallConsistent, Mine
    <3>2. CASE call.fn # "allocate"
      BY <1>2, <3>2, <2>1 DEF Drops, Mine
    <3> QED
      BY <3>1, <3>2
  <2> QED
    BY <2>1, <2>2 DEF PartsOf, Parts
<1> QED
  BY <1>3, <1>4

(* An init whose steps have all succeeded has built what it is for. *)
LEMMA BuiltInit ==
    ASSUME api \in Runtimes, call.fn = "init", NEW h, Progress(Len(Program) + 1, h)
    PROVE  InitDone(h)
<1>1. InitBuilds(Program, api) /\ Tidy(Program, Kept, Drops, Jump)
  BY ProgramTidy DEF Functions
<1>2. \A r : r # "shader" /\ (\E j \in 1 .. Len(Program) : r \in Program[j].get)
              => <<r, Global>> \in h
  BY <1>1 DEF Progress, Tidy
<1>3. Basics(api) \X {Global} \subseteq h
  <2>1. ASSUME NEW r \in Basics(api) PROVE <<r, Global>> \in h
    <3>1. \E j \in 1 .. Len(Program) : r \in Program[j].get
      BY <1>1 DEF InitBuilds, Reaches, Tidy
    <3>2. r # "shader"
      BY NamesApart
    <3> QED
      BY <1>2, <3>1, <3>2
  <2> QED
    BY <2>1
<1>4. ASSUME api = "vulkan" PROVE PipelineParts \X {Global} \subseteq h
  <2>1. Program = VulkanInit
    BY <1>4 DEF Program, InitProgram
  <2>2. ASSUME NEW r \in PipelineParts PROVE <<r, Global>> \in h
    <3>1. \E j \in 1 .. Len(Program) : r \in Program[j].get
      BY <2>1, VulkanInitTidy DEF Reaches
    <3>2. r # "shader"
      BY DEF PipelineParts
    <3> QED
      BY <1>2, <3>1, <3>2
  <2> QED
    BY <2>2
<1>5. ASSUME api = "metal" PROVE <<"pipelines", Global>> \in h
  <2>1. Program = MetalInit
    BY <1>5 DEF Program, InitProgram
  <2> QED
    BY <1>2, <2>1, MetalInitTidy
<1> QED
  BY <1>3, <1>4, <1>5 DEF InitDone

(* A call that continues at a step goes on, or has come to its end. *)
LEMMA Continues ==
    ASSUME BackendInv, ~Idle, NEW j \in 1 .. (Len(Program) + 1), NEW soft \in BOOLEAN,
           Continue(j, soft, held'), UNCHANGED api, UNCHANGED backendVars,
           held' \subseteq Base \cup Mine(Room(j)),
           inited => Needed \X {Global} \subseteq held',
           \A p \in allocs : PartsOf({p}) \cap held' # {},
           call.fn = "init" => \/ j <= Len(Program) /\ Progress(j, held')
                               \/ j > Len(Program) /\ InitDone(held'),
           call.fn = "allocate" =>
               j <= Len(Program) \/ PartsOf({call.ptr}) \cap held' # {}
    PROVE  BackendInv'
<1>1. /\ api \in Runtimes /\ call.fn \in Functions
      /\ Tidy(Program, Kept, Drops, Jump)
      /\ call.fn = "init" => InitBuilds(Program, api)
      /\ call.fn = "allocate" => AllocationGives(Program)
  BY ProgramTidy DEF BackendInv, CallConsistent, Typed
<1>2. Len(Program) \in Nat /\ j \in Nat
  BY <1>1 DEF Tidy
<1>3. CASE j > Len(Program) \/ (Program[j].alt /\ ~soft)
  <2>1. Finish("ok", held')
    BY <1>3 DEF Continue
  <2>2. Room(j) \subseteq Kept
    <3>1. CASE j > Len(Program)
      BY <3>1 DEF Room, RoomAt
    <3>2. CASE ~(j > Len(Program))
      <4>1. j \in 1 .. Len(Program) /\ Program[j].alt
        BY <1>2, <1>3, <3>2
      <4> QED
        BY <1>1, <4>1 DEF Tidy, TidyAt, Room
    <3> QED
      BY <3>1, <3>2
  <2>3. call.fn \in {"init", "allocate"} => j > Len(Program)
    <3> SUFFICES ASSUME call.fn \in {"init", "allocate"}, ~(j > Len(Program)) PROVE FALSE
      OBVIOUS
    <3>1. j \in 1 .. Len(Program) /\ Program[j].alt
      BY <1>2, <1>3
    <3> QED
      BY <1>1, <3>1 DEF InitBuilds, AllocationGives
  <2>4. held' \subseteq Base \cup Mine(Kept)
    BY <2>2 DEF Mine
  <2>5. call.fn = "init" => InitDone(held')
    BY <1>2, <2>3
  <2>6. call.fn = "allocate" => PartsOf({call.ptr}) \cap held' # {}
    <3>1. call.fn = "allocate" => ~(j <= Len(Program))
      BY <1>2, <2>3
    <3> QED
      BY <3>1, Zenon
  <2> QED
    BY <2>1, <2>4, <2>5, <2>6, Succeeds
<1>4. CASE ~(j > Len(Program) \/ (Program[j].alt /\ ~soft))
  <2>1. /\ call' = [call EXCEPT !.at = j, !.soft = soft]
        /\ UNCHANGED <<inited, ready, allocs>>
    BY <1>4 DEF Continue
  <2>2. j \in 1 .. Len(Program)
    BY <1>2, <1>4
  <2>3. call.fn = "init" => Progress(j, held')
    BY <1>2, <2>2
  <2> QED
    BY <2>1, <2>2, <2>3, GoesOn
<1> QED
  BY <1>3, <1>4

LEMMA SucceedsInv == ASSUME BackendInv, StepSucceeds, UNCHANGED backendVars PROVE BackendInv'
<1> DEFINE i == call.at
           s == Program[i]
<1>1. /\ ~Idle /\ held' = (held \cup Mine(s.get)) \ Mine(s.rel) /\ UNCHANGED api
      /\ Continue(i + 1, call.soft, held')
  BY DEF StepSucceeds
<1>2. /\ api \in Runtimes /\ call.fn \in Functions /\ call.soft \in BOOLEAN
      /\ i \in 1 .. Len(Program) /\ HeldBounded /\ InitGoesOn
      /\ call.fn = "init" => call.ptr = Global
  BY <1>1 DEF BackendInv, CallConsistent, Typed
<1>3. /\ Tidy(Program, Kept, Drops, Jump) /\ TidyAt(Program, Kept, Drops, Jump, i)
      /\ call.fn = "init" => InitBuilds(Program, api)
      /\ call.fn = "allocate" => AllocationGives(Program)
      /\ Len(Program) \in Nat
  BY <1>2, ProgramTidy DEF Tidy
<1>4. s.rel \in SUBSET Drops /\ (Room(i) \cup s.get) \ s.rel \subseteq Room(i + 1)
  BY <1>3 DEF TidyAt, Room
<1>5. held' \subseteq Base \cup Mine(Room(i + 1))
  <2>1. held \subseteq Base \cup Mine(Room(i))
    BY <1>1, <1>2 DEF HeldBounded
  <2> HIDE DEF s
  <2> QED
    BY <1>1, <1>4, <2>1 DEF Mine
<1>6. /\ inited => Needed \X {Global} \subseteq held'
      /\ \A p \in allocs : PartsOf({p}) \cap held' # {}
  BY <1>1, <1>4, Untouched
<1>7. ASSUME call.fn = "init" PROVE Progress(i + 1, held')
  <2>1. Progress(i, held) /\ s.rel \subseteq {"shader"}
    BY <1>1, <1>2, <1>3, <1>7 DEF InitGoesOn, InitBuilds
  <2>2. ASSUME NEW j \in 1 .. i, NEW r \in Program[j].get, r # "shader"
        PROVE  <<r, Global>> \in held'
    <3>1. <<r, Global>> \in held \cup Mine(s.get)
      <4>1. CASE j = i
        BY <1>2, <1>7, <2>2, <4>1 DEF Mine
      <4>2. CASE j \in 1 .. (i - 1)
        BY <2>1, <2>2, <4>2 DEF Progress
      <4> QED
        BY <1>2, <1>3, <4>1, <4>2
    <3>2. <<r, Global>> \notin Mine(s.rel)
      BY <2>1, <2>2 DEF Mine
    <3> QED
      BY <1>1, <3>1, <3>2
  <2> QED
    BY <1>2, <1>3, <2>2 DEF Progress
<1>8. ASSUME call.fn = "init", i + 1 > Len(Program) PROVE InitDone(held')
  <2>1. i + 1 = Len(Program) + 1
    BY <1>2, <1>3, <1>8
  <2> QED
    BY <1>2, <1>7, <1>8, <2>1, BuiltInit
<1>9. ASSUME call.fn = "allocate", ~(i + 1 <= Len(Program))
      PROVE  PartsOf({call.ptr}) \cap held' # {}
  <2>1. i = Len(Program)
    BY <1>2, <1>3, <1>9
  <2>2. s.rel = {} /\ \E r \in Parts : r \in s.get
    BY <1>2, <1>3, <1>9, <2>1 DEF AllocationGives
  <2>3. PICK r \in Parts : r \in s.get
    BY <2>2
  <2> HIDE DEF s
  <2>4. <<r, call.ptr>> \in held' /\ <<r, call.ptr>> \in PartsOf({call.ptr})
    BY <1>1, <2>2, <2>3 DEF PartsOf, Parts, Mine
  <2> QED
    BY <2>4
<1>10. i + 1 \in 1 .. (Len(Program) + 1)
  BY <1>2, <1>3
<1>11. call.fn = "init" => \/ i + 1 <= Len(Program) /\ Progress(i + 1, held')
                           \/ i + 1 > Len(Program) /\ InitDone(held')
  BY <1>2, <1>3, <1>7, <1>8
<1> HIDE DEF s, i
<1> QED
  BY <1>1, <1>2, <1>5, <1>6, <1>9, <1>10, <1>11, Continues

(* Only kernels skip steps. *)
LEMMA SkippedInv == ASSUME BackendInv, StepSkipped, UNCHANGED backendVars PROVE BackendInv'
<1> DEFINE i == call.at
           n == Program[i].opt
<1>1. /\ ~Idle /\ n > 0 /\ UNCHANGED <<api, held>> /\ Continue(i + n, call.soft, held)
  BY DEF StepSkipped
<1>2. /\ api \in Runtimes /\ call.fn \in Functions /\ call.soft \in BOOLEAN
      /\ i \in 1 .. Len(Program) /\ HeldBounded /\ HasHandles /\ HasBuffers
  BY <1>1 DEF BackendInv, CallConsistent, Typed
<1>3. /\ Tidy(Program, Kept, Drops, Jump) /\ TidyAt(Program, Kept, Drops, Jump, i)
      /\ call.fn = "init" => InitBuilds(Program, api)
      /\ call.fn = "allocate" => AllocationGives(Program)
      /\ Len(Program) \in Nat
  BY <1>2, ProgramTidy DEF Tidy
<1>4. call.fn \notin {"init", "allocate"}
  BY <1>1, <1>2, <1>3 DEF InitBuilds, AllocationGives
<1>5. /\ n \in 0 .. 2 /\ i + n <= Len(Program) + 1 /\ Room(i) \subseteq Room(i + n)
  BY <1>1, <1>3 DEF TidyAt, Room
<1>6. i + n \in 1 .. (Len(Program) + 1)
  BY <1>1, <1>2, <1>3, <1>5
<1>7. held' \subseteq Base \cup Mine(Room(i + n))
  BY <1>1, <1>2, <1>5 DEF HeldBounded, Mine
<1>8. /\ inited => Needed \X {Global} \subseteq held'
      /\ \A p \in allocs : PartsOf({p}) \cap held' # {}
  BY <1>1, <1>2 DEF HasHandles, HasBuffers
<1>9. Continue(i + n, call.soft, held')
  BY <1>1
<1> HIDE DEF n, i
<1> QED
  BY <1>1, <1>2, <1>4, <1>6, <1>7, <1>8, <1>9, Continues

(* A failure that is swallowed goes on after the soft steps. *)
LEMMA FirstHardIs ==
    ASSUME NEW i \in 1 .. Len(Program), TidyAt(Program, Kept, Drops, Jump, i), Program[i].soft,
           Len(Program) \in Nat
    PROVE  FirstHard(i) = Jump
<1>1. /\ Jump \in (i + 1) .. (Len(Program) + 1)
      /\ Jump <= Len(Program) => ~Program[Jump].soft
      /\ \A k \in i .. (Jump - 1) : Program[k].soft
  BY DEF TidyAt
<1> DEFINE First(j) == /\ j > Len(Program) \/ ~Program[j].soft
                       /\ \A k \in i .. (j - 1) : Program[k].soft
<1>2. First(Jump) /\ Jump \in i .. (Len(Program) + 1)
  BY <1>1
<1>3. ASSUME NEW j \in i .. (Len(Program) + 1), First(j) PROVE j = Jump
  <2>1. CASE j < Jump
    <3>1. j \in i .. (Jump - 1) /\ ~(j > Len(Program))
      BY <1>1, <2>1
    <3> QED
      BY <1>1, <1>3, <3>1
  <2>2. CASE j > Jump
    <3>1. Jump \in i .. (j - 1) /\ Jump <= Len(Program)
      BY <1>1, <2>2
    <3> QED
      BY <1>1, <1>3, <3>1
  <2> QED
    BY <1>1, <2>1, <2>2
<1>4. FirstHard(i) = CHOOSE j \in i .. (Len(Program) + 1) : First(j)
  BY DEF FirstHard
<1> HIDE DEF First
<1> QED
  BY <1>2, <1>3, <1>4

LEMMA SoftFailureInv ==
    ASSUME BackendInv, StepFails, Program[call.at].soft, UNCHANGED backendVars PROVE BackendInv'
<1> DEFINE i == call.at
           s == Program[i]
<1>1. /\ ~Idle /\ held' = held \ Mine(s.drop) /\ UNCHANGED api
      /\ Continue(FirstHard(i), TRUE, held')
  BY DEF StepFails
<1>2. /\ api \in Runtimes /\ call.fn \in Functions
      /\ i \in 1 .. Len(Program) /\ HeldBounded /\ InitGoesOn
      /\ call.fn = "init" => call.ptr = Global /\ Progress(i, held)
  BY <1>1 DEF BackendInv, CallConsistent, Typed, InitGoesOn
<1>3. /\ Tidy(Program, Kept, Drops, Jump) /\ TidyAt(Program, Kept, Drops, Jump, i)
      /\ call.fn = "init" => InitBuilds(Program, api)
      /\ call.fn = "allocate" => AllocationGives(Program)
      /\ Len(Program) \in Nat
  BY <1>2, ProgramTidy DEF Tidy
<1>4. FirstHard(i) = Jump
  BY <1>2, <1>3, FirstHardIs
<1>5. /\ Jump \in 1 .. (Len(Program) + 1) /\ Room(i) \ s.drop \subseteq Room(Jump)
      /\ s.drop \in SUBSET Drops
  BY <1>2, <1>3 DEF TidyAt, Room
<1>6. held' \subseteq Base \cup Mine(Room(Jump))
  <2>1. held \subseteq Base \cup Mine(Room(i))
    BY <1>1, <1>2 DEF HeldBounded
  <2> HIDE DEF s
  <2> QED
    BY <1>1, <1>5, <2>1 DEF Mine
<1>7. /\ inited => Needed \X {Global} \subseteq held'
      /\ \A p \in allocs : PartsOf({p}) \cap held' # {}
  <2>1. held' = (held \cup {}) \ Mine(s.drop)
    BY <1>1
  <2> QED
    BY <1>1, <1>5, <2>1, Untouched
<1>8. ASSUME call.fn = "init" PROVE Jump > Len(Program) /\ InitDone(held')
  <2>1. Jump > Len(Program)
    <3>1. CASE api = "cuda"
      <4>1. Program = CudaInit /\ Jump = 7
        BY <1>8, <3>1 DEF Program, InitProgram, Jump
      <4> QED
        BY <4>1, CudaInitTidy
    <3>2. CASE api = "vulkan"
      <4>1. Program = VulkanInit /\ Jump = 17
        BY <1>8, <3>2 DEF Program, InitProgram, Jump
      <4> QED
        BY <4>1, VulkanInitTidy
    <3>3. CASE api \notin {"cuda", "vulkan"}
      BY <1>5, <1>8, <3>3 DEF Jump
    <3> QED
      BY <3>1, <3>2, <3>3
  <2>2. Reaches(Program, Basics(api), i) /\ s.drop \cap Basics(api) = {}
    BY <1>2, <1>3, <1>8 DEF InitBuilds
  <2>3. ASSUME NEW r \in Basics(api) PROVE <<r, Global>> \in held'
    <3>1. PICK j \in 1 .. (i - 1) : r \in Program[j].get
      BY <2>2 DEF Reaches
    <3>2. r # "shader"
      BY <1>2, NamesApart
    <3>3. <<r, Global>> \in held
      BY <1>2, <1>8, <3>1, <3>2 DEF Progress
    <3> QED
      BY <1>1, <2>2, <3>3 DEF Mine
  <2>4. api = "vulkan" => <<"param_map", Global>> \notin held'
    <3> SUFFICES ASSUME api = "vulkan" PROVE <<"param_map", Global>> \notin held'
      OBVIOUS
    <3>1. Program = VulkanInit
      BY <1>8 DEF Program, InitProgram
    <3>2. "param_map" \in s.drop
      BY <1>2, <3>1, VulkanInitTidy
    <3> QED
      BY <1>1, <1>2, <1>8, <3>2 DEF Mine
  <2>5. api # "metal"
    <3>1. Jump # 0
      BY <1>5
    <3> QED
      BY <1>8, <3>1 DEF Jump
  <2> QED
    BY <2>1, <2>3, <2>4, <2>5 DEF InitDone
<1>9. call.fn # "allocate"
  BY <1>2, <1>3 DEF AllocationGives
<1>10. Continue(Jump, TRUE, held')
  BY <1>1, <1>4
<1> HIDE DEF s, i
<1> QED
  BY <1>1, <1>5, <1>6, <1>7, <1>8, <1>9, <1>10, Continues

LEMMA Fails ==
    ASSUME BackendInv, ~Idle, Finish("error", held'), UNCHANGED api, UNCHANGED backendVars,
           inited' \in BOOLEAN, ready' \in BOOLEAN, ready' => inited', native_ready => inited',
           held' \subseteq PartsOf(allocs) \cup IF inited' THEN Handles ELSE {},
           inited' => Needed' \X {Global} \subseteq held',
           \A p \in allocs : PartsOf({p}) \cap held' # {}
    PROVE  BackendInv'
<1>1. call' = [call EXCEPT !.res = "error"] /\ allocs' = allocs
  <2>1. call' = [call EXCEPT !.res = "error"]
    BY Zenon DEF Finish
  <2>2. allocs' = IF call.fn = "allocate" /\ "error" = "ok" THEN allocs \cup {call.ptr} ELSE allocs
    BY Zenon DEF Finish
  <2>3. "error" # "ok"
    OBVIOUS
  <2>4. allocs' = allocs
    BY <2>2, <2>3, Zenon
  <2> QED
    BY <2>1, <2>4
<1>2. /\ Idle' /\ call'.res = "error"
      /\ call' \in [fn : Functions \cup {"none", "free", "shutdown"}, ptr : Ptrs \cup {Global},
                    at : Nat, soft : BOOLEAN, res : {"running", "ok", "error"}]
  BY <1>1, CallReturns DEF BackendInv
<1>3. native_ready' = native_ready /\ doing' = doing
  BY DEF backendVars
<1>4. Typed' /\ CallConsistent' /\ FlagsConsistent' /\ InitGoesOn'
  BY <1>2, <1>3 DEF BackendInv, Typed, CallConsistent, FlagsConsistent, InitGoesOn
<1>5. Base' = PartsOf(allocs) \cup IF inited' THEN Handles ELSE {}
  <2>1. Handles' = Handles
    BY DEF Handles
  <2> QED
    BY <1>1, <2>1 DEF Base, PartsOf
<1>6. HeldBounded'
  BY <1>2, <1>5 DEF HeldBounded
<1>7. HasHandles' /\ HasBuffers'
  BY <1>1 DEF HasHandles, HasBuffers, PartsOf
<1> QED
  BY <1>4, <1>6, <1>7 DEF BackendInv

(* A call that fails leaves nothing; only Metal keeps its device and its queue *)
(* when the pipelines fail, and counts as initialised with them.               *)
LEMMA HardFailureInv ==
    ASSUME BackendInv, StepFails, ~Program[call.at].soft, UNCHANGED backendVars PROVE BackendInv'
<1> DEFINE i == call.at
           s == Program[i]
           unfinished == call.fn = "init" /\ api = "metal" /\ i = 3
<1>1. /\ ~Idle /\ held' = held \ Mine(s.drop) /\ UNCHANGED api
      /\ Finish("error", held')
  BY DEF StepFails
<1>2. /\ api \in Runtimes /\ call.fn \in Functions
      /\ inited \in BOOLEAN /\ ready \in BOOLEAN
      /\ i \in 1 .. Len(Program) /\ HeldBounded /\ InitGoesOn /\ FlagsConsistent
      /\ call.fn = "init" => call.ptr = Global /\ Progress(i, held) /\ ~inited /\ ~native_ready
  BY <1>1 DEF BackendInv, CallConsistent, Typed, InitGoesOn
<1>3. /\ Tidy(Program, Kept, Drops, Jump) /\ TidyAt(Program, Kept, Drops, Jump, i)
      /\ Len(Program) \in Nat
  BY <1>2, ProgramTidy DEF Tidy
<1>4. /\ s.drop \in SUBSET Drops
      /\ held \subseteq Base \cup Mine(Room(i))
  BY <1>1, <1>2, <1>3 DEF TidyAt, HeldBounded
<1>5. /\ inited => Needed \X {Global} \subseteq held'
      /\ \A p \in allocs : PartsOf({p}) \cap held' # {}
  <2>1. held' = (held \cup {}) \ Mine(s.drop)
    BY <1>1
  <2> QED
    BY <1>1, <1>4, <2>1, Untouched
<1>6. ASSUME ~unfinished PROVE held' \subseteq Base
  <2>1. "pipelines" \notin s.get
    BY <1>2, <1>6, PipelinesLast
  <2>2. Room(i) = s.drop
    BY <1>2, <1>3, <2>1 DEF Room, RoomAt, RoomOf
  <2> HIDE DEF s
  <2> QED
    BY <1>1, <1>4, <2>2 DEF Mine
<1>7. CASE call.fn # "init"
  <2>1. inited' = inited /\ ready' = ready
    BY <1>1, <1>7, Zenon DEF Finish
  <2>2. Needed' = Needed
    BY <1>1, <2>1 DEF Needed
  <2>3. held' \subseteq PartsOf(allocs) \cup IF inited' THEN Handles ELSE {}
    BY <1>6, <1>7, <2>1 DEF Base
  <2> QED
    BY <1>1, <1>2, <1>5, <2>1, <2>2, <2>3, Fails DEF FlagsConsistent
<1>8. CASE call.fn = "init" /\ ~unfinished
  <2>1. held' \subseteq PartsOf(allocs)
    BY <1>2, <1>6, <1>8 DEF Base
  <2>2. (<<"device", Global>> \in held') = FALSE /\ (<<"param_map", Global>> \in held') = FALSE
    <3>1. <<"device", Global>> \notin held' /\ <<"param_map", Global>> \notin held'
      BY <2>1 DEF PartsOf
    <3> QED
      BY <3>1
  <2>3. inited' = FALSE
    <3>1. CASE api = "metal"
      <4>1. inited' = (<<"device", Global>> \in held')
        BY <1>1, <1>8, <3>1, Zenon DEF Finish
      <4> QED
        BY <2>2, <4>1
    <3>2. CASE api # "metal"
      <4>1. inited' = ("error" = "ok")
        BY <1>1, <1>8, <3>2, Zenon DEF Finish
      <4> QED
        BY <4>1
    <3> QED
      BY <3>1, <3>2
  <2>4. ready' = FALSE
    <3>1. CASE api = "vulkan"
      <4>1. ready' = (<<"param_map", Global>> \in held')
        BY <1>1, <1>8, <3>1, Zenon DEF Finish
      <4> QED
        BY <2>2, <4>1
    <3>2. CASE api # "vulkan" /\ api = "metal"
      <4>1. ready' = ("error" = "ok")
        BY <1>1, <1>8, <3>2, Zenon DEF Finish
      <4> QED
        BY <4>1
    <3>3. CASE api # "vulkan" /\ api # "metal"
      BY <1>1, <1>8, <3>3, Zenon DEF Finish
    <3> QED
      BY <3>1, <3>2, <3>3
  <2> QED
    BY <1>1, <1>2, <1>5, <1>8, <2>1, <2>3, <2>4, Fails
<1>9. CASE unfinished
  <2>1. Program = MetalInit
    BY <1>9 DEF Program, InitProgram
  <2>2. /\ s.drop = {} /\ MetalInit[1].get = {"device"} /\ MetalInit[2].get = {"queue"}
    BY <1>9, <2>1, MetalInitTidy
  <2>3. <<"device", Global>> \in held /\ <<"queue", Global>> \in held
    <3>1. Progress(3, held)
      BY <1>2, <1>9
    <3>2. 1 \in 1 .. (3 - 1) /\ 2 \in 1 .. (3 - 1) /\ "device" # "shader" /\ "queue" # "shader"
      OBVIOUS
    <3> QED
      BY <2>1, <2>2, <3>1, <3>2 DEF Progress
  <2>4. held' = held
    BY <1>1, <2>2 DEF Mine
  <2>5. inited' = TRUE
    <3>1. inited' = (<<"device", Global>> \in held')
      BY <1>1, <1>9, Zenon DEF Finish
    <3> QED
      BY <2>3, <2>4, <3>1
  <2>6. ready' = FALSE
    <3>1. api # "vulkan"
      BY <1>9
    <3>2. ready' = ("error" = "ok")
      BY <1>1, <1>9, <3>1, Zenon DEF Finish
    <3> QED
      BY <3>2
  <2>7. Needed' = {"device", "queue"}
    BY <1>1, <1>9, <2>6 DEF Needed
  <2>8. held' \subseteq PartsOf(allocs) \cup Handles
    <3>1. Room(i) \subseteq HandleNames
      <4>1. Kept = HandleNames
        BY <1>9 DEF Kept
      <4> QED
        BY <1>2, <1>3, <2>2, <4>1 DEF Room, RoomAt, RoomOf
    <3>2. Base = PartsOf(allocs) /\ Handles = HandleNames \X {Global}
      BY <1>2, <1>9, NamesApart DEF Base
    <3>3. Mine(Room(i)) \subseteq Handles
      BY <1>2, <1>9, <3>1, <3>2 DEF Mine
    <3> QED
      BY <1>4, <2>4, <3>2, <3>3
  <2>9. Needed' \X {Global} \subseteq held'
    BY <2>3, <2>4, <2>7
  <2>10. held' \subseteq PartsOf(allocs) \cup IF inited' THEN Handles ELSE {}
    BY <2>5, <2>8
  <2>11. inited' \in BOOLEAN /\ ready' \in BOOLEAN /\ (ready' => inited') /\ (native_ready => inited')
    BY <2>5, <2>6
  <2> QED
    BY <1>1, <1>5, <2>9, <2>10, <2>11, Fails
<1> QED
  BY <1>7, <1>8, <1>9

-----------------------------------------------------------------------------
(* The operations of the backend *)
Calls == [fn : Functions \cup {"none", "free", "shutdown"}, ptr : Ptrs \cup {Global},
          at : Nat, soft : BOOLEAN, res : {"running", "ok", "error"}]

(* An operation that runs no function of the runtime. *)
LEMMA Rests ==
    ASSUME BackendInv, Idle, UNCHANGED <<api, held, inited, ready, allocs>>,
           call' \in Calls, Idle', native_ready' \in BOOLEAN, native_ready' => inited,
           doing' = "init" /\ call'.res = "ok" => inited
    PROVE  BackendInv'
<1>1. Typed'
  BY DEF BackendInv, Typed, Calls
<1>2. CallConsistent' /\ FlagsConsistent' /\ InitGoesOn'
  BY DEF BackendInv, CallConsistent, FlagsConsistent, InitGoesOn
<1>3. Needed' = Needed /\ Base' = Base
  BY DEF Needed, Base, Handles, PartsOf
<1>4. HeldBounded' /\ HasHandles' /\ HasBuffers'
  BY <1>3 DEF BackendInv, HeldBounded, HasHandles, HasBuffers, PartsOf
<1> QED
  BY <1>1, <1>2, <1>4 DEF BackendInv

(* A function of the runtime begins. *)
LEMMA Starts ==
    ASSUME BackendInv, Idle, NEW fn \in Functions, NEW p \in Ptrs \cup {Global},
           call' = Begun(fn, p), UNCHANGED <<api, held, inited, ready, allocs>>,
           native_ready' \in BOOLEAN, native_ready' => inited,
           fn = "init" => ~inited /\ p = Global /\ ~native_ready' /\ doing' = "init",
           fn = "allocate" => inited /\ p \notin allocs,
           fn \in Kernels => inited /\ p = Global
    PROVE  BackendInv'
<1>1. /\ call'.fn = fn /\ call'.ptr = p /\ call'.at = 1 /\ call'.res = "running" /\ ~Idle'
      /\ call' \in Calls
  BY DEF Begun, Idle, Calls
<1>2. Typed' /\ (api \in Runtimes)'
  BY <1>1 DEF BackendInv, Typed, Calls
<1>3. (Len(Program) \in Nat \ {0})'
  <2>1. (api \in Runtimes /\ call.fn \in Functions)' => (Tidy(Program, Kept, Drops, Jump))'
    BY ProgramTidy, PTL
  <2> QED
    BY <1>1, <1>2, <2>1 DEF Tidy
<1>4. CallConsistent'
  BY <1>1, <1>3 DEF CallConsistent
<1>5. FlagsConsistent'
  BY <1>1 DEF BackendInv, FlagsConsistent
<1>6. Needed' = Needed /\ Base' = Base
  BY DEF Needed, Base, Handles, PartsOf
<1>7. HeldBounded' /\ HasHandles' /\ HasBuffers'
  <2>1. held \subseteq Base
    BY DEF BackendInv, HeldBounded
  <2> QED
    BY <1>6, <2>1 DEF BackendInv, HeldBounded, HasHandles, HasBuffers, PartsOf
<1>8. InitGoesOn'
  BY <1>1 DEF InitGoesOn, Progress
<1> QED
  BY <1>2, <1>4, <1>5, <1>7, <1>8 DEF BackendInv

LEMMA CallTyped ==
    ASSUME BackendInv
    PROVE  /\ call \in Calls
           /\ \A fn \in {"init", "allocate", "free", "shutdown"}, res \in {"ok", "error"} :
                 Returned(fn, res) \in Calls /\ Returned(fn, res).res = res
BY DEF BackendInv, Typed, Calls, Returned, Functions

LEMMA InitializeInv == ASSUME BackendInv, Initialize PROVE BackendInv'
<1>1. /\ Idle /\ doing = "none" /\ native_ready' = FALSE
      /\ UNCHANGED <<api, held, inited, ready, allocs>>
      /\ IF native THEN doing' = "init" ELSE UNCHANGED <<call, doing>>
      /\ native => call' = IF inited THEN Returned("init", "ok") ELSE Begun("init", Global)
  BY DEF Initialize, Free, BeginInit, runtimeVars
<1>2. CASE native /\ ~inited
  BY <1>1, <1>2, Starts DEF Functions, Kernels
<1>3. CASE native /\ inited
  BY <1>1, <1>3, CallTyped, Rests DEF Idle
<1>4. CASE ~native
  BY <1>1, <1>4, CallTyped, Rests DEF Idle
<1> QED
  BY <1>2, <1>3, <1>4

LEMMA InitializeReturnsInv == ASSUME BackendInv, InitializeReturns PROVE BackendInv'
<1>1. /\ Idle /\ doing = "init" /\ native_ready' = (call.res = "ok") /\ doing' = "none"
      /\ UNCHANGED <<api, held, inited, ready, allocs, call>>
  BY DEF InitializeReturns, runtimeVars
<1>2. native_ready' \in BOOLEAN /\ (native_ready' => inited)
  BY <1>1 DEF BackendInv, FlagsConsistent
<1> QED
  BY <1>1, <1>2, CallTyped, Rests DEF Idle

LEMMA AllocateInv == ASSUME BackendInv, NEW p \in Ptrs, Allocate(p) PROVE BackendInv'
<1>1. /\ Idle /\ doing = "none" /\ UNCHANGED native_ready
      /\ native_ready \in BOOLEAN /\ (native_ready => inited)
  BY DEF Allocate, Free, BackendInv, Typed, FlagsConsistent
<1>2. CASE native_ready
  <2>1. /\ p \notin allocs /\ call' = Begun("allocate", p)
        /\ UNCHANGED <<api, held, inited, ready, allocs>>
    BY <1>1, <1>2 DEF Allocate, BeginAllocate
  <2> QED
    BY <1>1, <1>2, <2>1, Starts DEF Functions, Kernels
<1>3. CASE ~native_ready
  <2>1. UNCHANGED <<api, held, inited, ready, allocs, call, doing>>
    BY <1>3 DEF Allocate, runtimeVars
  <2> QED
    BY <1>1, <2>1, CallTyped, Rests DEF Idle
<1> QED
  BY <1>2, <1>3

LEMMA AllocateReturnsInv == ASSUME BackendInv, AllocateReturns PROVE BackendInv'
<1>1. /\ Idle /\ doing' = "none" /\ UNCHANGED <<api, held, inited, ready, allocs, call, native_ready>>
      /\ native_ready \in BOOLEAN /\ (native_ready => inited)
  BY DEF AllocateReturns, runtimeVars, BackendInv, Typed, FlagsConsistent
<1> QED
  BY <1>1, CallTyped, Rests DEF Idle

LEMMA DispatchKernelInv ==
    ASSUME BackendInv, NEW fn \in Kernels, DispatchKernel(fn) PROVE BackendInv'
<1>1. /\ Idle /\ native_ready /\ inited /\ call' = Begun(fn, Global)
      /\ UNCHANGED <<api, held, inited, ready, allocs, native_ready>>
      /\ native_ready \in BOOLEAN
  BY DEF DispatchKernel, BeginKernel, BackendInv, Typed
<1>2. fn \in Functions /\ fn \notin {"init", "allocate"}
  BY DEF Functions, Kernels
<1> QED
  BY <1>1, <1>2, Starts

LEMMA FreeBufferInv == ASSUME BackendInv, NEW p \in Ptrs, FreeBuffer(p) PROVE BackendInv'
<1>1. /\ Idle /\ doing = "none" /\ UNCHANGED <<native_ready, doing>>
      /\ native_ready \in BOOLEAN /\ (native_ready => inited)
  BY DEF FreeBuffer, Free, BackendInv, Typed, FlagsConsistent
<1>2. CASE native_ready /\ p \in device_allocs
  <2>1. /\ allocs' = allocs \ {p} /\ held' = held \ PartsOf({p})
        /\ UNCHANGED <<api, inited, ready>>
        /\ \E res \in {"ok", "error"} : call' = Returned("free", res)
    BY <1>2 DEF FreeBuffer, RuntimeFree
  <2>2. call' \in Calls /\ Idle'
    BY <2>1, CallTyped DEF Idle
  <2>3. Typed' /\ CallConsistent' /\ FlagsConsistent' /\ InitGoesOn'
    BY <1>1, <2>1, <2>2
       DEF BackendInv, Typed, Calls, CallConsistent, FlagsConsistent, InitGoesOn
  <2>4. Needed' = Needed /\ Handles' = Handles /\ api \in Runtimes
    BY <2>1 DEF Needed, Handles, BackendInv, Typed
  <2>5. HeldBounded'
    <3>1. held \subseteq PartsOf(allocs) \cup IF inited THEN Handles ELSE {}
      BY <1>1 DEF BackendInv, HeldBounded, Base
    <3>2. held' \subseteq PartsOf(allocs \ {p}) \cup IF inited THEN Handles ELSE {}
      BY <2>1, <3>1 DEF PartsOf
    <3> QED
      BY <2>1, <2>2, <2>4, <3>2 DEF HeldBounded, Base, PartsOf
  <2>6. HasHandles'
    <3>1. inited => Needed \X {Global} \subseteq held
      BY DEF BackendInv, HasHandles
    <3>2. Needed \cap Parts = {}
      BY <2>4, NeededAreHandles, NamesApart
    <3> HIDE DEF Needed
    <3> QED
      BY <2>1, <2>4, <3>1, <3>2 DEF HasHandles, PartsOf, Parts
  <2>7. HasBuffers'
    <3> SUFFICES ASSUME NEW x \in allocs, x # p PROVE PartsOf({x}) \cap held' # {}
      BY <2>1 DEF HasBuffers, PartsOf
    <3>1. PICK r \in Parts : <<r, x>> \in held
      BY DEF BackendInv, HasBuffers, PartsOf, Parts
    <3>2. <<r, x>> \in held' /\ <<r, x>> \in PartsOf({x})
      BY <2>1, <3>1 DEF PartsOf, Parts
    <3> QED
      BY <3>2
  <2> QED
    BY <2>3, <2>5, <2>6, <2>7 DEF BackendInv
<1>3. CASE ~(native_ready /\ p \in device_allocs)
  <2>1. UNCHANGED <<api, held, inited, ready, allocs, call>>
    BY <1>3 DEF FreeBuffer, runtimeVars
  <2> QED
    BY <1>1, <2>1, CallTyped, Rests DEF Idle
<1> QED
  BY <1>2, <1>3

LEMMA ShutdownInv == ASSUME BackendInv, ShutdownBackend PROVE BackendInv'
<1>1. /\ Idle /\ doing = "none" /\ doing' = "none" /\ native_ready' = FALSE
      /\ native_ready \in BOOLEAN /\ (native_ready => inited) /\ api \in Runtimes
      /\ held \subseteq PartsOf(allocs) \cup IF inited THEN Handles ELSE {}
  BY DEF ShutdownBackend, Free, BackendInv, Typed, FlagsConsistent, HeldBounded, Base
<1>2. CASE native_ready
  <2>1. /\ held' = held \ (PartsOf(device_allocs \cup allocs) \cup Handles)
        /\ allocs' = {} /\ inited' = FALSE /\ ready' = FALSE
        /\ call' = Returned("shutdown", "ok") /\ UNCHANGED api
    BY <1>2 DEF ShutdownBackend, Shutdown
  <2>2. call' \in Calls /\ Idle'
    BY <2>1, CallTyped DEF Idle
  <2>3. held' = {}
    <3>1. PartsOf(allocs) \subseteq PartsOf(device_allocs \cup allocs)
      BY DEF PartsOf
    <3> QED
      BY <1>1, <2>1, <3>1
  <2>4. Typed' /\ CallConsistent' /\ FlagsConsistent' /\ InitGoesOn'
    BY <1>1, <2>1, <2>2
       DEF BackendInv, Typed, Calls, CallConsistent, FlagsConsistent, InitGoesOn
  <2>5. HeldBounded' /\ HasHandles' /\ HasBuffers'
    BY <2>1, <2>3 DEF HeldBounded, HasHandles, HasBuffers
  <2> QED
    BY <2>4, <2>5 DEF BackendInv
<1>3. CASE ~native_ready
  <2>1. /\ held' = held \ PartsOf(device_allocs) /\ allocs' = allocs \ device_allocs
        /\ UNCHANGED <<api, inited, ready, call>>
    BY <1>3 DEF ShutdownBackend
  <2>2. call' \in Calls /\ Idle'
    BY <1>1, <2>1, CallTyped DEF Idle
  <2>3. Typed' /\ CallConsistent' /\ FlagsConsistent' /\ InitGoesOn'
    BY <1>1, <2>1, <2>2
       DEF BackendInv, Typed, Calls, CallConsistent, FlagsConsistent, InitGoesOn
  <2>4. Needed' = Needed /\ Handles' = Handles
    BY <2>1 DEF Needed, Handles
  <2>5. HeldBounded'
    <3>1. held' \subseteq PartsOf(allocs \ device_allocs) \cup IF inited THEN Handles ELSE {}
      BY <1>1, <2>1 DEF PartsOf
    <3> QED
      BY <2>1, <2>2, <2>4, <3>1 DEF HeldBounded, Base, PartsOf
  <2>6. HasHandles'
    <3>1. inited => Needed \X {Global} \subseteq held
      BY DEF BackendInv, HasHandles
    <3>2. Needed \cap Parts = {}
      BY <1>1, NeededAreHandles, NamesApart
    <3> HIDE DEF Needed
    <3> QED
      BY <2>1, <2>4, <3>1, <3>2 DEF HasHandles, PartsOf, Parts
  <2>7. HasBuffers'
    <3> SUFFICES ASSUME NEW x \in allocs \ device_allocs PROVE PartsOf({x}) \cap held' # {}
      BY <2>1 DEF HasBuffers, PartsOf
    <3>1. PICK r \in Parts : <<r, x>> \in held
      BY DEF BackendInv, HasBuffers, PartsOf, Parts
    <3>2. <<r, x>> \in held' /\ <<r, x>> \in PartsOf({x})
      BY <2>1, <3>1 DEF PartsOf, Parts
    <3> QED
      BY <3>2
  <2> QED
    BY <2>3, <2>5, <2>6, <2>7 DEF BackendInv
<1> QED
  BY <1>2, <1>3

(* An operation that looks at the runtime and changes nothing of it. *)
LEMMA LooksInv ==
    ASSUME BackendInv, UNCHANGED <<runtimeVars, native_ready, doing>> PROVE BackendInv'
<1> USE DEF runtimeVars
<1>1. Typed' /\ FlagsConsistent'
  BY DEF BackendInv, Typed, FlagsConsistent
<1>2. /\ Program' = Program /\ Kept' = Kept /\ Needed' = Needed /\ Base' = Base
      /\ Idle' = Idle
  BY DEF Program, InitProgram, AllocateProgram, Kept, HandleNames, Needed, Base, Handles, PartsOf,
         Idle
<1>3. CallConsistent' /\ InitGoesOn'
  BY <1>2 DEF BackendInv, CallConsistent, InitGoesOn, Progress
<1>4. HeldBounded' /\ HasHandles' /\ HasBuffers'
  BY <1>2 DEF BackendInv, HeldBounded, Room, Mine, HasHandles, HasBuffers, PartsOf
<1> QED
  BY <1>1, <1>3, <1>4 DEF BackendInv

LEMMA NextInv == ASSUME BackendInv, [NextBackend]_vars PROVE BackendInv'
<1>1. CASE RuntimeSteps
  <2>1. CASE StepSucceeds
    BY <1>1, <2>1, SucceedsInv DEF RuntimeSteps
  <2>2. CASE StepSkipped
    BY <1>1, <2>2, SkippedInv DEF RuntimeSteps
  <2>3. CASE StepFails
    BY <1>1, <2>3, SoftFailureInv, HardFailureInv DEF RuntimeSteps
  <2> QED
    BY <1>1, <2>1, <2>2, <2>3 DEF RuntimeSteps
<1>2. CASE \E op \in Ops, res \in Residency, ok \in BOOLEAN : \E a \in ArgsOf(op) :
             Dispatch(op, a, res, ok)
  BY <1>2, LooksInv DEF Dispatch
<1>3. CASE \E c \in CopyArgs, ok \in BOOLEAN : Copy(c, ok)
  BY <1>3, LooksInv DEF Copy
<1>4. CASE UNCHANGED vars
  BY <1>4, LooksInv DEF vars, backendVars
<1>5. CASE \E fn \in {"gemm", "rope", "attention", "submit"} : DispatchKernel(fn)
  BY <1>5, DispatchKernelInv DEF Kernels
<1> QED
  BY <1>1, <1>2, <1>3, <1>4, <1>5, InitializeInv, InitializeReturnsInv, AllocateReturnsInv,
     ShutdownInv, AllocateInv, FreeBufferInv DEF NextBackend

(* What is held is accounted for, and what is ready is built, at every step.  *)
THEOREM BackendConsistent == SpecBackend => []BackendInv
BY InitInv, NextInv, PTL DEF SpecBackend

(* Whatever vendor call of the runtime fails, in whatever program: between    *)
(* calls the runtime holds the buffers of its table and its handles, and no    *)
(* more.                                                                       *)
THEOREM NothingIsLeaked == SpecBackend => []NothingLeaks
<1>1. BackendInv => NothingLeaks
  BY DEF BackendInv, HeldBounded, Base, NothingLeaks
<1> QED
  BY <1>1, BackendConsistent, PTL

(* A backend that takes itself for ready has an initialised runtime, with the  *)
(* handles its kernels use; a buffer of the table has memory behind it.        *)
THEOREM ReadyIsBuilt == SpecBackend => []ReadyMeansBuilt
<1>1. BackendInv => ReadyMeansBuilt
  BY DEF BackendInv, FlagsConsistent, HasHandles, HasBuffers, ReadyMeansBuilt
<1> QED
  BY <1>1, BackendConsistent, PTL

-----------------------------------------------------------------------------
(* Where an operator runs, and what comes of it *)
Outcomes == [code : {"ok", "invalid", "unimplemented", "internal"}, right : BOOLEAN,
             appends : Nat, fault : BOOLEAN]

(* What BackendParity asks of one outcome. *)
Fair(out, op, a, ok) ==
    /\ ~out.fault
    /\ out.code = "ok" =>
         \/ out = DispatchCpu(op, a)
         \/ /\ api = "cuda" /\ op = "RoPE" /\ a.per_row
            /\ out = [DispatchCpu(op, a) EXCEPT !.right = FALSE]
    /\ out.code # "ok" => DispatchCpu(op, a).code # "ok" \/ ~ok \/ ~initialized

LEMMA OutcomeKinds ==
    ASSUME NEW code \in {"invalid", "unimplemented", "internal"}, NEW op
    PROVE  /\ Refused(code) \in Outcomes /\ Computed(op) \in Outcomes
           /\ Refused(code).code = code /\ Refused(code).appends = 0 /\ ~Refused(code).fault
           /\ Computed(op).code = "ok" /\ ~Computed(op).fault
BY DEF Refused, Computed, Outcome, Outcomes

LEMMA CpuOutcome ==
    ASSUME NEW op, NEW a
    PROVE  /\ DispatchCpu(op, a) \in {Computed(op), Refused("invalid")}
           /\ HostDispatch(op, a) \in {DispatchCpu(op, a), Refused("invalid")}
           /\ DispatchCpu(op, a) = Computed(op) <=> Valid(a) /\ a.scale_ok
           /\ \A ok \in BOOLEAN : /\ Fair(DispatchCpu(op, a), op, a, ok)
                                  /\ Fair(HostDispatch(op, a), op, a, ok)
<1>1. /\ Refused("invalid").code = "invalid" /\ ~Refused("invalid").fault
      /\ Computed(op).code = "ok" /\ ~Computed(op).fault
  BY OutcomeKinds
<1>2. DispatchCpu(op, a) = IF Valid(a) /\ a.scale_ok THEN Computed(op) ELSE Refused("invalid")
  BY DEF DispatchCpu
<1>3. HostDispatch(op, a) = IF initialized THEN DispatchCpu(op, a) ELSE Refused("invalid")
  BY DEF HostDispatch
<1>4. /\ DispatchCpu(op, a) \in {Computed(op), Refused("invalid")}
      /\ HostDispatch(op, a) \in {DispatchCpu(op, a), Refused("invalid")}
      /\ DispatchCpu(op, a) = Computed(op) <=> Valid(a) /\ a.scale_ok
  BY <1>1, <1>2, <1>3
<1>5. ASSUME NEW ok \in BOOLEAN
      PROVE  /\ Fair(DispatchCpu(op, a), op, a, ok) /\ Fair(HostDispatch(op, a), op, a, ok)
  BY <1>1, <1>2, <1>3 DEF Fair
<1> QED
  BY <1>4, <1>5

(* An attempt that failed has appended nothing. *)
LEMMA SecondAttempt ==
    ASSUME NEW code \in {"invalid", "unimplemented", "internal"}, NEW x \in Outcomes
    PROVE  Then(Refused(code), x) = x
<1>1. Refused(code).appends = 0
  BY OutcomeKinds
<1>2. x.appends + Refused(code).appends = x.appends
  BY <1>1 DEF Outcomes
<1> QED
  BY <1>2 DEF Then, Outcomes

LEMMA OnlyRopeScales ==
    ASSUME NEW op \in Ops, NEW a \in ArgsOf(op), op # "RoPE" PROVE a.scale_ok
<1>1. Plain.scale_ok
  BY DEF Plain
<1>2. \A x : x \in ArgsOf(op) =>
        x \in {Plain, [Plain EXCEPT !.args_ok = FALSE], [Plain EXCEPT !.shape_ok = FALSE],
              [Plain EXCEPT !.ta = TRUE], [Plain EXCEPT !.offset = TRUE],
              [Plain EXCEPT !.seq1 = FALSE], [Plain EXCEPT !.window = TRUE],
              [Plain EXCEPT !.present = TRUE]}
  BY DEF ArgsOf, Ops
<1> QED
  BY <1>1, <1>2 DEF Plain

(* A native kernel computes what the CPU does, or refuses: because the call is *)
(* invalid, because a vendor call failed, or as unimplemented.  A rotation may *)
(* be scaled by its last row instead.                                          *)
Attempt(err, op, a, ok) ==
    \/ err = Computed(op) /\ Valid(a) /\ a.scale_ok
    \/ /\ op = "RoPE" /\ a.per_row /\ Valid(a) /\ a.scale_ok
       /\ err = [Computed(op) EXCEPT !.right = FALSE]
    \/ err = Refused("unimplemented")
    \/ err = Refused("invalid") /\ ~Valid(a)
    \/ err = Refused("internal") /\ ~ok

LEMMA CudaAttempt ==
    ASSUME NEW op \in Ops, NEW a \in ArgsOf(op), NEW ok \in BOOLEAN
    PROVE  Attempt(CudaDispatch(op, a, ok), op, a, ok)
<1>1. CASE op \in {"MatMul", "MatMulRelu"}
  <2>1. CudaDispatch(op, a, ok) = CudaMatMul(op, a, ok) /\ a.scale_ok
    BY <1>1, OnlyRopeScales DEF CudaDispatch
  <2> QED
    BY <2>1 DEF CudaMatMul, Attempt
<1>2. CASE op = "Add"
  <2>1. CudaDispatch(op, a, ok) = CudaElementwise(op, a, ok) /\ a.scale_ok
    BY <1>2, OnlyRopeScales DEF CudaDispatch
  <2> QED
    BY <2>1 DEF CudaElementwise, Attempt
<1>3. CASE op = "RMSNorm"
  <2>1. CudaDispatch(op, a, ok) = CudaRmsNorm(a, ok) /\ a.scale_ok
    BY <1>3, OnlyRopeScales DEF CudaDispatch
  <2> QED
    BY <1>3, <2>1 DEF CudaRmsNorm, Attempt
<1>4. CASE op = "Softmax"
  <2>1. CudaDispatch(op, a, ok) = CudaSoftmax(a, ok) /\ a.scale_ok
    BY <1>4, OnlyRopeScales DEF CudaDispatch
  <2> QED
    BY <1>4, <2>1 DEF CudaSoftmax, Attempt
<1>5. CASE op = "RoPE"
  <2>1. CudaDispatch(op, a, ok) = CudaRope(a, ok)
    BY <1>5 DEF CudaDispatch
  <2> QED
    BY <1>5, <2>1 DEF CudaRope, Attempt
<1>6. CASE op = "Attention"
  <2>1. CudaDispatch(op, a, ok) = CudaAttention(a, ok) /\ a.scale_ok
    BY <1>6, OnlyRopeScales DEF CudaDispatch
  <2> QED
    BY <1>6, <2>1 DEF CudaAttention, CudaAttentionTakes, Attempt
<1>7. CASE op = "MLAExpandK"
  BY <1>7 DEF CudaDispatch, Attempt
<1> QED
  BY <1>1, <1>2, <1>3, <1>4, <1>5, <1>6, <1>7 DEF Ops

(* Vulkan refuses tensors that are not in its table as invalid; the host       *)
(* staging then decides.                                                       *)
LEMMA VulkanAttempt ==
    ASSUME NEW op \in Ops, NEW a \in ArgsOf(op), NEW res
    PROVE  LET err == VulkanDispatch(op, a, res) IN
           \/ err = Computed(op) /\ Valid(a) /\ a.scale_ok
           \/ err \in {Refused("unimplemented"), Refused("invalid")}
<1> DEFINE err == VulkanDispatch(op, a, res)
<1>1. CASE op = "Add"
  <2>1. err = VulkanAdd(a, res) /\ a.scale_ok
    BY <1>1, OnlyRopeScales DEF VulkanDispatch
  <2> QED
    BY <1>1, <2>1 DEF VulkanAdd
<1>2. CASE op = "MatMul"
  <2>1. err = VulkanMatMul(a, res) /\ a.scale_ok
    BY <1>2, OnlyRopeScales DEF VulkanDispatch
  <2> QED
    BY <1>2, <2>1 DEF VulkanMatMul
<1>3. CASE op = "MatMulRelu"
  <2>1. err = IF VulkanMatMul(a, res).code # "ok" THEN VulkanMatMul(a, res)
              ELSE Refused("unimplemented")
    BY <1>3 DEF VulkanDispatch
  <2>2. Computed("MatMul").code = "ok"
    BY DEF Computed, Outcome
  <2> QED
    BY <2>1, <2>2 DEF VulkanMatMul
<1>4. CASE op = "RMSNorm"
  <2>1. err = VulkanRmsNorm(a, res) /\ a.scale_ok
    BY <1>4, OnlyRopeScales DEF VulkanDispatch
  <2> QED
    BY <1>4, <2>1 DEF VulkanRmsNorm
<1>5. CASE op \notin {"Add", "MatMul", "MatMulRelu", "RMSNorm"}
  BY <1>5 DEF VulkanDispatch
<1> QED
  BY <1>1, <1>2, <1>3, <1>4, <1>5

LEMMA StagingFair ==
    ASSUME NEW op, NEW a, NEW res, NEW ok \in BOOLEAN,
           (api = "cuda" /\ res # "host") \/ api \in {"vulkan", "webgpu"}
    PROVE  /\ DispatchViaHostStaging(op, a, res, ok) \in Outcomes
           /\ Fair(DispatchViaHostStaging(op, a, res, ok), op, a, ok)
<1> DEFINE out == DispatchViaHostStaging(op, a, res, ok)
<1>1. out = DispatchCpu(op, a) \/ (out = Refused("internal") /\ ~ok)
  BY DEF DispatchViaHostStaging, PointerOnDevice, HostReachable
<1>2. CASE out = DispatchCpu(op, a)
  BY <1>2, CpuOutcome, OutcomeKinds
<1>3. CASE out = Refused("internal") /\ ~ok
  BY <1>3, OutcomeKinds DEF Fair
<1> QED
  BY <1>1, <1>2, <1>3

LEMMA HostFair ==
    ASSUME NEW op, NEW a, NEW ok \in BOOLEAN
    PROVE  HostDispatch(op, a) \in Outcomes /\ Fair(HostDispatch(op, a), op, a, ok)
BY CpuOutcome, OutcomeKinds

LEMMA AttemptFair ==
    ASSUME api = "cuda", NEW op, NEW a, NEW ok \in BOOLEAN, NEW err, Attempt(err, op, a, ok)
    PROVE  /\ err.code \in {"ok", "invalid", "unimplemented", "internal"}
           /\ err.code = "ok" => Fair(err, op, a, ok)
           /\ err.code # "unimplemented" => Fair(err, op, a, ok)
           /\ err.code # "ok" => err = Refused(err.code)
<1>1. /\ Computed(op).code = "ok" /\ ~Computed(op).fault
      /\ \A c \in {"invalid", "unimplemented", "internal"} :
            Refused(c).code = c /\ ~Refused(c).fault
  BY OutcomeKinds
<1>2. DispatchCpu(op, a) = IF Valid(a) /\ a.scale_ok THEN Computed(op) ELSE Refused("invalid")
  BY DEF DispatchCpu
<1>3. CASE err = Computed(op) /\ Valid(a) /\ a.scale_ok
  BY <1>1, <1>2, <1>3 DEF Fair
<1>4. CASE err = Refused("unimplemented")
  BY <1>1, <1>4
<1>5. CASE err = Refused("invalid") /\ ~Valid(a)
  BY <1>1, <1>2, <1>5 DEF Fair
<1>6. CASE err = Refused("internal") /\ ~ok
  BY <1>1, <1>6 DEF Fair
<1>7. CASE /\ op = "RoPE" /\ a.per_row /\ Valid(a) /\ a.scale_ok
           /\ err = [Computed(op) EXCEPT !.right = FALSE]
  <2>1. err.code = "ok" /\ ~err.fault
    BY <1>7 DEF Computed, Outcome
  <2>2. DispatchCpu(op, a) = Computed(op)
    BY <1>2, <1>7
  <2> QED
    BY <1>7, <2>1, <2>2 DEF Fair
<1> QED
  BY <1>3, <1>4, <1>5, <1>6, <1>7 DEF Attempt

LEMMA DispatchFair ==
    ASSUME NEW op \in Ops, NEW a \in ArgsOf(op), NEW res \in Residency, NEW ok \in BOOLEAN,
           api \in {"cuda", "vulkan", "webgpu"}, native_ready \in BOOLEAN
    PROVE  Fair(BackendDispatch(op, a, res, ok), op, a, ok)
<1> DEFINE host == HostDispatch(op, a)
           staged == DispatchViaHostStaging(op, a, res, ok)
<1>1. CASE ~native_ready
  <2>1. BackendDispatch(op, a, res, ok) = host
    BY <1>1 DEF BackendDispatch
  <2> QED
    BY <2>1, HostFair
<1>2. CASE native_ready /\ api = "cuda"
  <2> DEFINE err == CudaDispatch(op, a, ok)
  <2>1. BackendDispatch(op, a, res, ok) = CudaBackendDispatch(op, a, res, ok)
    BY <1>2 DEF BackendDispatch
  <2>2. /\ err.code \in {"ok", "invalid", "unimplemented", "internal"}
        /\ err.code = "ok" => Fair(err, op, a, ok)
        /\ err.code # "unimplemented" => Fair(err, op, a, ok)
        /\ err.code # "ok" => err = Refused(err.code)
    BY <1>2, CudaAttempt, AttemptFair
  <2>3. CASE res = "host"
    <3>1. CudaBackendDispatch(op, a, res, ok) =
            IF op \notin {"Attention", "RoPE", "MLAExpandK"} THEN host
            ELSE IF err.code = "unimplemented" THEN Then(err, host) ELSE err
      BY <2>3 DEF CudaBackendDispatch
    <3>2. Fair(host, op, a, ok) /\ host \in Outcomes
      BY HostFair
    <3>3. err.code = "unimplemented" => Then(err, host) = host
      BY <2>2, <3>2, SecondAttempt
    <3> HIDE DEF err, host
    <3> QED
      BY <2>1, <2>2, <3>1, <3>2, <3>3
  <2>4. CASE res = "mixed"
    <3>1. CudaBackendDispatch(op, a, res, ok) = staged
      BY <2>4 DEF CudaBackendDispatch
    <3> QED
      BY <1>2, <2>1, <2>4, <3>1, StagingFair
  <2>5. CASE res = "device"
    <3>1. CudaBackendDispatch(op, a, res, ok) = IF err.code = "ok" THEN err ELSE Then(err, staged)
      BY <2>5 DEF CudaBackendDispatch
    <3>2. Fair(staged, op, a, ok) /\ staged \in Outcomes
      BY <1>2, <2>5, StagingFair
    <3>3. err.code # "ok" => Then(err, staged) = staged
      BY <2>2, <3>2, SecondAttempt
    <3> HIDE DEF err, staged
    <3> QED
      BY <2>1, <2>2, <3>1, <3>2, <3>3
  <2> QED
    BY <2>3, <2>4, <2>5 DEF Residency
<1>3. ASSUME NEW err, api \in {"vulkan", "webgpu"},
             \/ err = Computed(op) /\ Valid(a) /\ a.scale_ok
             \/ err \in {Refused("unimplemented"), Refused("invalid")}
      PROVE  Fair(Retried(err, op, a, res, ok), op, a, ok)
  <2>1. Fair(staged, op, a, ok) /\ staged \in Outcomes
    BY <1>3, StagingFair
  <2>2. CASE err = Computed(op) /\ Valid(a) /\ a.scale_ok
    <3>1. Retried(err, op, a, res, ok) = err
      BY <2>2, OutcomeKinds DEF Retried
    <3> QED
      BY <2>2, <3>1, CpuOutcome
  <2>3. CASE err \in {Refused("unimplemented"), Refused("invalid")}
    <3>1. PICK c \in {"unimplemented", "invalid"} : err = Refused(c)
      BY <2>3
    <3>2. err.code = c /\ ~err.fault /\ Then(err, staged) = staged
      BY <2>1, <3>1, OutcomeKinds, SecondAttempt
    <3>3. Retried(err, op, a, res, ok) = staged
      BY <3>1, <3>2 DEF Retried
    <3> QED
      BY <2>1, <3>3
  <2> QED
    BY <1>3, <2>2, <2>3
<1>4. CASE native_ready /\ api = "vulkan"
  <2>1. BackendDispatch(op, a, res, ok) = Retried(VulkanDispatch(op, a, res), op, a, res, ok)
    BY <1>4 DEF BackendDispatch, VulkanBackendDispatch
  <2> QED
    BY <1>3, <1>4, <2>1, VulkanAttempt
<1>5. CASE native_ready /\ api = "webgpu"
  <2>1. BackendDispatch(op, a, res, ok) = Retried(Refused("unimplemented"), op, a, res, ok)
    BY <1>5 DEF BackendDispatch, WebgpuBackendDispatch, WebgpuDispatch
  <2> QED
    BY <1>3, <1>5, <2>1
<1> QED
  BY <1>1, <1>2, <1>4, <1>5

LEMMA CopyFair ==
    ASSUME NEW c \in CopyArgs, NEW ok \in BOOLEAN, OnDevice(c) => native_ready,
           api \in {"cuda", "vulkan", "webgpu"}, native_ready \in BOOLEAN
    PROVE  Fair(BackendCopy(c, ok), "copy", Plain, ok)
<1>1. DispatchCpu("copy", Plain) = Computed("copy")
  BY DEF DispatchCpu, Valid, Plain
<1>2. BackendCopy(c, ok) = Computed("copy") \/ (BackendCopy(c, ok) = Refused("internal") /\ ~ok)
  <2>1. CASE ~native_ready
    <3>1. BackendCopy(c, ok) = HostCopy(c)
      BY <2>1 DEF BackendCopy
    <3> QED
      BY <2>1, <3>1 DEF HostCopy
  <2>2. CASE native_ready /\ api = "cuda"
    <3>1. BackendCopy(c, ok) = IF OnDevice(c) THEN DriverCopy(c, ok) ELSE HostCopy(c)
      BY <2>2 DEF BackendCopy, CudaBackendCopy, CudaCopy
    <3>2. OnDevice(c) => /\ ~(c.kind \in {"h2d", "h2d_async"} /\ c.dst = "host")
                         /\ ~(c.kind = "d2h" /\ c.src = "host")
      BY DEF CopyArgs, OnDevice
    <3> QED
      BY <3>1, <3>2 DEF DriverCopy, HostCopy
  <2>3. CASE native_ready /\ api \in {"vulkan", "webgpu"}
    <3>1. BackendCopy(c, ok) = HostCopy(c)
      BY <2>3 DEF BackendCopy, MappedCopy
    <3> QED
      BY <2>3, <3>1 DEF HostCopy, HostReachable
  <2> QED
    BY <2>1, <2>2, <2>3
<1>3. CASE BackendCopy(c, ok) = Computed("copy")
  BY <1>1, <1>3, OutcomeKinds DEF Fair
<1>4. CASE BackendCopy(c, ok) = Refused("internal") /\ ~ok
  BY <1>4, OutcomeKinds DEF Fair
<1> QED
  BY <1>2, <1>3, <1>4

LEMMA ParityStep ==
    ASSUME Routed \subseteq {"cuda", "vulkan", "webgpu"},
           BackendInv, BackendParity, [NextBackend]_vars
    PROVE  BackendParity'
<1>1. native_ready \in BOOLEAN
  BY DEF BackendInv, Typed
<1>2. ASSUME last' = NotYet PROVE BackendParity'
  BY <1>2 DEF BackendParity
<1>3. ASSUME UNCHANGED <<last, initialized>> PROVE BackendParity'
  BY <1>3 DEF BackendParity, DispatchCpu
<1>4. ASSUME NEW op \in Ops, NEW res \in Residency, NEW ok \in BOOLEAN, NEW a \in ArgsOf(op),
             Dispatch(op, a, res, ok)
      PROVE  BackendParity'
  <2>1. /\ api \in {"cuda", "vulkan", "webgpu"} /\ initialized' = initialized
        /\ last' = [api |-> api, op |-> op, args |-> a, res |-> res, ok |-> ok,
                    out |-> BackendDispatch(op, a, res, ok)]
    BY <1>4 DEF Dispatch
  <2>2. Fair(BackendDispatch(op, a, res, ok), op, a, ok)
    BY <1>1, <2>1, DispatchFair
  <2> QED
    BY <2>1, <2>2 DEF BackendParity, Fair, DispatchCpu, ScaledByLastRow
<1>5. ASSUME NEW c \in CopyArgs, NEW ok \in BOOLEAN, Copy(c, ok) PROVE BackendParity'
  <2>1. /\ api \in {"cuda", "vulkan", "webgpu"} /\ initialized' = initialized
        /\ OnDevice(c) => native_ready
        /\ last' = [api |-> api, op |-> "copy", args |-> Plain, res |-> c, ok |-> ok,
                    out |-> BackendCopy(c, ok)]
    BY <1>5 DEF Copy
  <2>2. Fair(BackendCopy(c, ok), "copy", Plain, ok)
    BY <1>1, <2>1, CopyFair
  <2> QED
    BY <2>1, <2>2 DEF BackendParity, Fair, DispatchCpu, ScaledByLastRow
<1>6. CASE Initialize \/ ShutdownBackend
  BY <1>2, <1>6 DEF Initialize, ShutdownBackend
<1>7. CASE InitializeReturns \/ AllocateReturns \/ RuntimeSteps \/ UNCHANGED vars
  BY <1>3, <1>7 DEF InitializeReturns, AllocateReturns, RuntimeSteps, vars, backendVars
<1>8. CASE \E p \in Ptrs : Allocate(p) \/ FreeBuffer(p)
  BY <1>2, <1>8 DEF Allocate, FreeBuffer
<1>9. CASE \E fn \in {"gemm", "rope", "attention", "submit"} : DispatchKernel(fn)
  BY <1>2, <1>9 DEF DispatchKernel
<1> QED
  BY <1>4, <1>5, <1>6, <1>7, <1>8, <1>9 DEF NextBackend

(* CUDA, Vulkan and WebGPU: whatever the tensors' residency and the vendor's  *)
(* answers, a dispatch that succeeds gave what the CPU kernel gives, with one *)
(* append to the KV cache, but for the value of a rotation CUDA scales by its  *)
(* last row; one that fails had a reason; nothing reaches for memory of the    *)
(* other side.  ROCm and Metal are left out: they do otherwise.   *)
THEOREM DispatchIsCpu ==
    ASSUME Routed \subseteq {"cuda", "vulkan", "webgpu"}
    PROVE  SpecBackend => []BackendParity
<1>1. InitBackend => BackendParity
  BY DEF InitBackend, BackendParity
<1>2. BackendInv /\ BackendParity /\ [NextBackend]_vars => BackendParity'
  BY ParityStep
<1> QED
  BY <1>1, <1>2, BackendConsistent, PTL DEF SpecBackend
=============================================================================

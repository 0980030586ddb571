------------------------ MODULE MCSessionStreaming ------------------------
(* Plans for SessionStreaming: a MatMul, a LayerNorm with weight and bias,   *)
(* and MoE ops with listed and with packed experts.                           *)
EXTENDS SessionStreaming, FiniteSetsExt, TLC

CONSTANTS w1, w2, w3, e1, e2, e3, e4, e5

MCExperts == {e1, e2, e3}
Total(experts, bytes) == [S \in SUBSET experts |-> MapThenSumSet(LAMBDA e : bytes[e], S)]

Op(ins, isListed) == [inputs |-> ins, listed |-> isListed]

(* matmul; matmul; mixture of experts with listed experts; matmul, tied to the first *)
DensePlan == << Op(<<w1>>, FALSE), Op(<<w2>>, FALSE),
                Op(<<e1, e2, e3>>, TRUE), Op(<<w1>>, FALSE) >>

(* LayerNorm(weight, bias); matmul; packed experts; matmul *)
BiasPlan == << Op(<<w1, w2>>, FALSE), Op(<<w3>>, FALSE), Op(<<e1, e2>>, FALSE),
               Op(<<w2, w1>>, FALSE) >>

MCWeights == {w1, w2, w3, e1, e2, e3}
MCBytes   == w1 :> 1 @@ w2 :> 1 @@ w3 :> 1 @@ e1 :> 1 @@ e2 :> 2 @@ e3 :> 1
MCTotalBytes == Total(MCExperts, MCBytes)
NoTear  == {"clean"}
AllModes == {"host", "async", "blocking"}

(* On the host path an op has one streamed dense input: with two, the staging *)
(* buffer of the first is reused (run_layernorm).                              *)
ModePlans == [m \in AllModes |-> IF m = "host" THEN DensePlan ELSE BiasPlan]

Host      == {"host"}
HostBias  == [m \in Host |-> BiasPlan]

(* Two mixtures of listed experts, which the cache cannot hold together. *)
ManyExperts    == {e1, e2, e3, e4, e5}
ManyWeights    == ManyExperts \cup {w1}
ManyBytes      == [w \in ManyWeights |-> 1]
ManyTotalBytes == Total(ManyExperts, ManyBytes)
TwoMixtures    == [m \in Host |-> << Op(<<e4, e5>>, TRUE), Op(<<e1, e2, e3>>, TRUE),
                                      Op(<<w1>>, FALSE) >>]
=============================================================================

----------------------- MODULE MCStreamingWeightStore -----------------------
(* Instances of StreamingWeightStore for TLC: two dense weights and three    *)
(* experts of different sizes, with budgets that force evictions.             *)
EXTENDS StreamingWeightStore, FiniteSetsExt, TLC

CONSTANTS w1, w2, e1, e2, e3

MCWeights == {w1, w2, e1, e2, e3}
MCExperts == {e1, e2, e3}
MCBytes   == w1 :> 1 @@ w2 :> 2 @@ e1 :> 1 @@ e2 :> 2 @@ e3 :> 1
Total(bytes) == [S \in SUBSET MCExperts |-> MapThenSumSet(LAMBDA e : bytes[e], S)]
MCTotalBytes == Total(MCBytes)

(* Which loads may fail, by run. *)
NoTear   == {"clean"}
MayTear  == {"clean", "torn"}
=============================================================================

--------------------------- MODULE MCGraphPlanner ---------------------------
(* Small graphs.  Tensor 1 is the input x, 9 the weight w.                    *)
EXTENDS GraphPlanner, TLC

MCOpTypes == {"Identity", "MatMul", "Relu", "MatMulRelu", "Gelu", "Silu", "Add", "Neg"}

N(id, op, ins, out) == [id |-> id, op |-> op, ins |-> ins, outs |-> <<out>>]
G(nodes, outs, bytes) == [nodes |-> nodes, inputs |-> {1}, outputs |-> outs, weights |-> {9},
                          bytes |-> bytes]
Sizes(ids, big) == [t \in ids |-> IF t \in big THEN 2 ELSE 1]

(* x -> Identity -> MatMul -> Relu -> Gelu -> Silu -> doubled: activations of  *)
(* two sizes, and an op that reads one tensor twice                           *)
Chain == G(<< N(1, "Identity", <<1>>, 2), N(2, "MatMul", <<2, 9>>, 3), N(3, "Relu", <<3>>, 4),
              N(4, "Gelu", <<4>>, 5), N(5, "Silu", <<5>>, 6), N(6, "Add", <<6, 6>>, 7) >>,
           {7}, Sizes({1, 2, 3, 4, 5, 6, 7, 9}, {4, 6}))

(* a MatMul with two consumers, listed after them, and a dead branch *)
Diamond(outs) == G(<< N(1, "Add", <<3, 4>>, 5), N(2, "Relu", <<3>>, 4), N(3, "MatMul", <<1, 9>>, 3),
                      N(4, "Neg", <<4>>, 6), N(5, "Silu", <<5>>, 7) >>,
                   outs, Sizes({1, 3, 4, 5, 6, 7, 9}, {3, 5}))

(* an Identity that gives a graph output, and a MatMul whose Relu is one *)
Tail2 == G(<< N(1, "MatMul", <<1, 9>>, 3), N(2, "Relu", <<3>>, 4), N(3, "Identity", <<4>>, 5) >>,
           {4, 5}, Sizes({1, 3, 4, 5, 9}, {}))

Loop == G(<< N(1, "Add", <<1, 4>>, 3), N(2, "Relu", <<3>>, 4), N(3, "Neg", <<1>>, 5) >>,
          {4, 5}, Sizes({1, 3, 4, 5, 9}, {}))

OwnInput == G(<< N(1, "Add", <<1, 3>>, 3) >>, {3}, Sizes({1, 3, 9}, {}))

(* two Identity nodes in a row *)
Identities == G(<< N(1, "Identity", <<1>>, 3), N(2, "Identity", <<3>>, 4), N(3, "Relu", <<4>>, 5) >>,
                {5}, Sizes({1, 3, 4, 5, 9}, {}))

MCGraphs == {Chain, Diamond({7}), Diamond({6, 7}), Tail2, Loop, OwnInput}
ChainOfIdentities == {Identities}

O(f, r, c) == [fusion |-> f, reuse |-> r, cache |-> c]
MCOptions == {O(TRUE, TRUE, TRUE), O(FALSE, TRUE, TRUE), O(TRUE, FALSE, FALSE)}
=============================================================================

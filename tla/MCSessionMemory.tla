-------------------------- MODULE MCSessionMemory --------------------------
(* Two small models in units of 2^27 bytes: a dense one and a mixture of      *)
(* experts, most weights quantized to a quarter of their 32-bit size.         *)
EXTENDS SessionMemory

Weight == [id |-> 0, embed |-> FALSE, lm |-> FALSE, norm |-> FALSE, layer |-> NoLayer,
           expert |-> FALSE, quant |-> TRUE, packed |-> 2, full |-> 8]

Embed(i) == [Weight EXCEPT !.id = i, !.embed = TRUE]
LmHead(i)  == [Weight EXCEPT !.id = i, !.lm = TRUE]
Norm(i)  == [Weight EXCEPT !.id = i, !.norm = TRUE, !.quant = FALSE, !.packed = 1, !.full = 1]
InLayer(i, l) == [Weight EXCEPT !.id = i, !.layer = l]
(* blk.N.attn_output.weight: its name also says "output.weight" *)
AttnOut(i, l) == [Weight EXCEPT !.id = i, !.layer = l, !.lm = TRUE, !.packed = 1, !.full = 4]
Bank(i, l) == [Weight EXCEPT !.id = i, !.layer = l, !.expert = TRUE, !.packed = 3, !.full = 12]

Dense == [weights |-> {Embed(1), InLayer(2, 0), AttnOut(3, 0), InLayer(4, 1), Norm(5), LmHead(6)},
          acts |-> {[id |-> 7, bytes |-> 1]}]
Moe   == [weights |-> {Embed(1), InLayer(2, 0), Norm(3), Bank(4, 0), Bank(5, 1), LmHead(6)},
          acts |-> {[id |-> 7, bytes |-> 1]}]

MCModels  == {Dense, Moe}

Option(p, gb, stream, pin) == [preset |-> p, ram_gb |-> gb, stream |-> stream, pin |-> pin]
Laptop1Gb == Option("laptop", 1, FALSE, NoLayer)
MCArgs == {Option("phone", 0, FALSE, NoLayer), Option("laptop", 0, FALSE, NoLayer), Laptop1Gb,
           Option("desktop", 1, FALSE, NoLayer), Option("none", 0, TRUE, 1),
           Option("none", 1, FALSE, 1), Option("phone", 1, FALSE, 2)}
LaptopArgs == {Laptop1Gb}
MCOrphans == {[id |-> 8, bytes |-> 1], [id |-> 9, bytes |-> 3]}
MCClasses == {1, 2, 4, 8, 16}
=============================================================================

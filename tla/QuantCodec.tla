------------------------------ MODULE QuantCodec ------------------------------
(***************************************************************************)
(* The block formats of GGUF: which bits of a packed block an element is made  *)
(* of.  A bit is <<array, byte, bit>>, a code the sequence of its bits, least  *)
(* significant first.  The values (f16 scales, offsets, the IQ4_NL table) are   *)
(* left out: an element is wrong exactly when it is made of the wrong bits.     *)
(***************************************************************************)
EXTENDS Integers, Sequences, FiniteSets, SequencesExt

KFormats     == {"Q2_K", "Q3_K", "Q4_K", "Q5_K", "Q6_K"}

(* quant_block_elems: QK and QK_K. *)
BlockElems(q) == IF q \in KFormats THEN 256 ELSE 32

(* The byte arrays of the Block structs and how many f16 values they hold. *)
BlockArrays(q) ==
    CASE q \in {"Q4_0", "Q4_1", "IQ4_NL"} -> [qs |-> 16]
      [] q \in {"Q5_0", "Q5_1"}           -> [qs |-> 16, qh |-> 4]
      [] q = "Q8_0" -> [qs |-> 32]
      [] q = "Q2_K" -> [qs |-> 64, scales |-> 16]
      [] q = "Q3_K" -> [qs |-> 64, hmask |-> 32, scales |-> 12]
      [] q = "Q4_K" -> [qs |-> 128, scales |-> 12]
      [] q = "Q5_K" -> [qs |-> 128, qh |-> 32, scales |-> 12]
      [] q = "Q6_K" -> [ql |-> 128, qh |-> 64, scales |-> 16]

Halfs(q) == IF q \in {"Q4_1", "Q5_1", "Q2_K", "Q4_K", "Q5_K"} THEN 2 ELSE 1

(* packed_nbytes for one block. *)
BlockBytes(q) ==
    CASE q \in {"Q4_0", "IQ4_NL"} -> 18 [] q = "Q4_1" -> 20 [] q = "Q5_0" -> 22 [] q = "Q5_1" -> 24
      [] q = "Q8_0" -> 34 [] q = "Q2_K" -> 84 [] q = "Q3_K" -> 110 [] q = "Q4_K" -> 144
      [] q = "Q5_K" -> 176 [] q = "Q6_K" -> 210

Field(array, byte, shift, n) == [i \in 1 .. n |-> <<array, byte, shift + i - 1>>]

-----------------------------------------------------------------------------
(* dequant_row_*: the code of element e of a block *)

(* Low nibbles are the first half of the block, high nibbles the second. *)
NibbleHalves(e) == Field("qs", e % 16, 4 * (e \div 16), 4)

(* The fifth bit: qh as one 32-bit word; the second half shifts by j + 12 and    *)
(* masks with 0x10.                                                              *)
HighBit5(e) ==
    LET at == IF e < 16 THEN e ELSE (e - 16) + 12 + 4
    IN  Field("qh", at \div 8, at % 8, 1)

(* Two halves of 128, in each four passes of 32 over the same bytes. *)
TwoBits(e) == Field("qs", 32 * (e \div 128) + (e % 32), 2 * ((e % 128) \div 32), 2)

HighBit3_ResetPerHalf(e) == Field("hmask", e % 32, (e % 128) \div 32, 1)

(* The mask moves with every pass and is not reset for the second half. *)
HighBit3(e) == Field("hmask", e % 32, 4 * (e \div 128) + ((e % 128) \div 32), 1)

(* Four chunks of 64: 32 low nibbles, then the 32 high ones. *)
NibbleChunks(e) == Field("qs", 32 * (e \div 64) + (e % 32), 4 * ((e % 64) \div 32), 4)

(* u1 and u2 move by two with every chunk. *)
HighBit5K(e) == Field("qh", e % 32, 2 * (e \div 64) + ((e % 64) \div 32), 1)

SixBits(e) ==
    LET half == e \div 128
        r    == (e % 128) \div 32
        l    == e % 32
    IN  Field("ql", 64 * half + 32 * (r % 2) + l, 4 * (r \div 2), 4) \o Field("qh", 32 * half + l, 2 * r, 2)

DequantCode(q, e) ==
    CASE q \in {"Q4_0", "Q4_1", "IQ4_NL"} -> NibbleHalves(e)
      [] q \in {"Q5_0", "Q5_1"} -> NibbleHalves(e) \o HighBit5(e)
      [] q = "Q8_0" -> Field("qs", e, 0, 8)
      [] q = "Q2_K" -> TwoBits(e)
      [] q = "Q3_K" -> TwoBits(e) \o HighBit3(e)
      [] q = "Q4_K" -> NibbleChunks(e)
      [] q = "Q5_K" -> NibbleChunks(e) \o HighBit5K(e)
      [] q = "Q6_K" -> SixBits(e)

-----------------------------------------------------------------------------
(* The scale (and minimum) of the group an element is in *)

(* get_scale_min_k4 *)
ScaleK4(j) == IF j < 4 THEN Field("scales", j, 0, 6)
              ELSE Field("scales", j + 4, 0, 4) \o Field("scales", j - 4, 6, 2)
MinK4(j)   == IF j < 4 THEN Field("scales", j + 4, 0, 6)
              ELSE Field("scales", j + 4, 4, 4) \o Field("scales", j, 6, 2)

(* The shuffle of the twelve bytes as three words, tmp being the third. *)
ScaleQ3(s) == Field("scales", s % 8, 4 * (s \div 8), 4) \o Field("scales", 8 + (s % 4), 2 * (s \div 4), 2)

(* is, which counts the groups of 16 (32 in Q4_K and Q5_K) in the order of y. *)
Group(q, e) == IF q \in {"Q4_K", "Q5_K"} THEN e \div 32 ELSE e \div 16

(* Q6_K walks a column of four quarters at once: sc[is + 2r], eight per half. *)
GroupQ6(e) == 8 * (e \div 128) + ((e % 32) \div 16) + 2 * ((e % 128) \div 32)

ScaleBits(q, e) ==
    CASE q = "Q2_K" -> << Field("scales", Group(q, e), 0, 4), Field("scales", Group(q, e), 4, 4) >>
      [] q = "Q3_K" -> << ScaleQ3(Group(q, e)) >>
      [] q \in {"Q4_K", "Q5_K"} -> << ScaleK4(Group(q, e)), MinK4(Group(q, e)) >>
      [] q = "Q6_K" -> << Field("scales", GroupQ6(e), 0, 8) >>
      [] OTHER -> <<>>

-----------------------------------------------------------------------------
(* gguf_load_tensor_f32 has decoders of its own for two formats and takes       *)
(* dequant_gguf_row for the others.                                             *)

WidenQ40(e) == Field("qs", e \div 2, 4 * (e % 2), 4)
WidenQ80(e) == Field("qs", e, 0, 8)

WidenCode(q, e) ==
    CASE q = "Q4_0" -> WidenQ40(e)
      [] q = "Q8_0" -> WidenQ80(e)
      [] OTHER -> DequantCode(q, e)

-----------------------------------------------------------------------------
(* What a block format is *)

ArrayBits(q, names) ==
    UNION {{<<a, i, b>> : i \in 0 .. BlockArrays(q)[a] - 1, b \in 0 .. 7} : a \in names}
CodeArrays(q) == DOMAIN BlockArrays(q) \ {"scales"}

Partitions(parts, n, bits) ==
    /\ UNION {ToSet(p) : p \in parts} = bits
    /\ n = Cardinality(bits)

(* Every code bit belongs to one element, every scale bit to one group, and the  *)
(* struct is as long as packed_nbytes says.                                      *)
ReadsBlock(q, code(_)) ==
    LET elems  == 0 .. BlockElems(q) - 1
        scales == UNION {ToSet(ScaleBits(q, e)) : e \in elems}
    IN  /\ Partitions({code(e) : e \in elems}, BlockElems(q) * Len(code(0)), ArrayBits(q, CodeArrays(q)))
        /\ q \in KFormats =>
               Partitions(scales, Cardinality(scales) * Len(ScaleBits(q, 0)[1]), ArrayBits(q, {"scales"}))
        /\ BlockBytes(q) = 2 * Halfs(q) + (Cardinality(ArrayBits(q, DOMAIN BlockArrays(q))) \div 8)

===============================================================================

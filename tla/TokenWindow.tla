---------------------------- MODULE TokenWindow ----------------------------
(* What a KV cache promises: the tokens it keeps of a stream of tokens         *)
(* 0, 1, 2, ...  It may forget the oldest ones, but not those at the head.      *)
EXTENDS Naturals

VARIABLES
    kept,    \* the tokens that can still be attended to
    count,   \* tokens of the stream so far
    head     \* tokens at the head of the stream that are never forgotten

Init == kept = {} /\ count = 0 /\ head = 0

(* A new stream, perhaps with a head of another length. *)
Restart == kept' = {} /\ count' = 0 /\ head' \in Nat

(* The oldest tokens behind the head go. *)
Forget ==
    /\ kept' \subseteq kept
    /\ \A t \in kept \ kept' :
          t >= head /\ \A u \in kept' : u < head \/ u > t
    /\ UNCHANGED <<count, head>>

(* The next tokens of the stream arrive. *)
Learn ==
    /\ count' \in Nat /\ count' > count
    /\ kept' = kept \cup (count .. (count' - 1))
    /\ UNCHANGED head

Next == Restart \/ Forget \/ Learn

Spec == Init /\ [][Next]_<<kept, count, head>>
=============================================================================

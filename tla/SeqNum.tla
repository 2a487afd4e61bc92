------------------------------- MODULE SeqNum -------------------------------
(***************************************************************************)
(* TCP sequence numbers as the replay engine computes with them: unsigned  *)
(* integers that wrap at Modulus (2^32 in the program), compared by the    *)
(* sign of their difference (utils.h, seq_before and its sisters).         *)
(*                                                                         *)
(* A word is two half-words of Base values each (2^16 in the program), so  *)
(* that the byte-order conversion of the wrong width that                  *)
(* build_an_ack_without_payload applies can be stated.                     *)
(***************************************************************************)
EXTENDS Naturals

CONSTANT Base           \* the values of a 16-bit half-word

ASSUME BaseAssumption == Base \in Nat /\ Base % 2 = 0 /\ Base >= 2

Modulus == Base * Base
Half == (Base \div 2) * Base
Word == 0 .. Modulus - 1

\* uint32_t addition of an offset below Modulus
Add(a, k) == IF a + k < Modulus THEN a + k ELSE a + k - Modulus

\* (uint32_t)(left - right)
Diff(left, right) == IF left >= right THEN left - right
                                      ELSE left - right + Modulus

\* (int)((uint32_t)(left - right)) < 0
Before(left, right) == Diff(left, right) >= Half

\* (int)((uint32_t)(left - right)) <= 0
BeforeEq(left, right) == left = right \/ Before(left, right)

(***************************************************************************)
(* What "tcphdr->seq = htons(seq)" puts on the wire: the argument of htons *)
(* is cut to its low half-word, and storing the swapped half-word in the   *)
(* 32-bit field of a little-endian host leaves it in the field's first two *)
(* bytes, which the network reads as the high half.                        *)
(***************************************************************************)
HtonsSeq(seq) == (seq % Base) * Base
=============================================================================

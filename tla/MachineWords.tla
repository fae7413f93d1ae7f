----------------------------- MODULE MachineWords -----------------------------
(* Octets and words of a size that TLC can enumerate.                      *)
EXTENDS Naturals

CONSTANTS ByteBits, WordBytes   \* 8 and 4 in the code

ASSUME WordAssumption == ByteBits \in Nat \ {0} /\ WordBytes \in {2, 4}

ByteMod == 2 ^ ByteBits
WordBits == ByteBits * WordBytes
WordMod == 2 ^ WordBits

\* What the provers do not derive of powers.
ASSUME PowerAssumption ==
  ByteMod \in Nat \ {0, 1} /\ WordMod \in Nat /\ WordMod > ByteMod

Octet == 0 .. (ByteMod - 1)
Word == 0 .. (WordMod - 1)

\* uint32_t arithmetic.
Wrap(x) == x % WordMod
=============================================================================

---------------------------- MODULE SaveChecksum ----------------------------
(***************************************************************************)
(* CalculateChecksum of source/src/save.c on a sequence of u16 words: each *)
(* word is xor-ed with the bytes left, and the sum is cut to 16 bits.      *)
(***************************************************************************)
EXTENDS Integers, Sequences, Bitwise, Folds

CalculateChecksum(words) ==
    MapThenFoldSet(+, 0, LAMBDA i : words[i] ^^ (2 * (Len(words) - i + 1)),
                   LAMBDA S : CHOOSE i \in S : TRUE, DOMAIN words) % 65536
=============================================================================

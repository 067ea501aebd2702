----------------------------- MODULE MCSaveStore -----------------------------
(***************************************************************************)
(* SaveStore on small instances.  A data block carries one u16, so a copy  *)
(* has the checksum the code would compute for a file of 2 * NBlocks bytes.*)
(***************************************************************************)
EXTENDS SaveStore, SaveChecksum

CONSTANTS p1, p2, Zero

\* 'MCZ3' as two little-endian u16: "3Z" and "CM".
StatusSum == (CalculateChecksum(<<23091, 19779>>)) % 65536

\* The u16 that block b of payload p holds.  The payload Zero is chosen so
\* that status and data sum up to 0 modulo 2^16.
WordOf(p, b) == CASE p = p1 -> 100 * b
                  [] p = p2 -> 1000 + b
                  [] p = Zero -> IF b = 1 THEN 0 ELSE (65536 - StatusSum - 4) ^^ 2
                  [] OTHER -> 65535

MCChecksum ==
    [c \in [1 .. NBlocks -> Payloads \cup {Garbage}] |->
        (StatusSum + CalculateChecksum([b \in 1 .. NBlocks |-> WordOf(c[b], b)])) % 65536]

\* One block bad in each copy of file 0 (the status block of copy 1, a data
\* block of copy 2), and the first data block of the header's copy 1.
MCWorn == {<<0, 1, StatusPart>>, <<0, 2, NBlocks>>, <<Header, 1, 1>>}
=============================================================================

---------------------------- MODULE MCRingBuffer ----------------------------
(* A ring of four bytes over a two-letter alphabet: texts that overlap      *)
(* themselves, chunks that wrap at every position, requests that are too    *)
(* long by one.                                                             *)
EXTENDS RingBuffer

MCByte == {0, 1}
MCStrings(S) == UNION {[1 .. n -> MCByte] : n \in S}
MCChunks == MCStrings(0 .. 4)
MCTexts == MCStrings(0 .. 4)
=============================================================================

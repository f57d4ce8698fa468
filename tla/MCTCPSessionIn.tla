--------------------------- MODULE MCTCPSessionIn ---------------------------
(* Values for the constants of TCPSessionIn. *)
EXTENDS TCPSessionIn, TLC

CONSTANTS loop, w1, w2

\* Two messages: a header of 2 and a body of 3 bytes, a header of 3 and a body
\* of 2.
MC_at      == <<0, 5, 10>>
MC_hdr_len == <<2, 3>>

\* The longer header first.
MC_hdrLong == <<3, 2>>

\* A BasicFramingHdr has always the same length.
MC_hdrBasic == <<2, 2>>

\* One message, a header of 2 bytes without a body.
MC_atBare  == <<0, 2>>
MC_hdrBare == <<2>>

MC_Workers == Permutations(Workers)

\* A loop that goes on after events takes messages that are none, for ever.
MC_FewTaken == Len(taken) <= 1
=============================================================================

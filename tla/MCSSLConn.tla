----------------------------- MODULE MCSSLConn ------------------------------
EXTENDS SSLConn, TLC

CONSTANTS c1, c2, c3, d1, d2, d3, s1, s2

MC_Conns == {c1, c2, c3}
MC_Ids == {d1, d2, d3}
MC_TwoIds == {d1, d2}
MC_Fds == {3, 4}
MC_SSLs == {s1, s2}
MC_None == {}
MC_Self == {"self"}
MC_Again == {"again"}
MC_CopiedFirst == {"copied_first"}
MC_LateFlag == {"late_flag"}
MC_CloseCopied == {"close_copied"}
MC_Symmetry == Permutations(MC_Conns) \cup Permutations(MC_Ids) \cup Permutations(MC_SSLs)
MC_SymmetryOfTwo == Permutations(MC_Conns) \cup Permutations(MC_TwoIds) \cup Permutations(MC_SSLs)

\* One socket at a time is nonblocking, or becomes so by the last step.
MC_OneNonblocking == Cardinality({f \in Fds : sock[f].nb}) <= 1

\* The event of the last call guards nothing.
MC_NoEvent == <<heap, conn, sock, ssl, x509>>
=============================================================================

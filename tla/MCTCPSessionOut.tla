-------------------------- MODULE MCTCPSessionOut --------------------------
(* Values for the constants of TCPSessionOut. *)
EXTENDS TCPSessionOut, TLC

CONSTANTS m1, m2, m3, f1, f2, f3, t1, t2, t3

MC_hdr_len  == [m \in Msgs |-> IF m = m1 THEN 1 ELSE 2]
MC_body_len == [m \in Msgs |-> IF m = m3 THEN 3 ELSE 2]
\* m1 and m3 are in files when there are three messages.
MC_storage  == [m \in Msgs |-> IF m = m2 THEN "MEM" ELSE "DISC"]
MC_file     == [m \in Msgs |-> IF m = m1 THEN f1 ELSE IF m = m2 THEN f2 ELSE f3]
MC_Requests == Msgs \cap {m1, m2}
MC_shared   == [m \in Msgs |-> f1]
MC_sameLen  == [m \in Msgs |-> 2]
\* Under SSL the offset goes down with every -1; one that has not been made up
\* for is enough.
MC_FewWants == \A i \in DOMAIN wpending :
                  wpending[i].buf_offset >= -1 /\ wpending[i].file_offset >= -1
\* All that the guards and OutThreads' invariants look at: of the histories,
\* only which messages were queued and which are on the wire.
MC_NoHistory == <<queueVars, whdrs, connected, error, outgoing_mtx, pc, ub,
                  Range(queued), {m \in Msgs : OnWire(m)}>>
MC_Consumers == Permutations(Consumers)
=============================================================================

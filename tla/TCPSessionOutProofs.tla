------------------------ MODULE TCPSessionOutProofs ------------------------
(***************************************************************************)
(* Proofs about TCPSessionOut, for any messages, files, threads, buffer    *)
(* sizes and transport.                                                    *)
(***************************************************************************)
EXTENDS TCPSessionOut, SequenceTheorems, TLAPS

-----------------------------------------------------------------------------
(* Concatenations *)

\* No parts make the empty sequence.
LEMMA ConcatenatedEmpty == Concatenated(<<>>, <<>>)
<1> DEFINE at == [i \in 1 .. 1 |-> 0]
<1>1. at \in [1 .. 1 -> 0 .. 0] /\ at[1] = 0
  OBVIOUS
<1>2. Len(<<>>) = 0 /\ 0 + 1 = 1 /\ 1 .. 0 = {}
  OBVIOUS
<1>3. \A i, j \in 1 .. 1 : i <= j => at[i] <= at[j]
  OBVIOUS
<1> HIDE DEF at
<1>4. QED
  BY <1>1, <1>2, <1>3 DEF Concatenated

\* The function that Concatenated says exists, its facts one by one.
Positions(at, parts, s) ==
    /\ at \in [1 .. Len(parts) + 1 -> 0 .. Len(s)]
    /\ at[1] = 0
    /\ at[Len(parts) + 1] = Len(s)
    /\ \A i, j \in 1 .. Len(parts) + 1 : i <= j => at[i] <= at[j]
    /\ \A i \in 1 .. Len(parts) : at[i + 1] = at[i] + Len(parts[i])
    /\ \A i \in 1 .. Len(parts) : \A k \in 1 .. Len(parts[i]) :
          s[at[i] + k] = parts[i][k]

\* Concatenated in terms of Positions.
LEMMA PositionsExist ==
    ASSUME NEW parts, NEW s
    PROVE  Concatenated(parts, s) <=> \E at : Positions(at, parts, s)
BY DEF Concatenated, Positions

\* A part and s together: what was there stays where it is.
LEMMA ConcatenatedAppend ==
    ASSUME NEW S, NEW parts \in Seq(Seq(S)), NEW s \in Seq(S), NEW p \in Seq(S),
           Concatenated(parts, s)
    PROVE  Concatenated(Append(parts, p), s \o p)
<1> DEFINE L   == Len(parts)
           n   == Len(s)
           k0  == Len(p)
           all == Append(parts, p)
           sp  == s \o p
<1>1. L \in Nat /\ n \in Nat /\ k0 \in Nat
  OBVIOUS
<1>2. Len(all) = L + 1 /\ all[L + 1] = p
  OBVIOUS
<1>3. \A i \in 1 .. L : all[i] = parts[i]
  OBVIOUS
<1>4. /\ Len(sp) = n + k0
      /\ \A i \in 1 .. n : sp[i] = s[i]
      /\ \A k \in 1 .. k0 : sp[n + k] = p[k]
  <2>1. Len(sp) = n + k0
    BY ConcatProperties
  <2>2. \A i \in 1 .. n + k0 : sp[i] = IF i <= n THEN s[i] ELSE p[i - n]
    BY ConcatProperties
  <2>3. \A i \in 1 .. n : sp[i] = s[i]
    BY <1>1, <2>2
  <2>4. \A k \in 1 .. k0 : n + k \in 1 .. n + k0 /\ ~(n + k <= n) /\ (n + k) - n = k
    BY <1>1
  <2>5. \A k \in 1 .. k0 : sp[n + k] = p[k]
    BY <2>2, <2>4
  <2>6. QED
    BY <2>1, <2>3, <2>5
<1>5. PICK at : Positions(at, parts, s)
  BY PositionsExist
<1> DEFINE new == [i \in 1 .. L + 2 |-> IF i = L + 2 THEN n + k0 ELSE at[i]]
<1>6. \A i \in 1 .. L + 1 : at[i] \in 0 .. n /\ new[i] = at[i]
  <2>1. at \in [1 .. L + 1 -> 0 .. n]
    BY <1>5 DEF Positions
  <2> HIDE DEF L, n, k0
  <2>2. QED
    BY <1>1, <2>1
<1>7. new[L + 2] = n + k0
  BY <1>1
<1>8. new \in [1 .. L + 2 -> 0 .. n + k0]
  <2> HIDE DEF L, n, k0
  <2>1. \A i \in 1 .. L + 2 : i # L + 2 => at[i] \in 0 .. n
    <3>1. \A i \in 1 .. L + 2 : i # L + 2 => i \in 1 .. L + 1
      BY <1>1
    <3>2. QED
      BY <1>6, <3>1
  <2>2. \A i \in 1 .. L + 2 : (IF i = L + 2 THEN n + k0 ELSE at[i]) \in 0 .. n + k0
    <3>1. n + k0 \in 0 .. n + k0 /\ \A x \in 0 .. n : x \in 0 .. n + k0
      BY <1>1
    <3>2. QED
      BY <2>1, <3>1, Zenon
  <2>3. QED
    BY <2>2
<1> HIDE DEF L, n, k0, all, sp, new
<1>9. new[1] = 0 /\ new[L + 1] = n
  BY <1>1, <1>5, <1>6 DEF Positions, L, n
<1>10. ASSUME NEW i \in 1 .. L + 2, NEW j \in 1 .. L + 2, i <= j
       PROVE  new[i] <= new[j]
  <2>1. CASE j = L + 2
    BY <1>1, <1>7, <1>8, <2>1
  <2>2. CASE j # L + 2
    <3>1. i \in 1 .. L + 1 /\ j \in 1 .. L + 1
      BY <1>1, <1>10, <2>2
    <3>2. at[i] <= at[j]
      BY <1>5, <1>10, <3>1 DEF Positions, L
    <3>3. QED
      BY <1>6, <3>1, <3>2
  <2>3. QED
    BY <2>1, <2>2
<1>11. ASSUME NEW i \in 1 .. L + 1
       PROVE  /\ new[i + 1] = new[i] + Len(all[i])
              /\ \A k \in 1 .. Len(all[i]) : sp[new[i] + k] = all[i][k]
  <2>1. CASE i = L + 1
    <3>1. i + 1 = L + 2 /\ all[i] = p /\ Len(all[i]) = k0
      BY <1>1, <1>2, <2>1 DEF k0
    <3>2. QED
      BY <1>4, <1>7, <1>9, <2>1, <3>1
  <2>2. CASE i # L + 1
    <3>1. i \in 1 .. L /\ i \in 1 .. L + 1 /\ i + 1 \in 1 .. L + 1
      BY <1>1, <2>2
    <3>2. all[i] = parts[i] /\ Len(parts[i]) \in Nat
      BY <1>3, <3>1 DEF L
    <3>3. at[i + 1] = at[i] + Len(parts[i])
      BY <1>5, <3>1 DEF Positions, L
    <3>4. \A k \in 1 .. Len(parts[i]) : s[at[i] + k] = parts[i][k]
      BY <1>5, <3>1 DEF Positions, L
    <3>5. at[i] \in 0 .. n /\ at[i + 1] \in 0 .. n
      BY <1>6, <3>1
    <3>6. \A k \in 1 .. Len(parts[i]) : at[i] + k \in 1 .. n
      <4>1. \A a, l, m \in Nat : a + l \in 0 .. m => \A k \in 1 .. l : a + k \in 1 .. m
        OBVIOUS
      <4>2. \A a \in 0 .. n : a \in Nat
        BY <1>1
      <4>3. at[i] \in Nat /\ at[i] + Len(parts[i]) \in 0 .. n /\ n \in Nat
        BY <1>1, <3>3, <3>5, <4>2, Zenon
      <4>4. QED
        BY <3>2, <4>1, <4>3, Zenon
    <3>7. QED
      BY <1>4, <1>6, <3>1, <3>2, <3>3, <3>4, <3>6
  <2>3. QED
    BY <2>1, <2>2
<1>12. Positions(new, all, sp)
  <2>1. Len(all) + 1 = L + 2
    BY <1>1, <1>2
  <2>2. QED
    BY <1>2, <1>4, <1>7, <1>8, <1>9, <1>10, <1>11, <2>1 DEF Positions
<1>13. QED
  BY <1>12, PositionsExist DEF all, sp

-----------------------------------------------------------------------------
(* Types *)

\* A function on 1 .. n is a sequence, for a negative n too.
LEMMA IntervalSeq ==
    ASSUME NEW S, NEW n \in Int, NEW f, f = [k \in 1 .. n |-> f[k]],
           \A k \in 1 .. n : f[k] \in S
    PROVE  f \in Seq(S)
<1>1. CASE n \in Nat
  BY <1>1
<1>2. CASE n \notin Nat
  <2>1. 1 .. n = {}
    BY <1>2
  <2>2. f = <<>>
    BY <2>1
  <2>3. QED
    BY <2>2
<1>3. QED
  BY <1>1, <1>2

\* Lengths and buffered parts of messages.
LEMMA MsgTypes ==
    ASSUME NEW m \in Msgs
    PROVE  /\ hdr_len[m] \in Nat \ {0}
           /\ body_len[m] \in Nat
           /\ storage[m] \in {"MEM", "DISC"}
           /\ file[m] \in Files
           /\ MsgLen(m) \in Nat \ {0}
           /\ BufLen(m) \in Nat \ {0}
BY LengthsAssumption, StorageAssumption DEF MsgLen, BufLen

Results == [n : Int, sent : Int, err : BOOLEAN, closed : BOOLEAN]

\* What SSLConn::Write may return.
LEMMA ResultTypes ==
    ASSUME NEW len \in Int, NEW r \in SSLConn_Write(len)
    PROVE  r.n \in Int /\ r.sent \in Int /\ r.err \in BOOLEAN /\ r.closed \in BOOLEAN
<1>1. ASSUME NEW n \in Int, NEW s \in Int, NEW e \in BOOLEAN, NEW c \in BOOLEAN
      PROVE  Result(n, s, e, c) \in Results
  BY DEF Result, Results
<1>2. -1 \in Int /\ 0 \in Int /\ TRUE \in BOOLEAN /\ FALSE \in BOOLEAN
  OBVIOUS
<1>3. CASE r \in SSL_Write(len)
  <2>1. \/ \E s \in 1 .. len : r = Result(s, s, FALSE, FALSE)
        \/ r = Result(-1, 0, FALSE, FALSE)
        \/ r = Result(0, 0, FALSE, FALSE)
        \/ r = Result(0, 0, TRUE, FALSE)
        \/ r = Result(0, 0, FALSE, TRUE)
        \/ r = Result(0, 0, TRUE, TRUE)
    BY <1>3 DEF SSL_Write
  <2>2. \A s \in 1 .. len : s \in Int
    OBVIOUS
  <2>3. r \in Results
    BY <2>1, <2>2, <1>1, <1>2
  <2>4. QED
    BY <2>3 DEF Results
<1>4. CASE r \in TCPConn_Write(len)
  <2>1. CASE r \in {Result(0, s, TRUE, FALSE) : s \in 0 .. (len - 1)}
    <3>1. PICK s \in 0 .. (len - 1) : r = Result(0, s, TRUE, FALSE)
      BY <2>1
    <3>2. s \in Int
      OBVIOUS
    <3>3. QED
      BY <3>1, <3>2, <1>1, <1>2 DEF Results
  <2>2. CASE r \in {Result(s, s, FALSE, FALSE) : s \in 0 .. len}
    <3>1. PICK s \in 0 .. len : r = Result(s, s, FALSE, FALSE)
      BY <2>2
    <3>2. s \in Int
      OBVIOUS
    <3>3. QED
      BY <3>1, <3>2, <1>1 DEF Results
  <2>3. CASE r = Result(len, len, FALSE, FALSE)
    BY <2>3, <1>1 DEF Results
  <2>4. QED
    BY <1>4, <2>1, <2>2, <2>3 DEF TCPConn_Write
<1>5. QED
  BY <1>3, <1>4 DEF SSLConn_Write

\* Bytes taken from wbuf_.
LEMMA WbufBytesTypes ==
    ASSUME TypeOK, NEW offset \in Int, NEW n \in Int
    PROVE  WbufBytes(offset, n) \in Seq(Bytes)
<1>1. \A k \in 1 .. n : WbufBytes(offset, n)[k] \in Bytes
  BY DEF WbufBytes, TypeOK, Bytes
<1>2. WbufBytes(offset, n) = [k \in 1 .. n |-> WbufBytes(offset, n)[k]]
  BY DEF WbufBytes
<1>3. QED
  BY <1>1, <1>2, IntervalSeq

\* Bytes taken from a file.
LEMMA FileBytesTypes ==
    ASSUME NEW m \in Msgs, NEW p \in Nat, NEW n \in Int
    PROVE  FileBytes(m, p, n) \in Seq(Bytes)
<1>1. \A k \in 1 .. n : FileBytes(m, p, n)[k] \in Bytes
  BY MsgTypes DEF FileBytes, Bytes
<1>2. FileBytes(m, p, n) = [k \in 1 .. n |-> FileBytes(m, p, n)[k]]
  BY DEF FileBytes
<1>3. QED
  BY <1>1, <1>2, IntervalSeq

\* Bytes put into wbuf_.
LEMMA BufPartTypes ==
    ASSUME NEW m \in Msgs
    PROVE  BufPart(m) \in Seq(Bytes) /\ Len(BufPart(m)) = BufLen(m)
BY MsgTypes DEF BufPart, Bytes

\* The message in front of a queue that is not empty.
LEMMA FrontTypes ==
    ASSUME TypeOK, wpending # <<>>
    PROVE  /\ NextOut = wpending[1]
           /\ NextOut \in MsgInfos
           /\ NextOut.msg \in Msgs
           /\ NextOut.buf_offset \in Int
           /\ NextOut.file_offset \in Int
<1>0. wpending \in Seq(MsgInfos) /\ wpending # <<>>
  BY DEF TypeOK
<1>1. NextOut = wpending[1]
  BY <1>0 DEF NextOut
<1>2. wpending[1] \in MsgInfos
  BY <1>0
<1>3. QED
  BY <1>1, <1>2 DEF MsgInfos

\* ResetWbuf.
LEMMA ResetTypes ==
    ASSUME TypeOK, NEW own \in BOOLEAN, NEW d \in [Files -> [open : BOOLEAN, pos : Nat]],
           ResetWbuf(own, d)
    PROVE  /\ wbuf' \in Seq(Bytes)
           /\ wbuf_size' \in Nat
           /\ wpending' \in Seq(MsgInfos)
           /\ wfiles' \in Seq(Files)
           /\ desc' \in [Files -> [open : BOOLEAN, pos : Nat]]
           /\ whdrs' \in Seq(Msgs)
           /\ error' \in BOOLEAN
           /\ queued' \in Seq(Msgs)
           /\ dropped' \subseteq Msgs
           /\ stray' \in BOOLEAN
           /\ answered' \subseteq Msgs
           /\ ub' \in BOOLEAN
<1>1. {p.msg : p \in Range(wpending)} \subseteq Msgs
  <2>1. wpending \in Seq(MsgInfos)
    BY DEF TypeOK
  <2>2. \A i \in DOMAIN wpending : wpending[i] \in MsgInfos
    BY <2>1
  <2>3. \A i \in DOMAIN wpending : wpending[i].msg \in Msgs
    BY <2>2 DEF MsgInfos
  <2>4. QED
    BY <2>3 DEF Range
<1>2. QED
  BY <1>1 DEF TypeOK, ResetWbuf, ClosedDesc

\* The meta-data of a message.
LEMMA MsgInfoTypes ==
    ASSUME NEW m \in Msgs, NEW b \in Int, NEW f \in Int
    PROVE  MsgInfo(m, b, f) \in MsgInfos /\ MsgInfo(m, b, f).msg = m
BY DEF MsgInfo, MsgInfos

\* An offset that was moved.
LEMMA AdvanceTypes ==
    ASSUME TypeOK, wpending # <<>>, NEW b \in Int, NEW f \in Int, Advance(b, f)
    PROVE  /\ wpending' \in Seq(MsgInfos)
           /\ Len(wpending') = Len(wpending)
           /\ \A i \in 1 .. Len(wpending) : wpending'[i].msg = wpending[i].msg
<1> DEFINE p == wpending[1]
           q == MsgInfo(p.msg, p.buf_offset + b, p.file_offset + f)
<1>0. wpending \in Seq(MsgInfos) /\ wpending # <<>>
  BY DEF TypeOK
<1>1. p \in MsgInfos /\ 1 \in DOMAIN wpending
  BY <1>0
<1>2. q \in MsgInfos /\ q.msg = p.msg
  BY <1>1, MsgInfoTypes DEF MsgInfos
<1>3. wpending' = [wpending EXCEPT ![1] = q]
  BY <1>0, <1>1 DEF Advance
<1> HIDE DEF p, q
<1>4. wpending' \in Seq(MsgInfos) /\ Len(wpending') = Len(wpending)
  BY <1>0, <1>2, <1>3
<1>5. \A i \in 1 .. Len(wpending) : wpending'[i] = IF i = 1 THEN q ELSE wpending[i]
  BY <1>0, <1>3
<1>6. q.msg = wpending[1].msg
  BY <1>2 DEF p
<1>7. QED
  BY <1>4, <1>5, <1>6

PcTypes == [Threads -> {"idle", "addwait", "add", "write", "file", "chunk",
                        "check", "popcall", "pop", "undefined"}]

\* A thread that moved.
LEMMA GotoTypes ==
    ASSUME TypeOK, NEW t \in Threads,
           NEW where \in {"idle", "addwait", "add", "write", "file", "chunk",
                          "check", "popcall", "pop", "undefined"},
           Goto(t, where)
    PROVE  pc' \in PcTypes /\ pc'[t] = where
BY DEF TypeOK, Goto, PcTypes

\* What the peer was sent.
LEMMA SentTypes ==
    ASSUME TypeOK, NEW len \in Int, NEW r \in SSLConn_Write(len),
           NEW bytes \in Seq(Bytes), Sent(r, bytes)
    PROVE  wire' \in Seq(Bytes) /\ connected' \in BOOLEAN
<1>1. wire \in Seq(Bytes) /\ connected \in BOOLEAN
  BY DEF TypeOK
<1>2. QED
  BY <1>1 DEF Sent

\* What a Write step leaves in order besides pc, the lock, wire and connected.
QueueTypes ==
    /\ wbuf \in Seq(Bytes)
    /\ wbuf_size \in Nat
    /\ wpending \in Seq(MsgInfos)
    /\ wfiles \in Seq(Files)
    /\ desc \in [Files -> [open : BOOLEAN, pos : Nat]]
    /\ whdrs \in Seq(Msgs)
    /\ error \in BOOLEAN
    /\ queued \in Seq(Msgs)
    /\ dropped \subseteq Msgs
    /\ stray \in BOOLEAN
    /\ answered \subseteq Msgs
    /\ ub \in BOOLEAN

\* A queue whose first offset was moved.
LEMMA AdvanceQueueTypes ==
    ASSUME TypeOK, wpending # <<>>, NEW b \in Int, NEW f \in Int, Advance(b, f),
           desc' \in [Files -> [open : BOOLEAN, pos : Nat]]
    PROVE  QueueTypes'
<1>1. wpending' \in Seq(MsgInfos)
  BY AdvanceTypes
<1>2. QED
  BY <1>1 DEF Advance, TypeOK, QueueTypes

-----------------------------------------------------------------------------
(* Type correctness *)

\* Types when the session is made.
LEMMA TypeInit == Init => TypeOK
<1> SUFFICES ASSUME Init PROVE TypeOK
  OBVIOUS
<1>1. kDefaultBufSize \in Nat
  BY LengthsAssumption
<1>2. desc \in [Files -> [open : BOOLEAN, pos : Nat]]
  BY DEF Init, ClosedDesc
<1>3. pc \in PcTypes
  BY DEF Init, PcTypes
<1>4. /\ connected \in BOOLEAN /\ error \in BOOLEAN
      /\ stray \in BOOLEAN /\ ub \in BOOLEAN
  BY Zenon DEF Init
<1>5. /\ wbuf \in Seq(Bytes) /\ wpending \in Seq(MsgInfos) /\ wfiles \in Seq(Files)
      /\ whdrs \in Seq(Msgs) /\ wire \in Seq(Bytes) /\ queued \in Seq(Msgs)
  BY DEF Init
<1>6. wbuf_size \in Nat /\ outgoing_mtx \in Threads \cup {None} /\ dropped \subseteq Msgs
      /\ answered \subseteq Msgs
  BY <1>1 DEF Init
<1>7. QED
  BY <1>2, <1>3, <1>4, <1>5, <1>6, Zenon DEF TypeOK, PcTypes

\* AddMsgBuf and AddMsgFile.
LEMMA TypeAdd ==
    ASSUME TypeOK, NEW t \in Producers, Produce(t)
    PROVE  TypeOK'
<1>0. t \in Threads
  BY DEF Threads
<1>1. CASE AddReject(t)
  BY <1>1 DEF AddReject, TypeOK, queueVars, ioVars
<1>2. CASE AddCall(t)
  BY <1>0, <1>2, GotoTypes DEF AddCall, TypeOK, PcTypes, queueVars, ioVars
<1>3. CASE AddLock(t)
  BY <1>0, <1>3, GotoTypes DEF AddLock, TypeOK, PcTypes, queueVars, ioVars
<1>4. CASE AddNoMemory(t)
  BY <1>0, <1>4, GotoTypes DEF AddNoMemory, AddReturn, TypeOK, PcTypes, queueVars, ioVars
<1>5. ASSUME NEW m \in Msgs, AddMsg(t, m), wfiles' \in Seq(Files)
      PROVE  TypeOK'
  <2>1. MsgInfo(m, 0, 0) \in MsgInfos
    BY MsgInfoTypes
  <2>2. wpending' \in Seq(MsgInfos)
    BY <1>5, <2>1 DEF AddMsg, TypeOK
  <2>3. wbuf' \in Seq(Bytes)
    BY <1>5, BufPartTypes DEF AddMsg, TypeOK
  <2>4. wbuf_size' \in Nat
    <3>1. Len(wbuf) \in Nat /\ wbuf_size \in Nat
      BY DEF TypeOK
    <3>2. Len(wbuf) + BufLen(m) + kDefaultBufSize \in Nat
      BY <3>1, MsgTypes, LengthsAssumption
    <3>3. QED
      BY <1>5, <3>1, <3>2 DEF AddMsg
  <2>5. pc' \in PcTypes
    BY <1>0, <1>5, GotoTypes DEF AddMsg, AddReturn
  <2>6. whdrs' \in Seq(Msgs) /\ queued' \in Seq(Msgs)
    BY <1>5 DEF AddMsg, TypeOK
  <2>7. QED
    BY <1>5, <2>2, <2>3, <2>4, <2>5, <2>6
    DEF AddMsg, AddReturn, TypeOK, PcTypes, ioVars
<1>6. ASSUME NEW m \in Msgs, AddMsgBuf(t, m)
      PROVE  TypeOK'
  BY <1>5, <1>6 DEF AddMsgBuf, TypeOK
<1>7. ASSUME NEW m \in Msgs, AddMsgFile(t, m)
      PROVE  TypeOK'
  <2>1. AddMsg(t, m) /\ wfiles' = Append(wfiles, file[m])
    BY <1>7 DEF AddMsgFile
  <2>2. wfiles \in Seq(Files) /\ file[m] \in Files
    BY MsgTypes DEF TypeOK
  <2>3. wfiles' \in Seq(Files)
    BY <2>1, <2>2
  <2>4. QED
    BY <1>5, <2>1, <2>3
<1>8. QED
  BY <1>1, <1>2, <1>3, <1>4, <1>6, <1>7 DEF Produce

\* A step of Write that gives up, or that moves the front message's offsets.
LEMMA ResetQueueTypes ==
    ASSUME TypeOK, NEW own \in BOOLEAN, NEW d \in [Files -> [open : BOOLEAN, pos : Nat]],
           ResetWbuf(own, d)
    PROVE  QueueTypes'
BY ResetTypes DEF QueueTypes

\* A chunk of a file.
LEMMA ChunkTypes ==
    ASSUME TypeOK, wpending # <<>>, wfiles # <<>>
    PROVE  /\ Head(wfiles) \in Files
           /\ desc[Head(wfiles)].pos \in Nat
           /\ ChunkRead \in Int
<1>1. wfiles \in Seq(Files) /\ desc \in [Files -> [open : BOOLEAN, pos : Nat]]
  BY DEF TypeOK
<1>2. Head(wfiles) \in Files
  BY <1>1
<1>3. desc[Head(wfiles)] \in [open : BOOLEAN, pos : Nat]
  BY <1>1, <1>2
<1>4. desc[Head(wfiles)].pos \in Nat
  BY <1>3
<1>5. body_len[NextOut.msg] \in Int /\ NextOut.file_offset \in Int
  BY FrontTypes, MsgTypes
<1>6. \A a, b \in Int : Smaller(a, b) \in Int
  BY DEF Smaller
<1>7. kFileChunkSize \in Int
  BY LengthsAssumption
<1>8. /\ body_len[NextOut.msg] - NextOut.file_offset \in Int
      /\ body_len[NextOut.msg] - desc[Head(wfiles)].pos \in Int
  BY <1>4, <1>5
<1>9. ChunkRead \in Int
  BY <1>6, <1>7, <1>8 DEF ChunkRead
<1>10. QED
  BY <1>2, <1>4, <1>9

\* Write, a message in memory.
LEMMA TypeWriteMem ==
    ASSUME TypeOK, NEW t \in Threads, WriteMem(t)
    PROVE  TypeOK'
<1>1. wpending # <<>>
  BY DEF WriteMem
<1>2. NextOut.buf_offset \in Int /\ MsgLen(NextOut.msg) - NextOut.buf_offset \in Int
  BY <1>1, FrontTypes, MsgTypes
<1>3. PICK r \in SSLConn_Write(MsgLen(NextOut.msg) - NextOut.buf_offset) :
        /\ Sent(r, WbufBytes(NextOut.buf_offset, r.sent))
        /\ IF error \/ r.err THEN ResetWbuf(r.err, desc)
           ELSE Advance(r.n, 0) /\ UNCHANGED desc
  BY DEF WriteMem
<1>4. r.n \in Int /\ r.sent \in Int /\ r.err \in BOOLEAN
  BY <1>2, ResultTypes
<1>5. wire' \in Seq(Bytes) /\ connected' \in BOOLEAN
  BY <1>2, <1>3, <1>4, WbufBytesTypes, SentTypes
<1>6. desc \in [Files -> [open : BOOLEAN, pos : Nat]]
  BY DEF TypeOK
<1>7. QueueTypes'
  <2>1. CASE error \/ r.err
    BY <1>3, <1>4, <1>6, <2>1, ResetQueueTypes
  <2>2. CASE ~(error \/ r.err)
    BY <1>1, <1>3, <1>4, <1>6, <2>2, AdvanceQueueTypes
  <2>3. QED
    BY <2>1, <2>2
<1>8. pc' \in PcTypes
  BY GotoTypes DEF WriteMem
<1>9. outgoing_mtx' \in Threads \cup {None}
  BY DEF WriteMem, TypeOK
<1>10. QED
  BY <1>5, <1>7, <1>8, <1>9 DEF TypeOK, QueueTypes, PcTypes

\* Write, the header of a message in a file.
LEMMA TypeWriteHdr ==
    ASSUME TypeOK, NEW t \in Threads, WriteHdr(t)
    PROVE  TypeOK'
<1>1. wpending # <<>>
  BY DEF WriteHdr
<1>2. NextOut.buf_offset \in Int /\ hdr_len[NextOut.msg] - NextOut.buf_offset \in Int
  BY <1>1, FrontTypes, MsgTypes
<1>3. PICK r \in SSLConn_Write(hdr_len[NextOut.msg] - NextOut.buf_offset) :
        /\ Sent(r, WbufBytes(NextOut.buf_offset, r.sent))
        /\ \/ /\ error \/ r.err
              /\ ResetWbuf(r.err, desc)
              /\ Goto(t, "check")
              /\ UNCHANGED outgoing_mtx
           \/ /\ ~error /\ ~r.err
              /\ Advance(r.n, 0)
              /\ IF NextOut.buf_offset + r.n < hdr_len[NextOut.msg]
                 THEN Goto(t, "check") /\ UNCHANGED outgoing_mtx
                 ELSE Goto(t, "file") /\ outgoing_mtx' = t
              /\ UNCHANGED desc
  BY DEF WriteHdr
<1>4. r.n \in Int /\ r.sent \in Int /\ r.err \in BOOLEAN
  BY <1>2, ResultTypes
<1>5. wire' \in Seq(Bytes) /\ connected' \in BOOLEAN
  BY <1>2, <1>3, <1>4, WbufBytesTypes, SentTypes
<1>6. desc \in [Files -> [open : BOOLEAN, pos : Nat]]
      /\ outgoing_mtx \in Threads \cup {None}
  BY DEF TypeOK
<1>7. CASE ResetWbuf(r.err, desc) /\ Goto(t, "check") /\ UNCHANGED outgoing_mtx
  BY <1>4, <1>5, <1>6, <1>7, ResetQueueTypes, GotoTypes DEF TypeOK, QueueTypes, PcTypes
<1>8. CASE /\ Advance(r.n, 0)
           /\ \/ Goto(t, "check") /\ UNCHANGED outgoing_mtx
              \/ Goto(t, "file") /\ outgoing_mtx' = t
           /\ UNCHANGED desc
  <2>1. QueueTypes'
    BY <1>1, <1>4, <1>6, <1>8, AdvanceQueueTypes
  <2>2. pc' \in PcTypes /\ outgoing_mtx' \in Threads \cup {None}
    BY <1>6, <1>8, GotoTypes
  <2>3. QED
    BY <1>5, <2>1, <2>2 DEF TypeOK, QueueTypes, PcTypes
<1>9. QED
  BY <1>3, <1>7, <1>8

\* Write, opening the file.
LEMMA TypeWriteOpen ==
    ASSUME TypeOK, NEW t \in Threads, WriteOpen(t), wpending # <<>>, wfiles # <<>>
    PROVE  TypeOK'
<1> DEFINE f      == Head(wfiles)
           opened == [desc EXCEPT ![f] = OpenDesc(0)]
           DescType == [Files -> [open : BOOLEAN, pos : Nat]]
<1>1. desc \in DescType /\ outgoing_mtx \in Threads \cup {None} /\ f \in Files
  BY ChunkTypes DEF TypeOK
<1>2. opened \in DescType
  BY <1>1 DEF OpenDesc
<1>3. UNCHANGED ioVars
  BY DEF WriteOpen
<1>4. CASE /\ Goto(t, "chunk")
           /\ UNCHANGED <<queueVars, whdrs, error, outgoing_mtx, queued, dropped,
                          stray, answered, ub>>
  BY <1>3, <1>4, GotoTypes DEF TypeOK, PcTypes, queueVars, ioVars
<1>5. ASSUME NEW d \in DescType, NEW own \in BOOLEAN, ResetWbuf(own, d), WriteReturn(t)
      PROVE  TypeOK'
  <2>1. QueueTypes'
    BY <1>5, ResetQueueTypes
  <2>2. pc' \in PcTypes /\ outgoing_mtx' \in Threads \cup {None}
    BY <1>5, GotoTypes DEF WriteReturn
  <2>3. QED
    BY <1>3, <2>1, <2>2 DEF TypeOK, QueueTypes, PcTypes, ioVars
<1>6. CASE \E d \in {desc, opened} : ResetWbuf(TRUE, d) /\ WriteReturn(t)
  BY <1>1, <1>2, <1>5, <1>6
<1>7. CASE ResetWbuf(FALSE, opened) /\ WriteReturn(t)
  BY <1>2, <1>5, <1>7
<1>8. CASE /\ NextOut.file_offset >= 0
           /\ desc' = [desc EXCEPT ![f] = OpenDesc(NextOut.file_offset)]
           /\ Goto(t, "chunk")
           /\ UNCHANGED <<wbuf, wbuf_size, wpending, wfiles, whdrs, error,
                          outgoing_mtx, queued, dropped, stray, answered, ub>>
  <2>1. NextOut.file_offset \in Nat
    BY <1>8, FrontTypes
  <2>2. desc' \in DescType
    BY <1>1, <1>8, <2>1 DEF OpenDesc
  <2>3. QED
    BY <1>3, <1>8, <2>2, GotoTypes DEF TypeOK, PcTypes, ioVars
<1>9. QED
  BY <1>4, <1>6, <1>7, <1>8 DEF WriteOpen

\* Write, a failed read(2).
LEMMA TypeWriteReadFails ==
    ASSUME TypeOK, NEW t \in Threads, WriteReadFails(t)
    PROVE  TypeOK'
<1>1. QueueTypes'
  BY ResetQueueTypes DEF WriteReadFails, TypeOK
<1>2. pc' \in PcTypes /\ outgoing_mtx' \in Threads \cup {None}
  BY GotoTypes DEF WriteReadFails, WriteReturn
<1>3. QED
  BY <1>1, <1>2 DEF WriteReadFails, TypeOK, QueueTypes, PcTypes, ioVars

\* Write, a chunk of the file.
LEMMA TypeWriteChunk ==
    ASSUME TypeOK, NEW t \in Threads, WriteChunk(t), wpending # <<>>, wfiles # <<>>
    PROVE  TypeOK'
<1> DEFINE f    == Head(wfiles)
           read == [desc EXCEPT ![f] = OpenDesc(@.pos + ChunkRead)]
<1>1. /\ desc \in [Files -> [open : BOOLEAN, pos : Nat]]
      /\ f \in Files /\ ChunkRead \in Nat
  BY ChunkTypes DEF TypeOK, WriteChunk
<1>2. read \in [Files -> [open : BOOLEAN, pos : Nat]]
  BY <1>1 DEF OpenDesc
<1>3. PICK r \in SSLConn_Write(ChunkRead) :
        /\ Sent(r, FileBytes(NextOut.msg, desc[f].pos, r.sent))
        /\ IF error \/ r.err THEN ResetWbuf(r.err, read)
           ELSE Advance(0, r.n) /\ desc' = read
  BY DEF WriteChunk
<1>4. r.n \in Int /\ r.sent \in Int /\ r.err \in BOOLEAN
  BY <1>1, ResultTypes
<1> HIDE DEF read
<1>5. wire' \in Seq(Bytes) /\ connected' \in BOOLEAN
  BY <1>1, <1>3, <1>4, ChunkTypes, FrontTypes, FileBytesTypes, SentTypes
<1>6. QueueTypes'
  BY <1>2, <1>3, <1>4, ResetQueueTypes, AdvanceQueueTypes
<1>7. pc' \in PcTypes /\ outgoing_mtx' \in Threads \cup {None}
  BY GotoTypes DEF WriteChunk, WriteReturn
<1>8. QED
  BY <1>5, <1>6, <1>7 DEF TypeOK, QueueTypes, PcTypes


\* The first part removed: the others move forward by its length.
LEMMA ConcatenatedTail ==
    ASSUME NEW S, NEW parts \in Seq(Seq(S)), parts # <<>>, NEW s \in Seq(S),
           Concatenated(parts, s)
    PROVE  /\ Len(Head(parts)) \in 0 .. Len(s)
           /\ \A k \in 1 .. Len(Head(parts)) : s[k] = Head(parts)[k]
           /\ Concatenated(Tail(parts), SubSeq(s, Len(Head(parts)) + 1, Len(s)))
<1> DEFINE L    == Len(parts)
           n    == Len(s)
           h    == Len(Head(parts))
           rest == SubSeq(s, h + 1, n)
<1>1. L \in Nat \ {0} /\ n \in Nat /\ h \in Nat
  OBVIOUS
<1>2. /\ Len(Tail(parts)) = L - 1
      /\ Head(parts) = parts[1]
      /\ \A i \in 1 .. L - 1 : Tail(parts)[i] = parts[i + 1]
  BY HeadTailProperties
<1>3. PICK at : Positions(at, parts, s)
  BY PositionsExist
<1>4. at \in [1 .. L + 1 -> 0 .. n] /\ at[1] = 0 /\ at[L + 1] = n
  BY <1>3 DEF Positions
<1>5. \A i \in 1 .. L : \A k \in 1 .. Len(parts[i]) : s[at[i] + k] = parts[i][k]
  BY <1>3 DEF Positions
<1>6. \A i \in 1 .. L : at[i + 1] = at[i] + Len(parts[i]) /\ Len(parts[i]) \in Nat
  BY <1>3 DEF Positions
<1>7. \A i, j \in 1 .. L + 1 : i <= j => at[i] <= at[j]
  BY <1>3 DEF Positions
<1>8. \A i \in 1 .. n : s[i] \in S
  OBVIOUS
<1> HIDE DEF L, n, h
<1>9. at[2] = h
  BY <1>1, <1>2, <1>4, <1>6 DEF h
<1>10. \A i \in 1 .. L : at[i + 1] \in 0 .. n /\ at[i + 1] >= h
  <2>1. \A i \in 1 .. L : i + 1 \in 1 .. L + 1 /\ 2 \in 1 .. L + 1 /\ 2 <= i + 1
    BY <1>1
  <2>2. QED
    BY <1>4, <1>7, <1>9, <2>1
<1>11. h \in 0 .. n
  <2>1. 1 \in 1 .. L /\ 1 + 1 = 2
    BY <1>1
  <2>2. at[2] \in 0 .. n
    BY <1>10, <2>1
  <2>3. QED
    BY <1>9, <2>2
<1>12. /\ Len(rest) = n - h
       /\ \A i \in 1 .. n - h : rest[i] = s[h + i]
  <2>1. \A i \in h + 1 .. n : s[i] \in S
    BY <1>1, <1>8
  <2>2. /\ Len(rest) = IF h + 1 <= n THEN n - (h + 1) + 1 ELSE 0
        /\ \A i \in 1 .. n - (h + 1) + 1 : rest[i] = s[h + 1 + i - 1]
    <3>1. h + 1 \in Int /\ n \in Int
      BY <1>1
    <3>2. QED
      BY <2>1, <3>1, SubSeqProperties
  <2>3. n - (h + 1) + 1 = n - h /\ \A i \in 1 .. n - h : h + 1 + i - 1 = h + i
    BY <1>1
  <2>4. QED
    BY <1>1, <1>11, <2>2, <2>3
<1> DEFINE new == [i \in 1 .. L |-> at[i + 1] - h]
<1>13. \A i \in 1 .. L : new[i] = at[i + 1] - h
  OBVIOUS
<1>14. new \in [1 .. L -> 0 .. n - h]
  BY <1>1, <1>10
<1> HIDE DEF new, rest
<1>15. new[1] = 0 /\ new[L] = n - h
  BY <1>1, <1>4, <1>9, <1>13
<1>16. ASSUME NEW i \in 1 .. L, NEW j \in 1 .. L, i <= j
       PROVE  new[i] <= new[j]
  <2>1. i + 1 \in 1 .. L + 1 /\ j + 1 \in 1 .. L + 1 /\ i + 1 <= j + 1
    BY <1>1, <1>16
  <2>2. at[i + 1] <= at[j + 1]
    BY <1>7, <2>1
  <2>3. QED
    BY <1>1, <1>10, <1>13, <2>2
<1>17. ASSUME NEW i \in 1 .. L - 1
       PROVE  /\ new[i + 1] = new[i] + Len(Tail(parts)[i])
              /\ \A k \in 1 .. Len(Tail(parts)[i]) : rest[new[i] + k] = Tail(parts)[i][k]
  <2>1. i \in 1 .. L /\ i + 1 \in 1 .. L
    BY <1>1
  <2>2. Tail(parts)[i] = parts[i + 1]
    BY <1>2
  <2>3. at[i + 1 + 1] = at[i + 1] + Len(parts[i + 1]) /\ Len(parts[i + 1]) \in Nat
    BY <1>6, <2>1
  <2>4. \A k \in 1 .. Len(parts[i + 1]) : s[at[i + 1] + k] = parts[i + 1][k]
    BY <1>5, <2>1
  <2>5. /\ new[i] = at[i + 1] - h /\ new[i + 1] = at[i + 1 + 1] - h
        /\ at[i + 1] \in 0 .. n /\ at[i + 1] >= h /\ at[i + 1 + 1] \in 0 .. n
    BY <1>10, <1>13, <2>1
  <2>6. ASSUME NEW k \in 1 .. Len(parts[i + 1])
        PROVE  rest[new[i] + k] = parts[i + 1][k]
    <3>1. new[i] + k \in 1 .. n - h /\ h + (new[i] + k) = at[i + 1] + k
      <4>1. \A a, b, l \in Int : a >= h /\ b <= n /\ b = a + l /\ k <= l
               => (a - h) + k \in 1 .. n - h /\ h + ((a - h) + k) = a + k
        BY <1>1, <2>3
      <4>2. /\ at[i + 1] \in Int /\ at[i + 1 + 1] \in Int /\ at[i + 1 + 1] <= n
            /\ Len(parts[i + 1]) \in Int /\ k <= Len(parts[i + 1])
        BY <1>1, <2>3, <2>5
      <4>3. QED
        BY <2>3, <2>5, <4>1, <4>2
    <3>2. rest[new[i] + k] = s[at[i + 1] + k]
      BY <1>12, <3>1
    <3>3. QED
      BY <2>4, <3>2
  <2>7. new[i + 1] = new[i] + Len(parts[i + 1])
    <3>1. \A a, b, l \in Int : b = a + l => b - h = (a - h) + l
      BY <1>1
    <3>2. at[i + 1] \in Int /\ at[i + 1 + 1] \in Int
      <4>1. 0 .. n \subseteq Int
        OBVIOUS
      <4>2. QED
        BY <2>5, <4>1, Zenon
    <3>3. Len(parts[i + 1]) \in Int
      BY <2>3
    <3>4. at[i + 1 + 1] - h = (at[i + 1] - h) + Len(parts[i + 1])
      BY <2>3, <3>1, <3>2, <3>3, Zenon
    <3>5. QED
      BY <2>5, <3>4, Zenon
  <2>8. QED
    BY <2>2, <2>6, <2>7
<1>18. Positions(new, Tail(parts), rest)
  <2>1. Len(Tail(parts)) + 1 = L
    BY <1>1, <1>2
  <2>2. QED
    BY <1>2, <1>12, <1>14, <1>15, <1>16, <1>17, <2>1 DEF Positions
<1>19. \A k \in 1 .. h : s[k] = Head(parts)[k]
  <2>1. 1 \in 1 .. L /\ \A k \in 1 .. h : 0 + k = k
    BY <1>1
  <2>2. QED
    BY <1>2, <1>4, <1>5, <2>1 DEF h
<1>20. QED
  BY <1>11, <1>18, <1>19, PositionsExist DEF h, n, rest

-----------------------------------------------------------------------------
(* The containers of the queue *)

\* The messages of the queue are messages.
LEMMA PendingMsgs ==
    ASSUME TypeOK
    PROVE  \A i \in 1 .. Len(wpending) : wpending[i].msg \in Msgs
<1>1. wpending \in Seq(MsgInfos)
  BY DEF TypeOK
<1>2. \A i \in 1 .. Len(wpending) : wpending[i] \in MsgInfos
  BY <1>1
<1>3. QED
  BY <1>2 DEF MsgInfos

\* Their buffered parts are sequences of bytes.
LEMMA PartsTypes ==
    ASSUME TypeOK
    PROVE  /\ BufParts \in Seq(Seq(Bytes)) /\ Len(BufParts) = Len(wpending)
           /\ FileParts \in Seq(Seq(Files)) /\ Len(FileParts) = Len(wpending)
<1>1. Len(wpending) \in Nat
  BY DEF TypeOK
<1>2. \A i \in 1 .. Len(wpending) : BufPart(wpending[i].msg) \in Seq(Bytes)
  BY PendingMsgs, BufPartTypes
<1>3. \A m \in Msgs : FilePart(m) \in Seq(Files)
  BY MsgTypes DEF FilePart
<1>4. \A i \in 1 .. Len(wpending) : FilePart(wpending[i].msg) \in Seq(Files)
  BY <1>3, PendingMsgs
<1>5. BufParts \in Seq(Seq(Bytes)) /\ Len(BufParts) = Len(wpending)
  BY <1>1, <1>2 DEF BufParts
<1>6. FileParts \in Seq(Seq(Files)) /\ Len(FileParts) = Len(wpending)
  BY <1>1, <1>4 DEF FileParts
<1>7. QED
  BY <1>5, <1>6

\* An empty queue, at the start and after ResetWbuf.
LEMMA EmptyLinked ==
    ASSUME wbuf = <<>>, wpending = <<>>, wfiles = <<>>
    PROVE  BufferLinked /\ FilesLinked
<1>1. BufParts = <<>> /\ FileParts = <<>>
  BY DEF BufParts, FileParts
<1>2. QED
  BY <1>1, ConcatenatedEmpty DEF BufferLinked, FilesLinked

\* After ResetWbuf everything is empty.
LEMMA ResetLinked ==
    ASSUME TypeOK, NEW own, NEW d, ResetWbuf(own, d)
    PROVE  BufferLinked' /\ FilesLinked' /\ BufferFits'
<1>1. wbuf' = <<>> /\ wpending' = <<>> /\ wfiles' = <<>>
  BY DEF ResetWbuf
<1>2. BufParts' = <<>> /\ FileParts' = <<>>
  BY <1>1 DEF BufParts, FileParts
<1>3. BufferFits'
  BY <1>1 DEF ResetWbuf, TypeOK, BufferFits
<1>4. QED
  BY <1>1, <1>2, <1>3, ConcatenatedEmpty DEF BufferLinked, FilesLinked

\* A step that at most moves offsets.
LEMMA SameLinked ==
    ASSUME BufferLinked, FilesLinked, wbuf' = wbuf, wfiles' = wfiles,
           Len(wpending') = Len(wpending),
           \A i \in 1 .. Len(wpending) : wpending'[i].msg = wpending[i].msg
    PROVE  BufferLinked' /\ FilesLinked'
<1>1. /\ BufParts' = [i \in 1 .. Len(wpending) |-> BufPart(wpending'[i].msg)]
      /\ FileParts' = [i \in 1 .. Len(wpending) |-> FilePart(wpending'[i].msg)]
  BY DEF BufParts, FileParts
<1>2. BufParts' = BufParts
  BY <1>1 DEF BufParts
<1>3. FileParts' = FileParts
  BY <1>1 DEF FileParts
<1>4. QED
  BY <1>2, <1>3 DEF BufferLinked, FilesLinked

\* AddMsgBuf and AddMsgFile put the message at the end of each container.
LEMMA AddLinked ==
    ASSUME TypeOK, BufferLinked, FilesLinked, NEW m \in Msgs,
           wpending' = Append(wpending, MsgInfo(m, 0, 0)),
           wbuf' = wbuf \o BufPart(m), wfiles' = wfiles \o FilePart(m)
    PROVE  BufferLinked' /\ FilesLinked'
<1> DEFINE L == Len(wpending)
<1>1. wpending \in Seq(MsgInfos) /\ L \in Nat
  BY DEF TypeOK
<1>2. MsgInfo(m, 0, 0) \in MsgInfos /\ MsgInfo(m, 0, 0).msg = m
  BY MsgInfoTypes
<1>3. Len(wpending') = L + 1 /\ wpending'[L + 1].msg = m
  BY <1>1, <1>2
<1>4. \A i \in 1 .. L : wpending'[i] = wpending[i]
  BY <1>1, <1>2
<1>5. BufPart(m) \in Seq(Bytes) /\ FilePart(m) \in Seq(Files)
  BY BufPartTypes, MsgTypes DEF FilePart
<1> HIDE DEF L
<1>6. BufParts' = Append(BufParts, BufPart(m))
  <2>1. BufParts' = [i \in 1 .. L + 1 |-> BufPart(wpending'[i].msg)]
    BY <1>3 DEF BufParts
  <2>2. BufParts = [i \in 1 .. L |-> BufPart(wpending[i].msg)] /\ Len(BufParts) = L
    BY PartsTypes DEF BufParts, L
  <2>3. Append(BufParts, BufPart(m))
          = [i \in 1 .. L + 1 |-> IF i = L + 1 THEN BufPart(m) ELSE BufParts[i]]
    BY <1>1, <2>2
  <2>4. \A i \in 1 .. L + 1 : i # L + 1 => i \in 1 .. L
    BY <1>1
  <2>5. \A i \in 1 .. L + 1 : BufPart(wpending'[i].msg)
          = IF i = L + 1 THEN BufPart(m) ELSE BufParts[i]
    BY <1>3, <1>4, <2>2, <2>4
  <2>6. QED
    BY <2>1, <2>3, <2>5
<1>7. FileParts' = Append(FileParts, FilePart(m))
  <2>1. FileParts' = [i \in 1 .. L + 1 |-> FilePart(wpending'[i].msg)]
    BY <1>3 DEF FileParts
  <2>2. FileParts = [i \in 1 .. L |-> FilePart(wpending[i].msg)] /\ Len(FileParts) = L
    BY PartsTypes DEF FileParts, L
  <2>3. Append(FileParts, FilePart(m))
          = [i \in 1 .. L + 1 |-> IF i = L + 1 THEN FilePart(m) ELSE FileParts[i]]
    BY <1>1, <2>2
  <2>4. \A i \in 1 .. L + 1 : i # L + 1 => i \in 1 .. L
    BY <1>1
  <2>5. \A i \in 1 .. L + 1 : FilePart(wpending'[i].msg)
          = IF i = L + 1 THEN FilePart(m) ELSE FileParts[i]
    BY <1>3, <1>4, <2>2, <2>4
  <2>6. QED
    BY <2>1, <2>3, <2>5
<1>8. wbuf \in Seq(Bytes) /\ wfiles \in Seq(Files)
  BY DEF TypeOK
<1>9. Concatenated(Append(BufParts, BufPart(m)), wbuf \o BufPart(m))
  BY <1>5, <1>8, PartsTypes, ConcatenatedAppend DEF BufferLinked
<1>10. Concatenated(Append(FileParts, FilePart(m)), wfiles \o FilePart(m))
  BY <1>5, <1>8, PartsTypes, ConcatenatedAppend DEF FilesLinked
<1>11. QED
  BY <1>6, <1>7, <1>9, <1>10 DEF BufferLinked, FilesLinked

\* The front message's parts come first in each container.
LEMMA FrontLinked ==
    ASSUME TypeOK, BufferLinked, FilesLinked, wpending # <<>>
    PROVE  /\ BufLen(NextOut.msg) \in 0 .. Len(wbuf)
           /\ Concatenated(Tail(BufParts), SubSeq(wbuf, BufLen(NextOut.msg) + 1, Len(wbuf)))
           /\ Len(FilePart(NextOut.msg)) \in 0 .. Len(wfiles)
           /\ storage[NextOut.msg] = "DISC" =>
                wfiles # <<>> /\ Head(wfiles) = file[NextOut.msg]
           /\ Concatenated(Tail(FileParts),
                           SubSeq(wfiles, Len(FilePart(NextOut.msg)) + 1, Len(wfiles)))
<1>1. wpending \in Seq(MsgInfos) /\ wbuf \in Seq(Bytes) /\ wfiles \in Seq(Files)
  BY DEF TypeOK
<1>2. Len(wpending) \in Nat \ {0} /\ NextOut = wpending[1] /\ NextOut.msg \in Msgs
  BY <1>1, FrontTypes
<1>3. BufParts # <<>> /\ FileParts # <<>>
  BY <1>2, PartsTypes
<1>4. Head(BufParts) = BufPart(NextOut.msg) /\ Head(FileParts) = FilePart(NextOut.msg)
  <2>1. Head(BufParts) = BufParts[1] /\ Head(FileParts) = FileParts[1]
    BY <1>3, PartsTypes
  <2>2. 1 \in 1 .. Len(wpending)
    BY <1>2
  <2>3. QED
    BY <1>2, <2>1, <2>2 DEF BufParts, FileParts
<1>5. /\ Len(Head(BufParts)) \in 0 .. Len(wbuf)
      /\ Concatenated(Tail(BufParts), SubSeq(wbuf, Len(Head(BufParts)) + 1, Len(wbuf)))
  BY <1>1, <1>3, PartsTypes, ConcatenatedTail DEF BufferLinked
<1>6. /\ Len(Head(FileParts)) \in 0 .. Len(wfiles)
      /\ \A k \in 1 .. Len(Head(FileParts)) : wfiles[k] = Head(FileParts)[k]
      /\ Concatenated(Tail(FileParts), SubSeq(wfiles, Len(Head(FileParts)) + 1, Len(wfiles)))
  BY <1>1, <1>3, PartsTypes, ConcatenatedTail DEF FilesLinked
<1>7. Len(BufPart(NextOut.msg)) = BufLen(NextOut.msg)
  BY <1>2, BufPartTypes
<1>8. ASSUME storage[NextOut.msg] = "DISC"
      PROVE  wfiles # <<>> /\ Head(wfiles) = file[NextOut.msg]
  <2>1. Head(FileParts) = <<file[NextOut.msg]>>
    BY <1>4, <1>8 DEF FilePart
  <2>2. Len(Head(FileParts)) = 1 /\ Head(FileParts)[1] = file[NextOut.msg] /\ 1 \in 1 .. 1
    <3>1. \A x : Len(<<x>>) = 1 /\ <<x>>[1] = x
      OBVIOUS
    <3>2. 1 \in 1 .. 1
      OBVIOUS
    <3>3. QED
      BY <2>1, <3>1, <3>2
  <2>3. 1 \in 0 .. Len(wfiles)
    BY <1>6, <2>2
  <2>4. wfiles[1] = file[NextOut.msg]
    BY <1>6, <2>2
  <2>5. QED
    BY <1>1, <2>3, <2>4
<1>9. QED
  BY <1>4, <1>5, <1>6, <1>7, <1>8

\* The tail of a sequence, position by position.
LEMMA TailIsFunction ==
    ASSUME NEW S, NEW s \in Seq(S), s # <<>>
    PROVE  Tail(s) = [i \in 1 .. Len(s) - 1 |-> s[i + 1]]
<1> DEFINE t == Tail(s)
           n == Len(s) - 1
<1>1. t \in Seq(S) /\ Len(t) = n /\ \A i \in 1 .. n : t[i] = s[i + 1]
  BY HeadTailProperties
<1>2. t \in [1 .. n -> S]
  BY <1>1, LenProperties
<1> HIDE DEF t, n
<1>3. t = [i \in 1 .. n |-> s[i + 1]]
  BY <1>1, <1>2
<1>4. QED
  BY <1>3 DEF t, n

\* PopOutgoingMsgQueue removes the front message from each container.
LEMMA PopLinked ==
    ASSUME TypeOK, BufferLinked, FilesLinked, BufferFits, wpending # <<>>,
           wbuf' = SubSeq(wbuf, BufLen(NextOut.msg) + 1, Len(wbuf)),
           wpending' = Tail(wpending), wbuf_size' = wbuf_size,
           IF storage[NextOut.msg] = "MEM" THEN wfiles' = wfiles
           ELSE wfiles' = Tail(wfiles)
    PROVE  /\ BufferLinked' /\ FilesLinked' /\ BufferFits'
           /\ wbuf' \in Seq(Bytes) /\ wpending' \in Seq(MsgInfos) /\ wfiles' \in Seq(Files)
<1> DEFINE L == Len(wpending)
           n == Len(wbuf)
           h == BufLen(NextOut.msg)
<1>1. /\ wpending \in Seq(MsgInfos) /\ wbuf \in Seq(Bytes) /\ wfiles \in Seq(Files)
      /\ wbuf_size \in Nat
  BY DEF TypeOK
<1>2. L \in Nat \ {0} /\ NextOut.msg \in Msgs
  BY <1>1, FrontTypes
<1>3. h \in 0 .. n
  BY FrontLinked
<1>4. wbuf' \in Seq(Bytes) /\ Len(wbuf') = n - h
  <2>1. n \in Nat /\ h \in Nat /\ h + 1 \in Int
    BY <1>1, <1>3
  <2>2. \A i \in h + 1 .. n : wbuf[i] \in Bytes
    BY <1>1, <2>1
  <2>3. /\ wbuf' \in Seq(Bytes)
        /\ Len(wbuf') = IF h + 1 <= n THEN n - (h + 1) + 1 ELSE 0
    BY <2>1, <2>2, SubSeqProperties
  <2>4. QED
    BY <1>3, <2>1, <2>3
<1>5. /\ wpending' \in Seq(MsgInfos) /\ Len(wpending') = L - 1
      /\ \A i \in 1 .. L - 1 : wpending'[i] = wpending[i + 1]
  BY <1>1, HeadTailProperties
<1>6. BufParts # <<>> /\ FileParts # <<>> /\ Len(BufParts) = L /\ Len(FileParts) = L
  BY <1>2, PartsTypes
<1>7. /\ Tail(BufParts) = [i \in 1 .. L - 1 |-> BufParts[i + 1]]
      /\ Tail(FileParts) = [i \in 1 .. L - 1 |-> FileParts[i + 1]]
  BY <1>6, PartsTypes, TailIsFunction
<1> HIDE DEF L, n, h
<1>8. \A i \in 1 .. L - 1 : i + 1 \in 1 .. L
  BY <1>2
<1>9. BufParts' = Tail(BufParts)
  <2>1. BufParts' = [i \in 1 .. L - 1 |-> BufPart(wpending'[i].msg)]
    BY <1>5 DEF BufParts
  <2>2. \A i \in 1 .. L - 1 : BufParts[i + 1] = BufPart(wpending[i + 1].msg)
    BY <1>8 DEF BufParts, L
  <2>3. QED
    BY <1>5, <1>7, <2>1, <2>2
<1>10. FileParts' = Tail(FileParts)
  <2>1. FileParts' = [i \in 1 .. L - 1 |-> FilePart(wpending'[i].msg)]
    BY <1>5 DEF FileParts
  <2>2. \A i \in 1 .. L - 1 : FileParts[i + 1] = FilePart(wpending[i + 1].msg)
    BY <1>8 DEF FileParts, L
  <2>3. QED
    BY <1>5, <1>7, <2>1, <2>2
<1>11. wfiles' = SubSeq(wfiles, Len(FilePart(NextOut.msg)) + 1, Len(wfiles))
  <2>1. CASE storage[NextOut.msg] = "MEM"
    <3>1. Len(FilePart(NextOut.msg)) + 1 = 1
      BY <2>1 DEF FilePart
    <3>2. SubSeq(wfiles, 1, Len(wfiles)) = wfiles
      BY <1>1, SubSeqFull
    <3>3. QED
      BY <2>1, <3>1, <3>2
  <2>2. CASE storage[NextOut.msg] = "DISC"
    <3>1. Len(FilePart(NextOut.msg)) + 1 = 2
      <4>1. \A x : Len(<<x>>) + 1 = 2
        OBVIOUS
      <4>2. QED
        BY <2>2, <4>1 DEF FilePart
    <3>2. Tail(wfiles) = SubSeq(wfiles, 2, Len(wfiles))
      BY <1>1, <2>2, FrontLinked, TailIsSubSeq
    <3>3. QED
      BY <2>2, <3>1, <3>2
  <2>3. QED
    BY <1>2, <2>1, <2>2, MsgTypes
<1>12. BufferLinked' /\ FilesLinked'
  BY <1>9, <1>10, <1>11, FrontLinked DEF BufferLinked, FilesLinked
<1>13. BufferFits'
  <2>1. n \in Nat /\ n <= wbuf_size
    BY <1>1 DEF BufferFits, n
  <2>2. n - h <= wbuf_size
    BY <1>1, <1>3, <2>1
  <2>3. QED
    BY <1>4, <2>2 DEF BufferFits
<1>14. wfiles' \in Seq(Files)
  <2>1. CASE storage[NextOut.msg] = "MEM"
    BY <1>1, <2>1
  <2>2. CASE storage[NextOut.msg] = "DISC"
    BY <1>1, <2>2, FrontLinked, HeadTailProperties
  <2>3. QED
    BY <1>2, <2>1, <2>2, MsgTypes
<1>15. QED
  BY <1>4, <1>5, <1>12, <1>13, <1>14

-----------------------------------------------------------------------------
(* The lock *)

InLock == {"add", "file", "chunk"}

\* What Write's file part relies on between its steps.
FrontIsFile ==
    /\ wpending # <<>>
    /\ storage[NextOut.msg] = "DISC"
    /\ wfiles # <<>>
    /\ Head(wfiles) = file[NextOut.msg]

\* A step of t when nobody else is in a locked part.
LEMMA LockedStep ==
    ASSUME TypeOK, LockedParts, NEW t \in Threads, NEW where, Goto(t, where),
           outgoing_mtx \in {None, t},
           where \in InLock => outgoing_mtx' = t,
           where \in {"file", "chunk"} => FrontIsFile'
    PROVE  LockedParts'
<1>1. \A u \in Threads \ {t} : pc[u] \notin InLock
  BY ThreadsAssumption DEF LockedParts, InLock
<1>2. \A u \in Threads : pc'[u] = IF u = t THEN where ELSE pc[u]
  BY DEF Goto, TypeOK
<1>3. \A u \in Threads : pc'[u] \in InLock => u = t /\ pc'[u] = where
  BY <1>1, <1>2
<1>4. \A u \in Threads : pc'[u] \in InLock => outgoing_mtx' = u
  BY <1>3
<1>5. \A u \in Threads : pc'[u] \in {"file", "chunk"} => FrontIsFile'
  BY <1>3 DEF InLock
<1>6. QED
  BY <1>4, <1>5 DEF LockedParts, InLock, FrontIsFile

\* A step that takes no lock, and leaves the queue as it is.
LEMMA LockedQuiet ==
    ASSUME TypeOK, LockedParts, NEW t \in Threads,
           \E where : Goto(t, where) /\ where \notin InLock,
           UNCHANGED <<outgoing_mtx, wpending, wfiles>>
    PROVE  LockedParts'
<1>1. PICK where : Goto(t, where) /\ where \notin InLock
  OBVIOUS
<1>2. \A u \in Threads : pc'[u] = IF u = t THEN where ELSE pc[u]
  BY <1>1 DEF Goto, TypeOK
<1>3. \A u \in Threads : pc'[u] \in InLock => pc'[u] = pc[u]
  BY <1>1, <1>2
<1>4. NextOut' = NextOut
  BY DEF NextOut
<1>5. \A u \in Threads : pc'[u] \in InLock => outgoing_mtx' = u
  BY <1>3 DEF LockedParts, InLock
<1>6. \A u \in Threads : pc'[u] \in {"file", "chunk"} =>
        wpending # <<>> /\ storage[NextOut.msg] = "DISC"
        /\ wfiles # <<>> /\ Head(wfiles) = file[NextOut.msg]
  BY <1>3 DEF LockedParts, InLock
<1>7. QED
  BY <1>4, <1>5, <1>6 DEF LockedParts, InLock

\* A step that moves no thread.
LEMMA LockedStill ==
    ASSUME LockedParts, UNCHANGED <<pc, outgoing_mtx, wpending, wfiles>>
    PROVE  LockedParts'
BY DEF LockedParts, NextOut

\* Moving an offset leaves the alignments alone.
LEMMA AdvanceLinked ==
    ASSUME TypeOK, BufferLinked, FilesLinked, BufferFits, wpending # <<>>,
           NEW b \in Int, NEW f \in Int, Advance(b, f)
    PROVE  /\ BufferLinked' /\ FilesLinked' /\ BufferFits'
           /\ NextOut'.msg = NextOut.msg /\ wpending' # <<>> /\ wfiles' = wfiles
<1>1. /\ Len(wpending') = Len(wpending) /\ wpending' \in Seq(MsgInfos)
      /\ \A i \in 1 .. Len(wpending) : wpending'[i].msg = wpending[i].msg
  BY AdvanceTypes
<1>2. UNCHANGED <<wbuf, wbuf_size, wfiles>>
  BY DEF Advance
<1>3. BufferLinked' /\ FilesLinked'
  BY <1>1, <1>2, SameLinked
<1>4. wpending \in Seq(MsgInfos) /\ Len(wpending) \in Nat \ {0}
  BY DEF TypeOK
<1>5. wpending' # <<>>
  BY <1>1, <1>4
<1>6. NextOut' = wpending'[1] /\ NextOut = wpending[1]
  BY <1>1, <1>4, <1>5 DEF NextOut
<1>7. NextOut'.msg = NextOut.msg
  BY <1>1, <1>4, <1>6
<1>8. QED
  BY <1>2, <1>3, <1>5, <1>7 DEF BufferFits

-----------------------------------------------------------------------------
(* The inductive invariant *)

\* TypeOK is not inductive: that the file part of Write takes the head of a
\* wfiles_ that is not empty follows from the links between the containers and
\* from the lock, which are invariants in their turn.
QueueInv == BufferLinked /\ FilesLinked /\ BufferFits

IInv == TypeOK /\ QueueInv /\ LockedParts

\* The invariant holds when the session is made.
LEMMA InvInit == Init => IInv
<1> SUFFICES ASSUME Init PROVE IInv
  OBVIOUS
<1>1. TypeOK
  BY TypeInit
<1>2. BufferLinked /\ FilesLinked
  BY EmptyLinked DEF Init
<1>3. BufferFits
  BY LengthsAssumption DEF Init, BufferFits
<1>4. LockedParts
  BY DEF Init, LockedParts
<1>5. QED
  BY <1>1, <1>2, <1>3, <1>4 DEF IInv, QueueInv

\* Steps that leave the queue, or move no data in it.
LEMMA QueueStill ==
    ASSUME QueueInv, UNCHANGED <<wbuf, wbuf_size, wpending, wfiles>>
    PROVE  QueueInv'
<1>1. BufferLinked' /\ FilesLinked'
  BY SameLinked DEF QueueInv
<1>2. QED
  BY <1>1 DEF QueueInv, BufferFits

\* A message added keeps the alignments and the bound.
LEMMA AddMsgInv ==
    ASSUME IInv, NEW t \in Threads, NEW m \in Msgs, AddMsg(t, m),
           wfiles' = wfiles \o FilePart(m)
    PROVE  QueueInv' /\ LockedParts'
<1>1. BufferLinked' /\ FilesLinked'
  BY AddLinked DEF IInv, QueueInv, AddMsg
<1>2. BufferFits'
  <2>1. Len(wbuf') = Len(wbuf) + BufLen(m) /\ Len(wbuf) \in Nat /\ wbuf_size \in Nat
    <3>1. wbuf \in Seq(Bytes) /\ wbuf_size \in Nat /\ wbuf' = wbuf \o BufPart(m)
      BY DEF IInv, TypeOK, AddMsg
    <3>2. BufPart(m) \in Seq(Bytes) /\ Len(BufPart(m)) = BufLen(m)
      BY BufPartTypes
    <3>3. Len(wbuf \o BufPart(m)) = Len(wbuf) + BufLen(m)
      BY <3>1, <3>2, ConcatProperties
    <3>4. QED
      BY <3>1, <3>3
  <2>2. CASE Fits(m)
    BY <2>1, <2>2 DEF AddMsg, Fits, BufferFits
  <2>3. CASE ~Fits(m)
    <3>1. wbuf_size' = Len(wbuf) + BufLen(m) + kDefaultBufSize
      BY <2>3 DEF AddMsg
    <3>2. BufLen(m) \in Nat /\ kDefaultBufSize \in Nat
      BY MsgTypes, LengthsAssumption
    <3>3. QED
      BY <2>1, <3>1, <3>2 DEF BufferFits
  <2>4. QED
    BY <2>2, <2>3
<1>3. LockedParts'
  <2>1. pc[t] = "add" /\ Goto(t, "idle")
    BY DEF AddMsg, AddReturn
  <2>2. outgoing_mtx = t
    BY <2>1 DEF IInv, LockedParts
  <2>3. QED
    BY <2>1, <2>2, LockedStep DEF IInv, InLock
<1>4. QED
  BY <1>1, <1>2, <1>3 DEF QueueInv

\* All that a producer does.
LEMMA InvProduce ==
    ASSUME IInv, NEW t \in Producers, Produce(t)
    PROVE  IInv'
<1>0. t \in Threads /\ TypeOK /\ QueueInv /\ LockedParts
  BY DEF Threads, IInv
<1>1. TypeOK'
  BY <1>0, TypeAdd
<1>2. CASE AddReject(t)
  BY <1>0, <1>1, <1>2, QueueStill, LockedStill DEF AddReject, IInv, queueVars
<1>3. CASE AddCall(t)
  BY <1>0, <1>1, <1>3, QueueStill, LockedQuiet DEF AddCall, IInv, queueVars, InLock
<1>4. CASE AddLock(t)
  BY <1>0, <1>1, <1>4, QueueStill, LockedStep
  DEF AddLock, Unlocked, IInv, queueVars, InLock
<1>5. CASE AddNoMemory(t)
  <2>1. outgoing_mtx = t
    BY <1>0, <1>5 DEF AddNoMemory, AddReturn, LockedParts
  <2>2. LockedParts'
    BY <1>0, <1>5, <2>1, LockedStep DEF AddNoMemory, AddReturn, InLock
  <2>3. QED
    BY <1>0, <1>1, <1>5, <2>2, QueueStill DEF AddNoMemory, IInv, queueVars
<1>6. ASSUME NEW m \in Msgs, AddMsgBuf(t, m)
      PROVE  IInv'
  <2>1. FilePart(m) = <<>> /\ wfiles' = wfiles
    BY <1>6 DEF AddMsgBuf, FilePart
  <2>2. wfiles' = wfiles \o FilePart(m)
    BY <1>0, <2>1, ConcatEmptySeq DEF TypeOK
  <2>3. QED
    BY <1>0, <1>1, <1>6, <2>2, AddMsgInv DEF AddMsgBuf, IInv
<1>7. ASSUME NEW m \in Msgs, AddMsgFile(t, m)
      PROVE  IInv'
  <2>1. FilePart(m) = <<file[m]>> /\ wfiles' = Append(wfiles, file[m])
    BY <1>7 DEF AddMsgFile, FilePart
  <2>2. wfiles' = wfiles \o FilePart(m)
    BY <1>0, <2>1, AppendIsConcat, MsgTypes DEF TypeOK
  <2>3. QED
    BY <1>0, <1>1, <1>7, <2>2, AddMsgInv DEF AddMsgFile, IInv
<1>8. QED
  BY <1>2, <1>3, <1>4, <1>5, <1>6, <1>7 DEF Produce

\* What every step of Write that the lock makes one step has in common.
LEMMA InvReset ==
    ASSUME IInv, TypeOK', NEW t \in Threads, NEW own, NEW d, ResetWbuf(own, d),
           Goto(t, "check"), outgoing_mtx \in {None, t}
    PROVE  IInv'
<1>1. TypeOK /\ LockedParts
  BY DEF IInv
<1>2. QueueInv'
  BY <1>1, ResetLinked DEF QueueInv
<1>3. LockedParts'
  BY <1>1, LockedStep DEF InLock
<1>4. QED
  BY <1>2, <1>3 DEF IInv

\* Write, a message in memory.
LEMMA InvWriteMem ==
    ASSUME IInv, NEW t \in Threads, WriteMem(t)
    PROVE  IInv'
<1>1. TypeOK /\ QueueInv /\ LockedParts
  BY DEF IInv
<1>2. TypeOK' /\ wpending # <<>> /\ Goto(t, "check") /\ outgoing_mtx = None
  BY <1>1, TypeWriteMem DEF WriteMem, Unlocked
<1>3. PICK r \in SSLConn_Write(MsgLen(NextOut.msg) - NextOut.buf_offset) :
        IF error \/ r.err THEN ResetWbuf(r.err, desc)
        ELSE Advance(r.n, 0) /\ UNCHANGED desc
  BY DEF WriteMem
<1>4. r.n \in Int
  BY <1>1, <1>2, FrontTypes, MsgTypes, ResultTypes
<1>5. CASE ResetWbuf(r.err, desc)
  BY <1>2, <1>5, InvReset
<1>6. CASE Advance(r.n, 0)
  <2>1. QueueInv'
    BY <1>1, <1>2, <1>4, <1>6, AdvanceLinked DEF QueueInv
  <2>2. LockedParts'
    BY <1>1, <1>2, LockedStep DEF InLock
  <2>3. QED
    BY <1>2, <2>1, <2>2 DEF IInv
<1>7. QED
  BY <1>3, <1>5, <1>6

\* Write, the header of a message in a file.
LEMMA InvWriteHdr ==
    ASSUME IInv, NEW t \in Threads, WriteHdr(t)
    PROVE  IInv'
<1>1. TypeOK /\ QueueInv /\ LockedParts
  BY DEF IInv
<1>2. /\ TypeOK' /\ wpending # <<>> /\ outgoing_mtx = None
      /\ storage[NextOut.msg] = "DISC"
  BY <1>1, TypeWriteHdr DEF WriteHdr, Unlocked
<1>3. PICK r \in SSLConn_Write(hdr_len[NextOut.msg] - NextOut.buf_offset) :
        \/ ResetWbuf(r.err, desc) /\ Goto(t, "check")
        \/ /\ Advance(r.n, 0)
           /\ \/ Goto(t, "check")
              \/ Goto(t, "file") /\ outgoing_mtx' = t
  BY DEF WriteHdr
<1>4. r.n \in Int
  BY <1>1, <1>2, FrontTypes, MsgTypes, ResultTypes
<1>5. CASE ResetWbuf(r.err, desc) /\ Goto(t, "check")
  BY <1>2, <1>5, InvReset
<1>6. CASE /\ Advance(r.n, 0)
           /\ \/ Goto(t, "check")
              \/ Goto(t, "file") /\ outgoing_mtx' = t
  <2>1. /\ QueueInv'
        /\ NextOut'.msg = NextOut.msg /\ wpending' # <<>> /\ wfiles' = wfiles
    BY <1>1, <1>2, <1>4, <1>6, AdvanceLinked DEF QueueInv
  <2>2. wfiles # <<>> /\ Head(wfiles) = file[NextOut.msg]
    BY <1>1, <1>2, FrontLinked DEF QueueInv
  <2>3. FrontIsFile'
    BY <1>2, <2>1, <2>2 DEF FrontIsFile
  <2>4. LockedParts'
    BY <1>1, <1>2, <1>6, <2>3, LockedStep DEF InLock
  <2>5. QED
    BY <1>2, <2>1, <2>4 DEF IInv
<1>7. QED
  BY <1>3, <1>5, <1>6

\* Write, a header that was sent before.
LEMMA InvWriteHdrDone ==
    ASSUME IInv, NEW t \in Threads, WriteHdrDone(t)
    PROVE  IInv'
<1>1. TypeOK /\ QueueInv /\ LockedParts
  BY DEF IInv
<1>2. /\ wpending # <<>> /\ storage[NextOut.msg] = "DISC"
      /\ outgoing_mtx = None /\ outgoing_mtx' = t /\ Goto(t, "file")
      /\ UNCHANGED <<queueVars, ioVars, whdrs, error, queued, dropped, stray, answered, ub>>
  BY DEF WriteHdrDone, Unlocked
<1>3. TypeOK'
  BY <1>1, <1>2, GotoTypes DEF TypeOK, PcTypes, queueVars, ioVars
<1>4. UNCHANGED <<wbuf, wbuf_size, wpending, wfiles>>
  BY <1>2 DEF queueVars
<1>5. wfiles # <<>> /\ Head(wfiles) = file[NextOut.msg]
  BY <1>1, <1>2, FrontLinked DEF QueueInv
<1>6. FrontIsFile'
  BY <1>2, <1>4, <1>5 DEF FrontIsFile, NextOut
<1>7. LockedParts'
  BY <1>1, <1>2, <1>6, LockedStep DEF InLock
<1>8. QED
  BY <1>1, <1>3, <1>4, <1>7, QueueStill DEF IInv

\* A thread in the file part of Write.
LEMMA InFilePart ==
    ASSUME IInv, NEW t \in Threads, pc[t] \in {"file", "chunk"}
    PROVE  /\ TypeOK /\ QueueInv /\ LockedParts /\ FrontIsFile
           /\ wpending # <<>> /\ wfiles # <<>> /\ outgoing_mtx = t
BY DEF IInv, LockedParts, FrontIsFile

\* Write, opening the file.
LEMMA InvWriteOpen ==
    ASSUME IInv, NEW t \in Threads, WriteOpen(t)
    PROVE  IInv'
<1>1. /\ TypeOK /\ QueueInv /\ LockedParts /\ FrontIsFile
      /\ wpending # <<>> /\ wfiles # <<>> /\ outgoing_mtx = t
  BY InFilePart DEF WriteOpen
<1>2. TypeOK'
  BY <1>1, TypeWriteOpen
<1>3. \/ \E own, d : ResetWbuf(own, d) /\ WriteReturn(t)
      \/ /\ Goto(t, "chunk")
         /\ UNCHANGED <<wbuf, wbuf_size, wpending, wfiles, outgoing_mtx>>
  BY DEF WriteOpen, queueVars
<1>4. CASE \E own, d : ResetWbuf(own, d) /\ WriteReturn(t)
  BY <1>1, <1>2, <1>4, InvReset DEF WriteReturn
<1>5. CASE /\ Goto(t, "chunk")
           /\ UNCHANGED <<wbuf, wbuf_size, wpending, wfiles, outgoing_mtx>>
  <2>1. FrontIsFile'
    BY <1>1, <1>5 DEF FrontIsFile, NextOut
  <2>2. LockedParts'
    BY <1>1, <1>5, <2>1, LockedStep DEF InLock
  <2>3. QED
    BY <1>1, <1>2, <1>5, <2>2, QueueStill DEF IInv
<1>6. QED
  BY <1>3, <1>4, <1>5

\* Write, a failed read(2).
LEMMA InvWriteReadFails ==
    ASSUME IInv, NEW t \in Threads, WriteReadFails(t)
    PROVE  IInv'
<1>1. TypeOK /\ outgoing_mtx = t
  BY InFilePart DEF WriteReadFails
<1>2. TypeOK'
  BY <1>1, TypeWriteReadFails
<1>3. QED
  BY <1>1, <1>2, InvReset DEF WriteReadFails, WriteReturn

\* Write, a chunk of the file.
LEMMA InvWriteChunk ==
    ASSUME IInv, NEW t \in Threads, WriteChunk(t)
    PROVE  IInv'
<1>1. /\ TypeOK /\ QueueInv /\ LockedParts
      /\ wpending # <<>> /\ wfiles # <<>> /\ outgoing_mtx = t
  BY InFilePart DEF WriteChunk
<1>2. TypeOK' /\ Goto(t, "check")
  BY <1>1, TypeWriteChunk DEF WriteChunk, WriteReturn
<1>3. PICK r \in SSLConn_Write(ChunkRead) :
        (\E d : ResetWbuf(r.err, d)) \/ Advance(0, r.n)
  BY DEF WriteChunk
<1>4. r.n \in Int
  BY <1>1, ChunkTypes, ResultTypes
<1>5. CASE \E d : ResetWbuf(r.err, d)
  BY <1>1, <1>2, <1>5, InvReset
<1>6. CASE Advance(0, r.n)
  <2>1. QueueInv'
    BY <1>1, <1>4, <1>6, AdvanceLinked DEF QueueInv
  <2>2. LockedParts'
    BY <1>1, <1>2, LockedStep DEF InLock
  <2>3. QED
    BY <1>2, <2>1, <2>2 DEF IInv
<1>7. QED
  BY <1>3, <1>5, <1>6

\* PopOutgoingMsgQueue.
LEMMA InvPop ==
    ASSUME IInv, NEW t \in Threads, Pop(t)
    PROVE  IInv'
<1>1. TypeOK /\ QueueInv /\ LockedParts
  BY DEF IInv
<1>2. wpending # <<>> /\ outgoing_mtx = None /\ Goto(t, "idle")
  BY DEF Pop, Unlocked
<1>3. /\ QueueInv'
      /\ wbuf' \in Seq(Bytes) /\ wpending' \in Seq(MsgInfos) /\ wfiles' \in Seq(Files)
  <2>1. IF storage[NextOut.msg] = "MEM" THEN wfiles' = wfiles ELSE wfiles' = Tail(wfiles)
    BY DEF Pop
  <2>2. QED
    BY <1>1, <1>2, <2>1, PopLinked DEF Pop, QueueInv
<1>4. desc' \in [Files -> [open : BOOLEAN, pos : Nat]]
  <2>1. desc \in [Files -> [open : BOOLEAN, pos : Nat]]
    BY <1>1 DEF TypeOK
  <2>2. ClosedDesc \in [open : BOOLEAN, pos : Nat]
    BY DEF ClosedDesc
  <2>3. \/ desc' = desc
        \/ desc' = [desc EXCEPT ![Head(wfiles)] = ClosedDesc]
    BY DEF Pop
  <2>4. QED
    BY <2>1, <2>2, <2>3
<1>5. pc' \in PcTypes
  BY <1>1, <1>2, GotoTypes
<1>6. TypeOK'
  BY <1>1, <1>3, <1>4, <1>5 DEF Pop, TypeOK, PcTypes, ioVars
<1>7. LockedParts'
  BY <1>1, <1>2, LockedStep DEF InLock
<1>8. QED
  BY <1>3, <1>6, <1>7 DEF IInv

\* A sequence without one of its elements.
LEMMA RemoveAtTypes ==
    ASSUME NEW S, NEW s \in Seq(S), NEW i \in 1 .. Len(s)
    PROVE  RemoveAt(s, i) \in Seq(S)
<1>1. /\ \A j \in 1 .. i - 1 : s[j] \in S
      /\ \A j \in i + 1 .. Len(s) : s[j] \in S
  OBVIOUS
<1>2. i - 1 \in Int /\ i + 1 \in Int /\ Len(s) \in Int
  OBVIOUS
<1>3. SubSeq(s, 1, i - 1) \in Seq(S) /\ SubSeq(s, i + 1, Len(s)) \in Seq(S)
  BY <1>1, <1>2, SubSeqProperties
<1>4. QED
  BY <1>3, ConcatProperties DEF RemoveAt

\* delete_whdr.
LEMMA InvDeleteWhdr ==
    ASSUME IInv, NEW t \in Threads, NEW m \in Requests, DeleteWhdr(t, m)
    PROVE  IInv'
<1>1. TypeOK /\ QueueInv /\ LockedParts
  BY DEF IInv
<1>2. whdrs' \in Seq(Msgs)
  <2>1. whdrs \in Seq(Msgs)
    BY <1>1 DEF TypeOK
  <2>2. PICK i \in DOMAIN whdrs : whdrs' = RemoveAt(whdrs, i)
    BY DEF DeleteWhdr
  <2>3. QED
    BY <2>1, <2>2, RemoveAtTypes
<1>3. TypeOK'
  BY <1>1, <1>2, StorageAssumption DEF DeleteWhdr, TypeOK, queueVars, ioVars
<1>4. QED
  BY <1>1, <1>3, QueueStill, LockedStill DEF DeleteWhdr, IInv, queueVars, ioVars

\* The steps that only test the queue and move the thread on.
LEMMA InvTests ==
    ASSUME IInv, NEW t \in Threads,
           \/ WriteReject(t) \/ WriteCall(t) \/ FrontOfEmpty(t)
           \/ CheckSent(t) \/ PopCall(t) \/ ClearError(t)
    PROVE  IInv'
<1>1. TypeOK /\ QueueInv /\ LockedParts
  BY DEF IInv
<1>2. UNCHANGED <<wbuf, wbuf_size, wpending, wfiles>>
  BY DEF WriteReject, WriteCall, FrontOfEmpty, CheckSent, PopCall, ClearError, queueVars
<1>3. QueueInv'
  BY <1>1, <1>2, QueueStill
<1>4. CASE WriteReject(t) \/ ClearError(t)
  <2>1. TypeOK'
    BY <1>1, <1>4 DEF WriteReject, ClearError, TypeOK, queueVars, ioVars
  <2>2. LockedParts'
    BY <1>1, <1>4, LockedStill DEF WriteReject, ClearError, queueVars
  <2>3. QED
    BY <1>3, <2>1, <2>2 DEF IInv
<1>5. CASE WriteCall(t)
  <2>1. TypeOK'
    BY <1>1, <1>5, GotoTypes DEF WriteCall, TypeOK, PcTypes, queueVars, ioVars
  <2>2. LockedParts'
    BY <1>1, <1>2, <1>5, LockedQuiet DEF WriteCall, InLock
  <2>3. QED
    BY <1>3, <2>1, <2>2 DEF IInv
<1>6. CASE FrontOfEmpty(t)
  <2>1. TypeOK'
    BY <1>1, <1>6, GotoTypes DEF FrontOfEmpty, TypeOK, PcTypes, queueVars, ioVars
  <2>2. LockedParts'
    BY <1>1, <1>6, LockedStep DEF FrontOfEmpty, Unlocked, InLock
  <2>3. QED
    BY <1>3, <2>1, <2>2 DEF IInv
<1>7. CASE CheckSent(t)
  <2>1. Goto(t, "popcall") \/ Goto(t, "idle")
    BY <1>7 DEF CheckSent
  <2>2. TypeOK'
    BY <1>1, <1>7, <2>1, GotoTypes DEF CheckSent, TypeOK, PcTypes, queueVars, ioVars
  <2>3. LockedParts'
    BY <1>1, <1>2, <1>7, <2>1, LockedQuiet DEF CheckSent, InLock
  <2>4. QED
    BY <1>3, <2>2, <2>3 DEF IInv
<1>8. CASE PopCall(t)
  <2>1. (Goto(t, "pop") /\ error' = error) \/ (Goto(t, "idle") /\ error' = TRUE)
    BY <1>8 DEF PopCall
  <2>2. TypeOK'
    BY <1>1, <1>8, <2>1, GotoTypes DEF PopCall, TypeOK, PcTypes, queueVars, ioVars
  <2>3. LockedParts'
    BY <1>1, <1>2, <1>8, <2>1, LockedQuiet DEF PopCall, InLock
  <2>4. QED
    BY <1>3, <2>2, <2>3 DEF IInv
<1>9. QED
  BY <1>4, <1>5, <1>6, <1>7, <1>8

\* All that an event loop does.
LEMMA InvConsume ==
    ASSUME IInv, NEW t \in Consumers, Consume(t)
    PROVE  IInv'
<1>1. t \in Threads
  BY DEF Threads
<1>2. CASE \E m \in Requests : DeleteWhdr(t, m)
  BY <1>1, <1>2, InvDeleteWhdr
<1>3. QED
  BY <1>1, <1>2, InvTests, InvWriteMem, InvWriteHdr, InvWriteHdrDone, InvWriteOpen,
     InvWriteReadFails, InvWriteChunk, InvPop
  DEF Consume

\* A step that changes nothing.
LEMMA InvStutter ==
    ASSUME IInv, UNCHANGED vars
    PROVE  IInv'
<1>1. TypeOK'
  BY DEF IInv, TypeOK, vars
<1>2. QueueInv' /\ LockedParts'
  BY QueueStill, LockedStill DEF IInv, vars
<1>3. QED
  BY <1>1, <1>2 DEF IInv

\* Every step keeps the invariant.
LEMMA InvNext == IInv /\ [Next]_vars => IInv'
<1> SUFFICES ASSUME IInv, [Next]_vars PROVE IInv'
  OBVIOUS
<1>1. ASSUME NEW t \in Threads, ClearError(t) PROVE IInv'
  BY <1>1, InvTests
<1>2. QED
  BY <1>1, InvProduce, InvConsume, InvStutter DEF Next

\* All the invariants at once, for any number of threads of either kind.
LEMMA Invariant == Spec => []IInv
BY InvInit, InvNext, PTL DEF Spec

\* Every variable keeps its type, whatever the callers, the transport and the
\* threads do: what TCPSession.cc keeps in its containers is well formed.
THEOREM TypeCorrect == Spec => []TypeOK
<1>1. IInv => TypeOK
  BY DEF IInv
<1>2. QED
  BY <1>1, Invariant, PTL

\* The bytes in wbuf_ are those of the pending messages, in order, at all
\* times: PopOutgoingMsgQueue's memmove never cuts another message.
THEOREM BufferStaysLinked == Spec => []BufferLinked
<1>1. IInv => BufferLinked
  BY DEF IInv, QueueInv
<1>2. QED
  BY <1>1, Invariant, PTL

\* wfiles_ holds the files of the pending messages, in order, at all times:
\* Write never sends the file of another message.
THEOREM FilesStayLinked == Spec => []FilesLinked
<1>1. IInv => FilesLinked
  BY DEF IInv, QueueInv
<1>2. QED
  BY <1>1, Invariant, PTL

\* memcpy() into wbuf_ stays inside what realloc() gave.
THEOREM BufferAlwaysFits == Spec => []BufferFits
<1>1. IInv => BufferFits
  BY DEF IInv, QueueInv
<1>2. QED
  BY <1>1, Invariant, PTL

\* outgoing_mtx excludes: at most one thread is in the locked part of a call,
\* and Write's file part finds there the message whose header it has sent.
THEOREM LockExcludes == Spec => []LockedParts
<1>1. IInv => LockedParts
  BY DEF IInv
<1>2. QED
  BY <1>1, Invariant, PTL

-----------------------------------------------------------------------------
(* One event loop *)

\* The check of wpending_.size() before the lock is enough when one thread only
\* removes messages: what it saw cannot go away before it has the lock.
SeenPending ==
    /\ ~ub
    /\ \A t \in Threads :
          /\ pc[t] \in {"idle", "addwait", "add"} \/ t \in Consumers
          /\ pc[t] \in {"write", "pop"} => wpending # <<>>

\* A consumer that saw a queue still finds one after a step that keeps it.
LEMMA SeenPendingStep ==
    ASSUME TypeOK, SeenPending, NEW t \in Threads, NEW where, Goto(t, where), ub' = ub,
           where \in {"idle", "addwait", "add"} \/ t \in Consumers,
           where \in {"write", "pop"} => wpending' # <<>>,
           \A u \in Threads \ {t} : pc[u] \in {"write", "pop"} => wpending' # <<>>
    PROVE  SeenPending'
<1>1. \A u \in Threads : pc'[u] = IF u = t THEN where ELSE pc[u]
  BY DEF Goto, TypeOK
<1>2. ~ub'
  BY DEF SeenPending
<1>3. ASSUME NEW u \in Threads
      PROVE  /\ pc'[u] \in {"idle", "addwait", "add"} \/ u \in Consumers
             /\ pc'[u] \in {"write", "pop"} => wpending' # <<>>
  BY <1>1 DEF SeenPending
<1>4. QED
  BY <1>2, <1>3 DEF SeenPending

\* So it does after a step that changes neither the queue nor a thread.
LEMMA SeenPendingStill ==
    ASSUME SeenPending, UNCHANGED <<pc, wpending, ub>>
    PROVE  SeenPending'
BY DEF SeenPending

\* Producers only make the queue longer.
LEMMA SeenPendingProduce ==
    ASSUME IInv, SeenPending, NEW t \in Producers, Produce(t)
    PROVE  SeenPending'
<1>0. t \in Threads /\ TypeOK
  BY DEF Threads, IInv
<1>1. CASE AddReject(t)
  BY <1>1, SeenPendingStill DEF AddReject, queueVars
<1>2. CASE UNCHANGED wpending /\ UNCHANGED ub
           /\ (Goto(t, "addwait") \/ Goto(t, "add") \/ Goto(t, "idle"))
  BY <1>0, <1>2, SeenPendingStep DEF SeenPending
<1>3. CASE AddCall(t) \/ AddLock(t) \/ AddNoMemory(t)
  BY <1>2, <1>3 DEF AddCall, AddLock, AddNoMemory, AddReturn, queueVars
<1>4. ASSUME NEW m \in Msgs, AddMsg(t, m)
      PROVE  SeenPending'
  <2>1. wpending' # <<>>
    <3>1. wpending \in Seq(MsgInfos) /\ MsgInfo(m, 0, 0) \in MsgInfos
      BY <1>0, MsgInfoTypes DEF TypeOK
    <3>2. QED
      BY <1>4, <3>1, AppendProperties DEF AddMsg
  <2>2. Goto(t, "idle") /\ ub' = ub
    BY <1>4 DEF AddMsg, AddReturn
  <2>3. QED
    BY <1>0, <2>1, <2>2, SeenPendingStep
<1>5. QED
  BY <1>1, <1>3, <1>4 DEF Produce, AddMsgBuf, AddMsgFile

\* The only consumer makes it shorter itself.
LEMMA SeenPendingConsume ==
    ASSUME IInv, SeenPending, NEW t \in Consumers, Consume(t),
           \A a, b \in Consumers : a = b
    PROVE  SeenPending'
<1>0. t \in Threads /\ TypeOK
  BY DEF Threads, IInv
<1>1. \A u \in Threads \ {t} : pc[u] \notin {"write", "pop"}
  BY DEF SeenPending
<1>2. ASSUME NEW where, Goto(t, where), ub' = ub, where \notin {"write", "pop"}
      PROVE  SeenPending'
  BY <1>0, <1>1, <1>2, SeenPendingStep
<1>3. CASE WriteReject(t) \/ \E m \in Requests : DeleteWhdr(t, m)
  BY <1>3, SeenPendingStill DEF WriteReject, DeleteWhdr, queueVars
<1>4. CASE WriteCall(t)
  BY <1>0, <1>1, <1>4, SeenPendingStep DEF WriteCall, queueVars
<1>5. CASE FrontOfEmpty(t)
  BY <1>0, <1>5 DEF FrontOfEmpty, Unlocked, SeenPending
<1>6. ub' = ub \/ FrontOfEmpty(t)
  BY DEF Consume, WriteReject, WriteCall, WriteMem, WriteHdr, WriteHdrDone, WriteOpen,
     WriteReadFails, WriteChunk, CheckSent, PopCall, Pop, DeleteWhdr, ResetWbuf, Advance
<1>7. CASE PopCall(t)
  <2>1. \/ wpending # <<>> /\ Goto(t, "pop")
        \/ Goto(t, "idle")
    BY <1>7 DEF PopCall
  <2>2. wpending' = wpending /\ ub' = ub
    BY <1>7 DEF PopCall, queueVars
  <2>3. CASE Goto(t, "idle")
    BY <1>2, <2>2, <2>3
  <2>4. CASE wpending # <<>> /\ Goto(t, "pop")
    BY <1>0, <1>1, <2>2, <2>4, SeenPendingStep
  <2>5. QED
    BY <2>1, <2>3, <2>4
<1>8. CASE \/ WriteMem(t) \/ WriteHdr(t) \/ WriteHdrDone(t) \/ WriteOpen(t)
           \/ WriteReadFails(t) \/ WriteChunk(t) \/ CheckSent(t) \/ Pop(t)
  <2>1. \/ Goto(t, "check") \/ Goto(t, "file") \/ Goto(t, "chunk")
        \/ Goto(t, "popcall") \/ Goto(t, "idle")
    BY <1>8 DEF WriteMem, WriteHdr, WriteHdrDone, WriteOpen, WriteReadFails,
       WriteChunk, WriteReturn, CheckSent, Pop
  <2>2. QED
    BY <1>2, <1>5, <1>6, <2>1
<1>9. QED
  BY <1>3, <1>4, <1>5, <1>7, <1>8 DEF Consume

\* With one event loop, and any number of threads that add messages, no call
\* takes the front of an empty queue: the check that Write and
\* PopOutgoingMsgQueue make before they have the lock is then enough.
THEOREM OneConsumerIsSafe ==
    ASSUME \A a, b \in Consumers : a = b
    PROVE  Spec => []NeverFrontOfEmpty
<1>1. Init => SeenPending
  BY DEF Init, SeenPending
<1>2. IInv /\ SeenPending /\ [Next]_vars => SeenPending'
  <2> SUFFICES ASSUME IInv, SeenPending, [Next]_vars PROVE SeenPending'
    OBVIOUS
  <2>1. ASSUME NEW t \in Threads, ClearError(t) PROVE SeenPending'
    BY <2>1, SeenPendingStill DEF ClearError, queueVars
  <2>2. CASE UNCHANGED vars
    BY <2>2, SeenPendingStill DEF vars
  <2>3. QED
    BY <2>1, <2>2, SeenPendingProduce, SeenPendingConsume DEF Next
<1>3. SeenPending => NeverFrontOfEmpty
  BY DEF SeenPending, NeverFrontOfEmpty
<1>4. QED
  BY <1>1, <1>2, <1>3, Invariant, PTL DEF Spec

-----------------------------------------------------------------------------
(* The headers of requests that have no answer yet are archived *)

\* A sequence without its i-th element.
LEMMA RemoveAtElements ==
    ASSUME NEW S, NEW s \in Seq(S), NEW i \in 1 .. Len(s)
    PROVE  /\ DOMAIN RemoveAt(s, i) = 1 .. Len(s) - 1
           /\ \A k \in 1 .. Len(s) - 1 :
                RemoveAt(s, i)[k] = IF k < i THEN s[k] ELSE s[k + 1]
<1> DEFINE a == SubSeq(s, 1, i - 1)
           b == SubSeq(s, i + 1, Len(s))
<1>1. Len(s) \in Nat /\ i \in Nat
  OBVIOUS
<1>2. /\ a \in Seq(S) /\ Len(a) = i - 1
      /\ \A k \in 1 .. i - 1 : a[k] = s[k]
  BY <1>1, SubSeqProperties
<1>3. /\ b \in Seq(S) /\ Len(b) = Len(s) - i
      /\ \A k \in 1 .. Len(s) - i : b[k] = s[i + k]
  <2>1. i + 1 \in 1 .. Len(s) + 1 /\ Len(s) \in (i + 1) - 1 .. Len(s)
    BY <1>1
  <2>2. /\ b \in Seq(S)
        /\ Len(b) = IF i + 1 <= Len(s) THEN Len(s) - (i + 1) + 1 ELSE 0
        /\ \A k \in 1 .. Len(s) - (i + 1) + 1 : b[k] = s[(i + 1) + k - 1]
    BY <2>1, SubSeqProperties
  <2>3. \A k \in 1 .. Len(s) - i : k \in 1 .. Len(s) - (i + 1) + 1 /\ (i + 1) + k - 1 = i + k
    BY <1>1
  <2>4. Len(b) = Len(s) - i
    BY <1>1, <2>2
  <2>5. QED
    BY <2>2, <2>3, <2>4
<1> HIDE DEF a, b
<1>4. /\ a \o b \in Seq(S) /\ Len(a \o b) = Len(s) - 1
      /\ \A k \in 1 .. Len(s) - 1 : (a \o b)[k] = IF k <= i - 1 THEN a[k] ELSE b[k - (i - 1)]
  <2>1. /\ a \o b \in Seq(S) /\ Len(a \o b) = Len(a) + Len(b)
        /\ \A k \in 1 .. Len(a) + Len(b) :
             (a \o b)[k] = IF k <= Len(a) THEN a[k] ELSE b[k - Len(a)]
    BY <1>2, <1>3, ConcatProperties
  <2>2. Len(a) + Len(b) = Len(s) - 1
    BY <1>1, <1>2, <1>3
  <2>3. QED
    BY <1>2, <2>1, <2>2
<1>5. ASSUME NEW k \in 1 .. Len(s) - 1
      PROVE  (a \o b)[k] = IF k < i THEN s[k] ELSE s[k + 1]
  <2>1. CASE k < i
    BY <1>1, <1>2, <1>4, <2>1
  <2>2. CASE ~(k < i)
    <3>1. k - (i - 1) \in 1 .. Len(s) - i /\ i + (k - (i - 1)) = k + 1 /\ ~(k <= i - 1)
      BY <1>1, <2>2
    <3>2. (a \o b)[k] = b[k - (i - 1)] /\ b[k - (i - 1)] = s[i + (k - (i - 1))]
      BY <1>3, <1>4, <3>1
    <3>3. QED
      BY <2>2, <3>1, <3>2
  <2>3. QED
    BY <2>1, <2>2
<1>6. RemoveAt(s, i) = a \o b
  BY DEF RemoveAt, a, b
<1>7. DOMAIN (a \o b) = 1 .. Len(s) - 1
  BY <1>4
<1>8. QED
  BY <1>5, <1>6, <1>7

\* What was removed occurs no more, and all else does once, if each did.
LEMMA RemoveAtOnce ==
    ASSUME NEW S, NEW s \in Seq(S), NEW i \in 1 .. Len(s), IsInjective(s)
    PROVE  /\ Range(RemoveAt(s, i)) = Range(s) \ {s[i]}
           /\ IsInjective(RemoveAt(s, i))
<1> DEFINE r == RemoveAt(s, i)
<1>1. /\ Len(s) \in Nat /\ i \in Nat /\ DOMAIN s = 1 .. Len(s)
      /\ DOMAIN r = 1 .. Len(s) - 1
      /\ \A k \in 1 .. Len(s) - 1 : r[k] = IF k < i THEN s[k] ELSE s[k + 1]
  BY RemoveAtElements
<1>2. \A j, k \in 1 .. Len(s) : s[j] = s[k] => j = k
  BY <1>1 DEF IsInjective
<1> HIDE DEF r
<1>3. ASSUME NEW k \in DOMAIN r PROVE r[k] \in Range(s) \ {s[i]}
  <2>1. CASE k < i
    <3>1. k \in 1 .. Len(s) /\ r[k] = s[k] /\ k # i
      BY <1>1, <2>1
    <3>2. QED
      BY <1>1, <1>2, <3>1 DEF Range
  <2>2. CASE ~(k < i)
    <3>1. k + 1 \in 1 .. Len(s) /\ r[k] = s[k + 1] /\ k + 1 # i
      BY <1>1, <2>2
    <3>2. QED
      BY <1>1, <1>2, <3>1 DEF Range
  <2>3. QED
    BY <2>1, <2>2
<1>4. ASSUME NEW k \in 1 .. Len(s), k # i PROVE s[k] \in Range(r)
  <2>1. CASE k < i
    <3>1. k \in DOMAIN r /\ r[k] = s[k]
      BY <1>1, <2>1
    <3>2. QED
      BY <3>1 DEF Range
  <2>2. CASE k > i
    <3>1. k - 1 \in DOMAIN r /\ ~(k - 1 < i) /\ (k - 1) + 1 = k
      BY <1>1, <2>2
    <3>2. r[k - 1] = s[k]
      BY <1>1, <3>1
    <3>3. QED
      BY <3>1, <3>2 DEF Range
  <2>3. QED
    BY <1>1, <1>4, <2>1, <2>2
<1>5. Range(r) = Range(s) \ {s[i]}
  <2>1. \A x \in Range(s) : \E k \in 1 .. Len(s) : x = s[k]
    BY <1>1 DEF Range
  <2>2. \A x \in Range(r) : \E k \in DOMAIN r : x = r[k]
    BY DEF Range
  <2>3. QED
    BY <1>3, <1>4, <2>1, <2>2
<1>6. ASSUME NEW j \in DOMAIN r, NEW k \in DOMAIN r, r[j] = r[k] PROVE j = k
  <2> DEFINE at(n) == IF n < i THEN n ELSE n + 1
  <2>1. /\ at(j) \in 1 .. Len(s) /\ at(k) \in 1 .. Len(s)
        /\ r[j] = s[at(j)] /\ r[k] = s[at(k)]
    BY <1>1
  <2>2. at(j) = at(k)
    BY <1>2, <1>6, <2>1
  <2>3. QED
    BY <1>1, <2>2
<1>7. IsInjective(r)
  BY <1>6 DEF IsInjective
<1>8. QED
  BY <1>5, <1>7 DEF r

LEMMA AppendOnce ==
    ASSUME NEW S, NEW s \in Seq(S), NEW x \in S
    PROVE  /\ Range(Append(s, x)) = Range(s) \cup {x}
           /\ IsInjective(s) /\ x \notin Range(s) => IsInjective(Append(s, x))
<1> DEFINE r == Append(s, x)
<1>1. /\ Len(s) \in Nat /\ DOMAIN s = 1 .. Len(s) /\ DOMAIN r = 1 .. Len(s) + 1
      /\ \A k \in 1 .. Len(s) : r[k] = s[k]
      /\ r[Len(s) + 1] = x
  OBVIOUS
<1>2. \A k \in DOMAIN r : k \in DOMAIN s \/ k = Len(s) + 1
  BY <1>1
<1> HIDE DEF r
<1>3. Range(r) = Range(s) \cup {x}
  <2>1. \A k \in DOMAIN r : r[k] \in Range(s) \cup {x}
    BY <1>1, <1>2 DEF Range
  <2>2. \A k \in DOMAIN s : s[k] \in Range(r)
    <3>1. \A k \in DOMAIN s : k \in DOMAIN r /\ s[k] = r[k]
      BY <1>1
    <3>2. QED
      BY <3>1 DEF Range
  <2>3. x \in Range(r)
    <3>1. Len(s) + 1 \in DOMAIN r
      BY <1>1
    <3>2. QED
      BY <1>1, <3>1 DEF Range
  <2>4. QED
    BY <2>1, <2>2, <2>3 DEF Range
<1>4. ASSUME IsInjective(s), x \notin Range(s) PROVE IsInjective(r)
  <2>1. \A j, k \in DOMAIN s : s[j] = s[k] => j = k
    BY <1>4 DEF IsInjective
  <2>2. \A k \in DOMAIN s : s[k] # x
    BY <1>4 DEF Range
  <2>3. \A j, k \in DOMAIN r : r[j] = r[k] => j = k
    BY <1>1, <1>2, <2>1, <2>2
  <2>4. QED
    BY <2>3 DEF IsInjective
<1>5. QED
  BY <1>3, <1>4 DEF r

\* A response is to a request that was queued.
Matched == ResponseMatchable /\ answered \subseteq Range(queued)

\* Only AddMsgBuf, AddMsgFile and delete_whdr touch the archive: not Write,
\* PopOutgoingMsgQueue or ResetWbuf.
LEMMA ArchiveKept ==
    ASSUME NEW t \in Threads,
           \/ AddReject(t) \/ AddCall(t) \/ AddLock(t) \/ AddNoMemory(t)
           \/ WriteReject(t) \/ WriteCall(t) \/ FrontOfEmpty(t)
           \/ WriteMem(t) \/ WriteHdr(t) \/ WriteHdrDone(t)
           \/ WriteOpen(t) \/ WriteReadFails(t) \/ WriteChunk(t)
           \/ CheckSent(t) \/ PopCall(t) \/ Pop(t) \/ ClearError(t)
    PROVE  UNCHANGED <<whdrs, queued, answered>>
<1>1. CASE AddReject(t) \/ AddCall(t) \/ AddLock(t) \/ AddNoMemory(t)
  BY <1>1 DEF AddReject, AddCall, AddLock, AddNoMemory, AddReturn
<1>2. CASE WriteReject(t) \/ WriteCall(t) \/ FrontOfEmpty(t) \/ WriteHdrDone(t)
  BY <1>2 DEF WriteReject, WriteCall, FrontOfEmpty, WriteHdrDone
<1>3. CASE WriteMem(t) \/ WriteHdr(t)
  BY <1>3 DEF WriteMem, WriteHdr, ResetWbuf, Advance
<1>4. CASE WriteOpen(t) \/ WriteReadFails(t) \/ WriteChunk(t)
  BY <1>4 DEF WriteOpen, WriteReadFails, WriteChunk, ResetWbuf, Advance
<1>5. CASE CheckSent(t) \/ PopCall(t) \/ Pop(t) \/ ClearError(t)
  BY <1>5 DEF CheckSent, PopCall, Pop, ClearError
<1>6. QED
  BY <1>1, <1>2, <1>3, <1>4, <1>5

LEMMA MatchedStill ==
    ASSUME Matched, UNCHANGED <<whdrs, queued, answered>>
    PROVE  Matched'
BY DEF Matched, ResponseMatchable

\* A request's header goes to the archive as the request goes to the queue.
LEMMA MatchedAdd ==
    ASSUME TypeOK, Matched, NEW t \in Threads, NEW m \in Msgs, AddMsg(t, m)
    PROVE  Matched'
<1>1. /\ whdrs \in Seq(Msgs) /\ queued \in Seq(Msgs) /\ m \notin Range(queued)
      /\ queued' = Append(queued, m) /\ answered' = answered
      /\ whdrs' = IF m \in Requests THEN Append(whdrs, m) ELSE whdrs
  BY DEF TypeOK, AddMsg, AddReturn
<1>2. /\ Range(whdrs) = (Range(queued) \cap Requests) \ answered
      /\ IsInjective(whdrs) /\ answered \subseteq Range(queued)
  BY DEF Matched, ResponseMatchable
<1>3. Range(queued') = Range(queued) \cup {m}
  BY <1>1, AppendOnce
<1>4. m \notin Range(whdrs) /\ m \notin answered
  BY <1>1, <1>2
<1>5. Range(whdrs') = (Range(queued') \cap Requests) \ answered' /\ IsInjective(whdrs')
  <2>1. CASE m \in Requests
    <3>1. Range(whdrs') = Range(whdrs) \cup {m} /\ IsInjective(whdrs')
      BY <1>1, <1>2, <1>4, <2>1, AppendOnce
    <3>2. QED
      BY <1>1, <1>2, <1>3, <1>4, <2>1, <3>1
  <2>2. CASE m \notin Requests
    BY <1>1, <1>2, <1>3, <2>2
  <2>3. QED
    BY <2>1, <2>2
<1>6. QED
  BY <1>1, <1>2, <1>3, <1>5 DEF Matched, ResponseMatchable

\* delete_whdr takes away the one header that it looked for.
LEMMA MatchedDeleteWhdr ==
    ASSUME TypeOK, Matched, NEW t \in Threads, NEW m \in Requests, DeleteWhdr(t, m)
    PROVE  Matched'
<1>1. /\ whdrs \in Seq(Msgs) /\ queued' = queued /\ answered' = answered \cup {m}
  BY DEF TypeOK, DeleteWhdr
<1>2. PICK i \in 1 .. Len(whdrs) : whdrs[i] = m /\ whdrs' = RemoveAt(whdrs, i)
  BY <1>1 DEF DeleteWhdr
<1>3. /\ Range(whdrs) = (Range(queued) \cap Requests) \ answered
      /\ IsInjective(whdrs) /\ answered \subseteq Range(queued)
  BY DEF Matched, ResponseMatchable
<1>4. Range(whdrs') = Range(whdrs) \ {m} /\ IsInjective(whdrs')
  BY <1>1, <1>2, <1>3, RemoveAtOnce
<1>5. m \in Range(whdrs)
  BY <1>1, <1>2 DEF Range
<1>6. QED
  BY <1>1, <1>3, <1>4, <1>5 DEF Matched, ResponseMatchable

\* whdrs_ holds the headers of the requests that were queued and not answered,
\* each once, with any number of threads and over any transport: what happened
\* to the requests themselves, sent, popped or discarded, does not matter
\* (TCPSession.cc:523-526, 1083, 1261).
THEOREM RequestsStayMatchable == Spec => []ResponseMatchable
<1>1. Init => Matched
  <2> SUFFICES ASSUME Init PROVE Matched
    OBVIOUS
  <2>1. whdrs = <<>> /\ queued = <<>> /\ answered = {}
    BY DEF Init
  <2>2. DOMAIN <<>> = {}
    BY EmptySeq
  <2>3. QED
    BY <2>1, <2>2 DEF Matched, ResponseMatchable, Range, IsInjective
<1>2. IInv /\ Matched /\ [Next]_vars => Matched'
  <2> SUFFICES ASSUME IInv, Matched, [Next]_vars PROVE Matched'
    OBVIOUS
  <2>1. TypeOK
    BY DEF IInv
  <2>2. ASSUME NEW t \in Producers, Produce(t) PROVE Matched'
    <3>1. t \in Threads
      BY DEF Threads
    <3>2. CASE AddReject(t) \/ AddCall(t) \/ AddLock(t) \/ AddNoMemory(t)
      BY <3>1, <3>2, ArchiveKept, MatchedStill
    <3>3. ASSUME NEW m \in Msgs, AddMsgBuf(t, m) \/ AddMsgFile(t, m) PROVE Matched'
      BY <2>1, <3>1, <3>3, MatchedAdd DEF AddMsgBuf, AddMsgFile
    <3>4. QED
      BY <2>2, <3>2, <3>3 DEF Produce
  <2>3. ASSUME NEW t \in Consumers, Consume(t) PROVE Matched'
    <3>1. t \in Threads
      BY DEF Threads
    <3>2. CASE \E m \in Requests : DeleteWhdr(t, m)
      BY <2>1, <3>1, <3>2, MatchedDeleteWhdr
    <3>3. CASE ~\E m \in Requests : DeleteWhdr(t, m)
      BY <2>3, <3>1, <3>3, ArchiveKept, MatchedStill DEF Consume
    <3>4. QED
      BY <3>2, <3>3
  <2>4. ASSUME NEW t \in Threads, ClearError(t) PROVE Matched'
    BY <2>4, ArchiveKept, MatchedStill
  <2>5. CASE UNCHANGED vars
    BY <2>5, MatchedStill DEF vars
  <2>6. QED
    BY <2>2, <2>3, <2>4, <2>5 DEF Next
<1>3. Matched => ResponseMatchable
  BY DEF Matched
<1>4. QED
  BY <1>1, <1>2, <1>3, Invariant, PTL DEF Spec
=============================================================================

------------------------- MODULE TCPSessionInProofs -------------------------
(***************************************************************************)
(* Proofs about TCPSessionIn, for any messages, threads, sizes, failures   *)
(* and loops.                                                              *)
(***************************************************************************)
EXTENDS TCPSessionIn, SequenceTheorems, TLAPS

-----------------------------------------------------------------------------
(* What the peer sends *)

\* Lengths are naturals.
LEMMA StreamTypes ==
    /\ Sent \in Nat
    /\ \A i \in 1 .. N : /\ at[i] \in Nat
                         /\ hdr_len[i] \in Nat
                         /\ body_len(i) \in Nat
<1>1. N \in Nat /\ at \in [1 .. N + 1 -> Nat] /\ hdr_len \in [1 .. N -> Nat \ {0}]
  BY StreamAssumption DEF StreamAssumption
<1>2. \A i \in 1 .. N : at[i] + hdr_len[i] <= at[i + 1]
  BY StreamAssumption DEF StreamAssumption
<1>3. Sent \in Nat
  BY <1>1 DEF Sent
<1>4. ASSUME NEW i \in 1 .. N
      PROVE  at[i] \in Nat /\ hdr_len[i] \in Nat /\ body_len(i) \in Nat
  <2>1. i \in 1 .. N + 1 /\ i + 1 \in 1 .. N + 1
    BY <1>1
  <2>2. at[i] \in Nat /\ at[i + 1] \in Nat /\ hdr_len[i] \in Nat
    BY <1>1, <2>1
  <2>3. QED
    BY <1>2, <2>2 DEF body_len, body_at
<1>5. QED
  BY <1>3, <1>4

\* Bytes a + 1 .. b are a sequence of b - a bytes of the stream.
LEMMA BytesTypes ==
    ASSUME NEW n \in Nat, NEW a \in Nat, NEW b \in 0 .. n, a <= b
    PROVE  Bytes(a, b) \in Seq(1 .. n) /\ Len(Bytes(a, b)) = b - a
<1>1. b - a \in Nat /\ \A k \in 1 .. b - a : a + k \in 1 .. n
  OBVIOUS
<1>2. Bytes(a, b) \in [1 .. b - a -> 1 .. n]
  BY <1>1 DEF Bytes
<1>3. Bytes(a, b) \in Seq(1 .. n)
  BY <1>1, <1>2, SeqDef
<1>4. QED
  BY <1>1, <1>2, <1>3, LenProperties

\* Adjacent intervals of the stream make one.
LEMMA BytesConcat ==
    ASSUME NEW a \in Nat, NEW b \in Nat, NEW c \in Nat, a <= b, b <= c
    PROVE  Bytes(a, b) \o Bytes(b, c) = Bytes(a, c)
<1> DEFINE s == Bytes(a, b)
           t == Bytes(b, c)
           u == Bytes(a, c)
<1>1. /\ s \in Seq(1 .. c) /\ Len(s) = b - a
      /\ t \in Seq(1 .. c) /\ Len(t) = c - b
      /\ u \in Seq(1 .. c) /\ Len(u) = c - a
  <2>1. b \in 0 .. c /\ c \in 0 .. c /\ a <= c
    OBVIOUS
  <2>2. s \in Seq(1 .. c) /\ Len(s) = b - a
    BY <2>1, BytesTypes
  <2>3. t \in Seq(1 .. c) /\ Len(t) = c - b
    BY <2>1, BytesTypes
  <2>4. u \in Seq(1 .. c) /\ Len(u) = c - a
    BY <2>1, BytesTypes
  <2>5. QED
    BY <2>2, <2>3, <2>4
<1>2. /\ \A k \in 1 .. b - a : s[k] = a + k
      /\ \A k \in 1 .. c - b : t[k] = b + k
      /\ \A k \in 1 .. c - a : u[k] = a + k
  BY DEF Bytes
<1> HIDE DEF s, t, u
<1>3. /\ s \o t \in Seq(1 .. c) /\ Len(s \o t) = Len(s) + Len(t)
      /\ \A k \in 1 .. Len(s) + Len(t) :
            (s \o t)[k] = IF k <= Len(s) THEN s[k] ELSE t[k - Len(s)]
  BY <1>1, ConcatProperties
<1>4. Len(s) + Len(t) = c - a
  BY <1>1
<1>5. ASSUME NEW k \in 1 .. c - a
      PROVE  (s \o t)[k] = u[k]
  <2>1. (s \o t)[k] = IF k <= Len(s) THEN s[k] ELSE t[k - Len(s)]
    BY <1>3, <1>4
  <2>2. CASE k <= b - a
    BY <1>1, <1>2, <2>1, <2>2
  <2>3. CASE ~(k <= b - a)
    <3>1. k - (b - a) \in 1 .. c - b /\ b + (k - (b - a)) = a + k
      BY <2>3
    <3>2. QED
      BY <1>1, <1>2, <2>1, <2>3, <3>1
  <2>4. QED
    BY <2>2, <2>3
<1>6. s \o t = u
  BY <1>1, <1>3, <1>4, <1>5, SeqEqual
<1>7. QED
  BY <1>6 DEF s, t, u

\* What ShiftRbuf leaves: the end of the buffer.
LEMMA ShiftTypes ==
    ASSUME NEW S, NEW b \in Seq(S), NEW len \in Nat
    PROVE  /\ ShiftRbuf(b, len) \in Seq(S)
           /\ Len(ShiftRbuf(b, len)) = Len(b) - Smaller(len, Len(b))
           /\ \A k \in 1 .. Len(b) - Smaller(len, Len(b)) :
                 ShiftRbuf(b, len)[k] = b[Smaller(len, Len(b)) + k]
<1> DEFINE m == Smaller(len, Len(b)) + 1
           n == Len(b)
<1>1. n \in Nat /\ m \in 1 .. n + 1
  BY DEF Smaller
<1>2. \A i \in m .. n : b[i] \in S
  BY <1>1, ElementOfSeq
<1> HIDE DEF m, n
<1>3. /\ SubSeq(b, m, n) \in Seq(S)
      /\ Len(SubSeq(b, m, n)) = IF m <= n THEN n - m + 1 ELSE 0
      /\ \A i \in 1 .. n - m + 1 : SubSeq(b, m, n)[i] = b[m + i - 1]
  BY <1>1, <1>2, SubSeqProperties
<1>4. Len(SubSeq(b, m, n)) = n - m + 1
  BY <1>1, <1>3
<1>5. Smaller(len, Len(b)) \in Nat /\ m = Smaller(len, Len(b)) + 1
  BY DEF Smaller, m
<1>6. QED
  BY <1>1, <1>3, <1>4, <1>5 DEF ShiftRbuf, n

\* The first n bytes of a buffer.
LEMMA FrontTypes ==
    ASSUME NEW S, NEW b \in Seq(S), NEW n \in Int, n <= Len(b)
    PROVE  /\ SubSeq(b, 1, n) \in Seq(S)
           /\ Len(SubSeq(b, 1, n)) = IF 1 <= n THEN n ELSE 0
<1>1. \A i \in 1 .. n : b[i] \in S
  BY ElementOfSeq
<1>2. /\ SubSeq(b, 1, n) \in Seq(S)
      /\ Len(SubSeq(b, 1, n)) = IF 1 <= n THEN n - 1 + 1 ELSE 0
  BY <1>1, SubSeqProperties
<1>3. QED
  BY <1>2

-----------------------------------------------------------------------------
(* The inductive invariant, in three parts that few actions share *)

PendingType == [initialized : BOOLEAN, storage : {"MEM", "DISC"},
                storage_initialized : BOOLEAN, body_len : Nat, file_offset : Nat]

FileType == [named : BOOLEAN, open : BOOLEAN, data : Seq(1 .. Sent)]

\* What the calls on the incoming half change.  TypeOK is not inductive without
\* the third line, nor RoomToRead without the second: StreamIncomingMsg takes
\* body_len - file_offset bytes off.
MemOK ==
    /\ got \in 0 .. Sent /\ rbuf \in Seq(1 .. Sent) /\ rbuf_size \in Nat
    /\ Len(rbuf) < rbuf_size
    /\ rpending \in PendingType /\ rpending.file_offset <= rpending.body_len
    /\ rhdr \in [type : {"HTTP", "BASIC", "NONE"}, msg : 0 .. N]
    /\ rfile \in FileType
    /\ error \in BOOLEAN /\ reset \in BOOLEAN /\ leaked \in BOOLEAN

\* Who does what.  Only a worker releases a message.
ControlOK ==
    /\ rtid \in Workers \cup {None}
    /\ incoming_mtx \in {Loop, None}
    /\ pc \in [Threads -> {"idle", "read", "parse", "store", "stream", "take",
                           "use", "clear", "release", "undefined", "closed"}]
    /\ pc[Loop] # "release"
    /\ \A w \in Workers : pc[w] # "idle" <=> rtid = w

\* What the application sees.
SeenOK ==
    /\ ptr \in [Threads -> {"none", "valid", "stale"}]
    /\ taken \in Seq([msg : 0 .. N, body : Seq(1 .. Sent)])
    /\ ub \in BOOLEAN

IInv == MemOK /\ ControlOK /\ SeenOK

\* The invariant says what the theorems want.
LEMMA IInvImplies == IInv => TypeOK /\ RoomToRead /\ OneAtATime
BY DEF IInv, MemOK, ControlOK, SeenOK, PendingType, FileType, TypeOK,
       RoomToRead, OneAtATime

\* It holds when the session is made.
LEMMA IInvInit == Init => IInv
<1> SUFFICES ASSUME Init
             PROVE  IInv
  OBVIOUS
<1>1. Sent \in Nat /\ N \in Nat
  BY StreamTypes, StreamAssumption DEF StreamAssumption
<1>2. Loop \in Threads /\ None \notin Workers /\ Workers \subseteq Threads
  BY EnvironmentAssumption DEF EnvironmentAssumption, Threads
<1>3. MemOK
  <2>1. <<>> \in Seq(1 .. Sent) /\ Len(<<>>) = 0
    OBVIOUS
  <2>2. NoPending \in PendingType /\ NoPending.file_offset <= NoPending.body_len
    BY DEF NoPending, PendingType
  <2>3. NoFile \in FileType
    BY <2>1 DEF NoFile, FileType
  <2>4. rhdr \in [type : {"HTTP", "BASIC", "NONE"}, msg : 0 .. N]
    BY <1>1, EnvironmentAssumption DEF EnvironmentAssumption, Init, NoMsg
  <2>5. kDefaultBufSize \in Nat /\ 0 < kDefaultBufSize
    BY SizesAssumption DEF SizesAssumption
  <2>6. /\ got = 0 /\ rbuf = <<>> /\ rbuf_size = kDefaultBufSize
        /\ rpending = NoPending /\ rfile = NoFile
        /\ error = FALSE /\ reset = FALSE /\ leaked = FALSE
    BY DEF Init
  <2>7. 0 \in 0 .. Sent
    BY <1>1
  <2>8. rbuf \in Seq(1 .. Sent) /\ Len(rbuf) < rbuf_size /\ rbuf_size \in Nat
    BY <2>1, <2>5, <2>6
  <2>9. QED
    BY <2>2, <2>3, <2>4, <2>6, <2>7, <2>8 DEF MemOK
<1>4. ControlOK
  <2>1. rtid = None /\ incoming_mtx = None /\ pc = [t \in Threads |-> "idle"]
    BY DEF Init
  <2>2. pc[Loop] = "idle" /\ \A w \in Workers : pc[w] = "idle" /\ None # w
    BY <1>2, <2>1
  <2>3. pc \in [Threads -> {"idle", "read", "parse", "store", "stream", "take",
                            "use", "clear", "release", "undefined", "closed"}]
    BY <2>1
  <2>4. \A w \in Workers : pc[w] # "idle" <=> rtid = w
    BY <2>1, <2>2
  <2>5. pc[Loop] # "release"
    BY <2>2
  <2>6. rtid \in Workers \cup {None} /\ incoming_mtx \in {Loop, None}
    BY <2>1
  <2>7. QED
    BY <2>3, <2>4, <2>5, <2>6 DEF ControlOK
<1>5. SeenOK
  <2>1. ptr \in [Threads -> {"none", "valid", "stale"}]
    BY DEF Init
  <2>2. taken \in Seq([msg : 0 .. N, body : Seq(1 .. Sent)])
    BY DEF Init
  <2>3. ub \in BOOLEAN
    BY DEF Init
  <2>4. QED
    BY <2>1, <2>2, <2>3 DEF SeenOK
<1>6. QED
  BY <1>3, <1>4, <1>5 DEF IInv

-----------------------------------------------------------------------------
(* Steps common to the calls *)

\* A thread that goes from one busy place to another leaves ControlOK alone.
LEMMA GotoControl ==
    ASSUME ControlOK, NEW t \in Threads, NEW where,
           where \in {"idle", "read", "parse", "store", "stream", "take", "use",
                      "clear", "release", "undefined", "closed"},
           t = Loop => where # "release",
           t # Loop => where # "idle" /\ pc[t] # "idle",
           Goto(t, where), UNCHANGED rtid, incoming_mtx' \in {Loop, None}
    PROVE  ControlOK'
<1>1. /\ pc' = [pc EXCEPT ![t] = where]
      /\ rtid' = rtid
      /\ DOMAIN pc = Threads
  BY DEF ControlOK, Goto
<1>2. Loop \in Threads /\ Workers \subseteq Threads /\ Loop \notin Workers
  BY EnvironmentAssumption DEF EnvironmentAssumption, Threads
<1>3. \A u \in Threads : pc'[u] = IF u = t THEN where ELSE pc[u]
  BY <1>1
<1>4. pc' \in [Threads -> {"idle", "read", "parse", "store", "stream", "take",
                           "use", "clear", "release", "undefined", "closed"}]
  BY <1>1 DEF ControlOK
<1>5. pc'[Loop] # "release"
  BY <1>2, <1>3 DEF ControlOK
<1>6. ASSUME NEW w \in Workers
      PROVE  pc'[w] # "idle" <=> rtid' = w
  BY <1>1, <1>2, <1>3 DEF ControlOK
<1>7. rtid' \in Workers \cup {None}
  BY <1>1 DEF ControlOK
<1>8. QED
  BY <1>4, <1>5, <1>6, <1>7 DEF ControlOK

\* So does a step that leaves control alone.
LEMMA SameControl ==
    ASSUME ControlOK, UNCHANGED <<rtid, pc>>, incoming_mtx' \in {Loop, None}
    PROVE  ControlOK'
BY DEF ControlOK

\* An event changes nothing in the buffer and the meta-data.
LEMMA SameMem ==
    ASSUME MemOK, UNCHANGED <<got, rbuf, rbuf_size, rpending, rhdr, rfile, reset,
                              leaked>>, error' \in BOOLEAN
    PROVE  MemOK'
BY DEF MemOK

\* Nor does a step of which the application sees nothing change SeenOK.
LEMMA SameSeen ==
    ASSUME SeenOK, UNCHANGED <<ptr, taken, ub>>
    PROVE  SeenOK'
BY DEF SeenOK

\* ResetRbuf leaves an empty session, whatever was there.
LEMMA ResetMem ==
    ASSUME MemOK, ResetRbuf, got' \in 0 .. Sent, UNCHANGED rbuf_size
    PROVE  MemOK'
<1>1. rbuf' = <<>> /\ rpending' = NoPending /\ rhdr' = NoHdr /\ error' = TRUE
         /\ reset' = TRUE /\ rbuf_size' = rbuf_size
  BY DEF ResetRbuf
<1>2. rfile' \in FileType /\ leaked' \in BOOLEAN
  <2>1. NoFile \in FileType
    BY DEF NoFile, FileType
  <2>2. rfile.open \in BOOLEAN
    BY DEF MemOK, FileType
  <2>3. CASE IsIncomingDataStreaming
    BY <2>1, <2>2, <2>3 DEF ResetRbuf, ClearFile, MemOK
  <2>4. CASE ~IsIncomingDataStreaming
    BY <2>4 DEF ResetRbuf, MemOK
  <2>5. QED
    BY <2>3, <2>4
<1>3. <<>> \in Seq(1 .. Sent) /\ Len(<<>>) = 0
  OBVIOUS
<1>4. Len(rbuf) \in Nat /\ Len(rbuf) < rbuf_size /\ rbuf_size \in Nat
  BY DEF MemOK
<1>5. NoPending \in PendingType /\ NoPending.file_offset <= NoPending.body_len
  BY DEF NoPending, PendingType
<1>6. NoHdr \in [type : {"HTTP", "BASIC", "NONE"}, msg : 0 .. N]
  BY StreamAssumption DEF StreamAssumption, NoHdr, NoMsg
<1>7. Len(rbuf') < rbuf_size'
  BY <1>1, <1>3, <1>4
<1>8. rbuf' \in Seq(1 .. Sent) /\ rbuf_size' \in Nat
  BY <1>1, <1>3, <1>4
<1>9. QED
  BY <1>1, <1>2, <1>5, <1>6, <1>7, <1>8 DEF MemOK

-----------------------------------------------------------------------------
(* Read *)

\* What SSLConn::Read may return fits what it was asked for.
LEMMA ReadResults ==
    ASSUME MemOK, NEW r \in SSLConn_Read(rbuf_size - Len(rbuf))
    PROVE  \/ r.n = -1
           \/ r.n \in Nat /\ r.n <= rbuf_size - Len(rbuf) /\ got + r.n <= Sent
<1>1. /\ Len(rbuf) \in Nat /\ rbuf_size \in Nat /\ Len(rbuf) < rbuf_size
      /\ got \in 0 .. Sent /\ Sent \in Nat
  BY StreamTypes DEF MemOK
<1>2. \/ \E n \in 0 .. Smaller(rbuf_size - Len(rbuf), Sent - got) : r = Result(n, FALSE)
      \/ r = Result(-1, TRUE)
      \/ r = Result(-1, FALSE)
  BY DEF SSLConn_Read
<1>3. CASE \E n \in 0 .. Smaller(rbuf_size - Len(rbuf), Sent - got) : r = Result(n, FALSE)
  <2>1. PICK n \in 0 .. Smaller(rbuf_size - Len(rbuf), Sent - got) : r = Result(n, FALSE)
    BY <1>3
  <2>2. r.n = n
    BY <2>1 DEF Result
  <2>3. n \in Nat /\ n <= rbuf_size - Len(rbuf) /\ got + n <= Sent
    BY <1>1, <2>1 DEF Smaller
  <2>4. QED
    BY <2>2, <2>3
<1>4. QED
  BY <1>2, <1>3 DEF Result

\* What Read adds to the buffer.
LEMMA ReceivedTypes ==
    ASSUME MemOK, NEW n,
           \/ n = -1
           \/ n \in Nat /\ n <= rbuf_size - Len(rbuf) /\ got + n <= Sent
    PROVE  Received(n) \in Seq(1 .. Sent) /\ Len(Received(n)) <= rbuf_size
<1>1. /\ Len(rbuf) \in Nat /\ rbuf_size \in Nat /\ Len(rbuf) < rbuf_size
      /\ got \in 0 .. Sent /\ Sent \in Nat /\ rbuf \in Seq(1 .. Sent)
  BY StreamTypes DEF MemOK
<1>2. CASE n = -1
  <2>1. Len(rbuf) - 1 \in Int /\ Len(rbuf) - 1 <= Len(rbuf)
    BY <1>1
  <2>2. /\ SubSeq(rbuf, 1, Len(rbuf) - 1) \in Seq(1 .. Sent)
        /\ Len(SubSeq(rbuf, 1, Len(rbuf) - 1)) =
              IF 1 <= Len(rbuf) - 1 THEN Len(rbuf) - 1 ELSE 0
    BY <1>1, <2>1, FrontTypes
  <2>3. Received(n) = SubSeq(rbuf, 1, Len(rbuf) - 1)
    BY <1>2 DEF Received
  <2>4. QED
    BY <1>1, <2>2, <2>3
<1>3. CASE n \in Nat /\ n <= rbuf_size - Len(rbuf) /\ got + n <= Sent
  <2> DEFINE end == got + n
  <2>1. got \in Nat /\ end \in 0 .. Sent /\ got <= end /\ end - got = n
    BY <1>1, <1>3
  <2>2. Received(n) = rbuf \o Bytes(got, end)
    BY <1>3 DEF Received
  <2> HIDE DEF end
  <2>3. Bytes(got, end) \in Seq(1 .. Sent) /\ Len(Bytes(got, end)) = n
    BY <1>1, <2>1, BytesTypes
  <2>4. /\ rbuf \o Bytes(got, end) \in Seq(1 .. Sent)
        /\ Len(rbuf \o Bytes(got, end)) = Len(rbuf) + Len(Bytes(got, end))
    BY <1>1, <2>3, ConcatProperties
  <2>5. QED
    BY <1>1, <1>3, <2>2, <2>3, <2>4
<1>4. QED
  BY <1>2, <1>3

\* After Read the bytes fit, resized or reset.
LEMMA ReadBytesMem ==
    ASSUME MemOK, SeenOK, NEW n, ReadBytes(n), got' \in 0 .. Sent,
           \/ n = -1
           \/ n \in Nat /\ n <= rbuf_size - Len(rbuf) /\ got + n <= Sent
    PROVE  /\ MemOK'
           /\ ptr' \in [Threads -> {"none", "valid", "stale"}]
           /\ ub' \in BOOLEAN
<1> DEFINE len == Len(Received(n))
<1>1. Received(n) \in Seq(1 .. Sent) /\ len \in Nat /\ len <= rbuf_size
  BY ReceivedTypes
<1>2. rbuf_size \in Nat /\ kDefaultBufSize \in Nat \ {0}
  BY SizesAssumption DEF MemOK, SizesAssumption
<1>3. ub' \in BOOLEAN
  BY DEF ReadBytes
<1>4. CASE /\ rbuf' = Received(n)
           /\ rbuf_size' = Grown(len)
           /\ ptr' \in IF Grown(len) = rbuf_size THEN {ptr} ELSE {ptr, Moved}
           /\ UNCHANGED <<rhdr, rpending, rfile, leaked, error, reset>>
  <2>1. Grown(len) \in Nat /\ len < Grown(len)
    BY <1>1, <1>2 DEF Grown
  <2>2. Moved \in [Threads -> {"none", "valid", "stale"}]
    <3>1. \A t \in Threads : ptr[t] \in {"none", "valid", "stale"}
      BY DEF SeenOK
    <3>2. QED
      BY <3>1 DEF Moved
  <2>3. ptr' = ptr \/ ptr' = Moved
    BY <1>4
  <2>4. ptr' \in [Threads -> {"none", "valid", "stale"}]
    BY <2>2, <2>3 DEF SeenOK
  <2>5. rbuf' \in Seq(1 .. Sent) /\ Len(rbuf') < rbuf_size' /\ rbuf_size' \in Nat
    BY <1>1, <1>4, <2>1
  <2>6. MemOK'
    BY <1>4, <2>5 DEF MemOK
  <2>7. QED
    BY <1>3, <2>4, <2>6
<1>5. CASE ResetRbuf /\ UNCHANGED <<rbuf_size, ptr>>
  BY <1>3, <1>5, ResetMem DEF SeenOK
<1>6. QED
  BY <1>4, <1>5 DEF ReadBytes

\* TCPSession::Read.
LEMMA ReadStep == IInv /\ Read => IInv'
<1> SUFFICES ASSUME IInv, Read
             PROVE  IInv'
  OBVIOUS
<1>1. MemOK /\ ControlOK /\ SeenOK
  BY DEF IInv
<1>2. PICK r \in SSLConn_Read(rbuf_size - Len(rbuf)) :
         /\ got' = IF r.n > 0 THEN got + r.n ELSE got
         /\ IF error \/ r.err THEN ResetRbuf /\ UNCHANGED <<rbuf_size, ptr, ub>>
            ELSE ReadBytes(r.n)
  BY DEF Read
<1>3. \/ r.n = -1
      \/ r.n \in Nat /\ r.n <= rbuf_size - Len(rbuf) /\ got + r.n <= Sent
  BY <1>1, ReadResults
<1>4. got' \in 0 .. Sent
  <2>1. got \in 0 .. Sent /\ Sent \in Nat
    BY <1>1, StreamTypes DEF MemOK
  <2>2. QED
    BY <1>2, <1>3, <2>1
<1>5. /\ MemOK'
      /\ ptr' \in [Threads -> {"none", "valid", "stale"}]
      /\ ub' \in BOOLEAN
  <2>1. CASE error \/ r.err
    <3>1. ResetRbuf /\ UNCHANGED <<rbuf_size, ptr, ub>>
      BY <1>2, <2>1
    <3>2. MemOK'
      BY <1>1, <1>4, <3>1, ResetMem
    <3>3. QED
      BY <1>1, <3>1, <3>2 DEF SeenOK
  <2>2. CASE ~(error \/ r.err)
    <3>1. ReadBytes(r.n)
      BY <1>2, <2>2
    <3>2. QED
      BY <1>1, <1>3, <1>4, <3>1, ReadBytesMem
  <2>3. QED
    BY <2>1, <2>2
<1>6. ControlOK'
  <2>1. /\ Loop \in Threads
        /\ Goto(Loop, IF ReparsesHdr THEN "parse" ELSE "idle")
        /\ UNCHANGED rtid
        /\ incoming_mtx' \in {Loop, None}
    BY <1>1, EnvironmentAssumption DEF Read, ControlOK, Threads
  <2>2. QED
    BY <1>1, <2>1, GotoControl
<1>7. SeenOK'
  BY <1>1, <1>5 DEF Read, SeenOK
<1>8. QED
  BY <1>5, <1>6, <1>7 DEF IInv

-----------------------------------------------------------------------------
(* InitIncomingMsg *)

\* A header that was parsed leaves a buffer that is no longer, and meta-data.
LEMMA InitParsedMem ==
    ASSUME MemOK, NEW i \in 0 .. N, NEW used \in Nat, NEW len \in Nat,
           InitParsed(i, used, len), error' \in BOOLEAN, UNCHANGED <<got, rbuf_size>>
    PROVE  MemOK'
<1>1. /\ rbuf' = ShiftRbuf(rbuf, used)
      /\ rhdr' = [rhdr EXCEPT !.msg = i]
      /\ rpending' = [rpending EXCEPT !.initialized = TRUE, !.storage = "MEM",
                                     !.body_len = len, !.file_offset = 0]
      /\ UNCHANGED <<rfile, leaked, reset>>
  BY DEF InitParsed
<1>2. rpending' \in PendingType /\ rpending'.file_offset <= rpending'.body_len
  <2>1. rpending \in PendingType
    BY DEF MemOK
  <2>2. rpending' \in PendingType
    BY <1>1, <2>1 DEF PendingType
  <2>3. rpending'.file_offset = 0 /\ rpending'.body_len = len
    BY <1>1, <2>1 DEF PendingType
  <2>4. QED
    BY <2>2, <2>3
<1>3. rhdr' \in [type : {"HTTP", "BASIC", "NONE"}, msg : 0 .. N]
  <2>1. rhdr \in [type : {"HTTP", "BASIC", "NONE"}, msg : 0 .. N]
    BY DEF MemOK
  <2>2. QED
    BY <1>1, <2>1
<1>4. rbuf' \in Seq(1 .. Sent) /\ Len(rbuf') < rbuf_size'
  <2>1. /\ rbuf \in Seq(1 .. Sent) /\ Len(rbuf) \in Nat /\ rbuf_size \in Nat
        /\ Len(rbuf) < rbuf_size
    BY DEF MemOK
  <2>2. /\ ShiftRbuf(rbuf, used) \in Seq(1 .. Sent)
        /\ Len(ShiftRbuf(rbuf, used)) = Len(rbuf) - Smaller(used, Len(rbuf))
    BY <2>1, ShiftTypes
  <2>3. Smaller(used, Len(rbuf)) \in Nat
    BY <2>1 DEF Smaller
  <2>4. QED
    BY <1>1, <2>1, <2>2, <2>3
<1>5. QED
  BY <1>1, <1>2, <1>3, <1>4 DEF MemOK

\* A header that was not found leaves the buffer as it was, or empty.
LEMMA InitFailsMem ==
    ASSUME MemOK, NEW bad, InitFails(bad), UNCHANGED <<got, rbuf_size>>
    PROVE  MemOK'
<1>1. CASE bad \/ error
  BY <1>1, ResetMem DEF InitFails, MemOK
<1>2. CASE ~(bad \/ error)
  <2>1. /\ rhdr' = [rhdr EXCEPT !.msg = NoMsg]
        /\ UNCHANGED <<rbuf, rpending, rfile, leaked, error, reset>>
    BY <1>2 DEF InitFails
  <2>2. rhdr' \in [type : {"HTTP", "BASIC", "NONE"}, msg : 0 .. N]
    <3>1. rhdr \in [type : {"HTTP", "BASIC", "NONE"}, msg : 0 .. N]
      BY DEF MemOK
    <3>2. NoMsg \in 0 .. N
      BY StreamAssumption DEF StreamAssumption, NoMsg
    <3>3. QED
      BY <2>1, <3>1, <3>2
  <2>3. QED
    BY <2>1, <2>2 DEF MemOK
<1>3. QED
  BY <1>1, <1>2

\* An HTTP header.
LEMMA InitHTTPMem ==
    ASSUME MemOK, InitHTTP, UNCHANGED <<got, rbuf_size>>
    PROVE  MemOK'
<1>1. CASE \E i \in InFront :
              IF HdrInBuf(i) /\ ~error
              THEN InitParsed(i, hdr_len[i], body_len(i)) /\ UNCHANGED error
              ELSE InitFails(FALSE)
  <2>1. PICK i \in InFront :
              IF HdrInBuf(i) /\ ~error
              THEN InitParsed(i, hdr_len[i], body_len(i)) /\ UNCHANGED error
              ELSE InitFails(FALSE)
    BY <1>1
  <2>2. i \in 1 .. N
    BY DEF InFront
  <2>3. i \in 0 .. N /\ hdr_len[i] \in Nat /\ body_len(i) \in Nat
    BY <2>2, StreamTypes
  <2>4. CASE InitParsed(i, hdr_len[i], body_len(i)) /\ UNCHANGED error
    <3>1. error' \in BOOLEAN
      BY <2>4 DEF MemOK
    <3> HIDE DEF body_len
    <3>2. QED
      BY <2>3, <2>4, <3>1, InitParsedMem
  <2>5. CASE InitFails(FALSE)
    BY <2>5, InitFailsMem
  <2>6. QED
    BY <2>1, <2>4, <2>5
<1>2. CASE InitFails(Len(rbuf) >= kMethodDelete)
  BY <1>2, InitFailsMem
<1>3. QED
  BY <1>1, <1>2 DEF InitHTTP

\* If anything was read there is a first message.
LEMMA FirstThere ==
    ASSUME MemOK, rbuf # <<>>
    PROVE  1 \in 1 .. N
<1>1. N \in Nat /\ at[1] = 0 /\ Sent = at[N + 1] /\ Sent \in Nat
  BY StreamTypes, StreamAssumption DEF StreamAssumption, Sent
<1>2. Sent # 0
  <2>1. SUFFICES ASSUME Sent = 0
                 PROVE  FALSE
    OBVIOUS
  <2>2. rbuf \in Seq(1 .. Sent) /\ Len(rbuf) \in Nat
    BY DEF MemOK
  <2>3. Len(rbuf) # 0
    BY <2>2, EmptySeq
  <2>4. 1 \in 1 .. Len(rbuf)
    BY <2>2, <2>3
  <2>5. rbuf[1] \in 1 .. Sent
    BY <2>2, <2>4, ElementOfSeq
  <2>6. QED
    BY <2>1, <2>5
<1>3. N # 0
  BY <1>1, <1>2
<1>4. QED
  BY <1>1, <1>3

\* And it has a header.
LEMMA HeaderThere ==
    ASSUME MemOK, rbuf # <<>>
    PROVE  hdr_len[1] \in Nat
<1>1. QED
  BY FirstThere, StreamTypes

\* A BasicFramingHdr, whatever length is found in it.
LEMMA InitBasicMem ==
    ASSUME MemOK, rbuf # <<>>, InitBasic, UNCHANGED <<got, rbuf_size>>
    PROVE  MemOK'
<1>1. hdr_len[1] \in Nat
  BY HeaderThere
<1>3. CASE InitFails(FALSE)
  BY <1>3, InitFailsMem
<1>4. CASE /\ \E len \in 0 .. kMaxBasicLen :
                 InitParsed(IF InFront = {} THEN NoMsg
                            ELSE CHOOSE i \in InFront : TRUE, hdr_len[1], len)
           /\ UNCHANGED error
  <2> DEFINE msg == IF InFront = {} THEN NoMsg ELSE CHOOSE i \in InFront : TRUE
  <2>1. msg \in 0 .. N
    <3>1. InFront \subseteq 1 .. N /\ N \in Nat
      BY StreamAssumption DEF InFront, StreamAssumption
    <3>2. CASE InFront = {}
      BY <3>1, <3>2 DEF NoMsg
    <3>3. CASE InFront # {}
      <4>1. (CHOOSE i \in InFront : TRUE) \in InFront
        BY <3>3
      <4>2. msg = CHOOSE i \in InFront : TRUE
        BY <3>3
      <4> HIDE DEF msg
      <4>3. msg \in 1 .. N
        BY <3>1, <4>1, <4>2, Zenon
      <4>4. QED
        BY <3>1, <4>3
    <3>4. QED
      BY <3>2, <3>3
  <2>2. PICK len \in 0 .. kMaxBasicLen : InitParsed(msg, hdr_len[1], len)
    BY <1>4
  <2> HIDE DEF msg
  <2>3. len \in Nat /\ error' \in BOOLEAN
    BY <1>4, SizesAssumption DEF SizesAssumption, MemOK
  <2>4. QED
    BY <1>1, <2>1, <2>2, <2>3, InitParsedMem
<1>5. QED
  BY <1>3, <1>4 DEF InitBasic

\* TCPSession::InitIncomingMsg.
LEMMA InitStep == IInv /\ InitIncomingMsg => IInv'
<1> SUFFICES ASSUME IInv, InitIncomingMsg
             PROVE  IInv'
  OBVIOUS
<1>1. MemOK /\ ControlOK /\ SeenOK
  BY DEF IInv
<1>2. /\ rbuf # <<>>
      /\ Goto(Loop, "idle")
      /\ UNCHANGED <<got, rbuf_size, rtid, incoming_mtx, ptr, taken, ub>>
  BY DEF InitIncomingMsg
<1>3. InitHTTP \/ InitBasic \/ InitUnknown
  <2>1. rhdr.type \in {"HTTP", "BASIC", "NONE"}
    BY <1>1 DEF MemOK
  <2>2. QED
    BY <2>1 DEF InitIncomingMsg
<1>4. MemOK'
  <2>1. CASE InitHTTP
    BY <1>1, <1>2, <2>1, InitHTTPMem
  <2>2. CASE InitBasic
    BY <1>1, <1>2, <2>2, InitBasicMem
  <2>3. CASE InitUnknown
    <3>1. NoMsg \in 0 .. N /\ InitParsed(NoMsg, 0, 0) /\ error' \in BOOLEAN
      BY <2>3, StreamAssumption DEF InitUnknown, NoMsg, StreamAssumption
    <3>2. QED
      BY <1>1, <1>2, <3>1, InitParsedMem
  <2>4. QED
    BY <1>3, <2>1, <2>2, <2>3
<1>5. ControlOK'
  <2>1. Loop \in Threads /\ incoming_mtx' \in {Loop, None}
    BY <1>1, <1>2 DEF ControlOK, Threads
  <2>2. QED
    BY <1>1, <1>2, <2>1, GotoControl
<1>6. SeenOK'
  BY <1>1, <1>2, SameSeen
<1>7. QED
  BY <1>4, <1>5, <1>6 DEF IInv

-----------------------------------------------------------------------------
(* set_rfile and StreamIncomingMsg *)

\* TCPSession::set_rfile.
LEMMA SetRfileStep == IInv /\ SetRfile => IInv'
<1> SUFFICES ASSUME IInv, SetRfile
             PROVE  IInv'
  OBVIOUS
<1>1. MemOK /\ ControlOK /\ SeenOK
  BY DEF IInv
<1>2. /\ rpending' = [rpending EXCEPT !.file_offset = 0, !.storage = "DISC",
                                     !.storage_initialized = TRUE]
      /\ Goto(Loop, "idle")
      /\ UNCHANGED <<got, rbuf, rbuf_size, rhdr, rtid, incoming_mtx, ptr, taken,
                     reset, leaked, ub>>
  BY DEF SetRfile
<1>3. rpending' \in PendingType /\ rpending'.file_offset <= rpending'.body_len
  <2>1. rpending \in PendingType
    BY <1>1 DEF MemOK
  <2>2. rpending' \in PendingType
    BY <1>2, <2>1 DEF PendingType
  <2>3. rpending'.file_offset = 0 /\ rpending'.body_len \in Nat
    BY <1>2, <2>1 DEF PendingType
  <2>4. QED
    BY <2>2, <2>3
<1>4. rfile' \in FileType /\ error' \in BOOLEAN
  <2>1. \/ rfile' = [named |-> TRUE, open |-> TRUE, data |-> <<>>] /\ UNCHANGED error
        \/ rfile' = [named |-> TRUE, open |-> FALSE, data |-> <<>>] /\ error' = TRUE
    BY DEF SetRfile
  <2>2. \A b \in BOOLEAN : [named |-> TRUE, open |-> b, data |-> <<>>] \in FileType
    BY DEF FileType
  <2>3. QED
    BY <1>1, <2>1, <2>2 DEF MemOK
<1>5. MemOK'
  BY <1>1, <1>2, <1>3, <1>4 DEF MemOK
<1>6. ControlOK'
  <2>1. Loop \in Threads /\ incoming_mtx' \in {Loop, None}
    BY <1>1, <1>2 DEF ControlOK, Threads
  <2>2. QED
    BY <1>1, <1>2, <2>1, GotoControl
<1>7. SeenOK'
  BY <1>1, <1>2, SameSeen
<1>8. QED
  BY <1>5, <1>6, <1>7 DEF IInv

\* Not more than what is left of the body goes to the file.
LEMMA StreamMem ==
    ASSUME MemOK, NEW n \in 0 .. Streamable, Stream(n), UNCHANGED <<got, rbuf_size>>
    PROVE  MemOK'
<1>1. /\ rbuf \in Seq(1 .. Sent) /\ Len(rbuf) \in Nat /\ rbuf_size \in Nat
      /\ Len(rbuf) < rbuf_size
      /\ rpending \in PendingType
      /\ rpending.body_len \in Nat /\ rpending.file_offset \in Nat
      /\ rpending.file_offset <= rpending.body_len
      /\ rfile \in FileType /\ rfile.data \in Seq(1 .. Sent)
  BY DEF MemOK, PendingType, FileType
<1>2. n \in Nat /\ n <= Len(rbuf) /\ rpending.file_offset + n <= rpending.body_len
  BY <1>1 DEF Streamable, Smaller
<1>3. /\ rbuf' = ShiftRbuf(rbuf, n)
      /\ rpending' = [rpending EXCEPT !.file_offset = @ + n]
      /\ rfile' = [named |-> TRUE,
                   open  |-> ~StreamDone(n),
                   data  |-> rfile.data \o SubSeq(rbuf, 1, n)]
      /\ UNCHANGED <<rhdr, leaked, error, reset>>
  BY DEF Stream
<1>4. rbuf' \in Seq(1 .. Sent) /\ Len(rbuf') < rbuf_size'
  <2>1. /\ ShiftRbuf(rbuf, n) \in Seq(1 .. Sent)
        /\ Len(ShiftRbuf(rbuf, n)) = Len(rbuf) - Smaller(n, Len(rbuf))
    BY <1>1, <1>2, ShiftTypes
  <2>2. Smaller(n, Len(rbuf)) = n
    BY <1>1, <1>2 DEF Smaller
  <2>3. QED
    BY <1>1, <1>2, <1>3, <2>1, <2>2
<1>5. rpending' \in PendingType /\ rpending'.file_offset <= rpending'.body_len
  <2>1. rpending.file_offset + n \in Nat
    BY <1>1, <1>2
  <2>2. rpending' \in PendingType
    BY <1>1, <1>3, <2>1 DEF PendingType
  <2>3. /\ rpending'.file_offset = rpending.file_offset + n
        /\ rpending'.body_len = rpending.body_len
    BY <1>1, <1>3 DEF PendingType
  <2>4. QED
    BY <1>2, <2>2, <2>3
<1>6. rfile' \in FileType
  <2> DEFINE S == 1 .. Sent
  <2> HIDE DEF S
  <2>1. SubSeq(rbuf, 1, n) \in Seq(1 .. Sent)
    <3>1. rbuf \in Seq(S) /\ n \in Int /\ n <= Len(rbuf)
      BY <1>1, <1>2 DEF S
    <3>2. SubSeq(rbuf, 1, n) \in Seq(S)
      BY <3>1, FrontTypes
    <3>3. QED
      BY <3>2 DEF S
  <2>2. rfile.data \o SubSeq(rbuf, 1, n) \in Seq(1 .. Sent)
    BY <1>1, <2>1, ConcatProperties
  <2>3. (~StreamDone(n)) \in BOOLEAN
    OBVIOUS
  <2>4. QED
    BY <1>3, <2>2, <2>3 DEF FileType
<1>7. QED
  BY <1>3, <1>4, <1>5, <1>6 DEF MemOK

\* TCPSession::StreamIncomingMsg.
LEMMA StreamStep == IInv /\ StreamIncomingMsg => IInv'
<1> SUFFICES ASSUME IInv, StreamIncomingMsg
             PROVE  IInv'
  OBVIOUS
<1>1. MemOK /\ ControlOK /\ SeenOK
  BY DEF IInv
<1>2. /\ Goto(Loop, "idle")
      /\ UNCHANGED <<got, rbuf_size, rtid, incoming_mtx, ptr, taken, ub>>
  BY DEF StreamIncomingMsg
<1>3. MemOK'
  <2>1. got' \in 0 .. Sent
    BY <1>1, <1>2 DEF MemOK
  <2>2. CASE ResetRbuf
    BY <1>1, <1>2, <2>1, <2>2, ResetMem
  <2>3. Streamable \in Nat
    <3>1. /\ Len(rbuf) \in Nat
          /\ rpending.body_len \in Nat /\ rpending.file_offset \in Nat
          /\ rpending.file_offset <= rpending.body_len
      BY <1>1 DEF MemOK, PendingType
    <3>2. QED
      BY <3>1 DEF Streamable, Smaller
  <2>4. CASE Stream(Streamable)
    <3>1. Streamable \in 0 .. Streamable
      BY <2>3
    <3>2. QED
      BY <1>1, <1>2, <2>4, <3>1, StreamMem
  <2>5. CASE \E n \in 1 .. Streamable : Stream(n)
    <3>1. PICK n \in 1 .. Streamable : Stream(n)
      BY <2>5
    <3>2. n \in 0 .. Streamable
      BY <2>3
    <3>3. QED
      BY <1>1, <1>2, <3>1, <3>2, StreamMem
  <2>6. QED
    BY <2>2, <2>4, <2>5 DEF StreamIncomingMsg
<1>4. ControlOK'
  <2>1. Loop \in Threads /\ incoming_mtx' \in {Loop, None}
    BY <1>1, <1>2 DEF ControlOK, Threads
  <2>2. QED
    BY <1>1, <1>2, <2>1, GotoControl
<1>5. SeenOK'
  BY <1>1, <1>2, SameSeen
<1>6. QED
  BY <1>3, <1>4, <1>5 DEF IInv

-----------------------------------------------------------------------------
(* The steps that leave the buffer alone *)

\* Starting a call, finding nothing to do in it, or running out of memory.
LEMMA LoopStep ==
    ASSUME IInv, NEW where \in {"idle", "read", "parse", "store", "stream", "closed"},
           Goto(Loop, where), incoming_mtx' \in {Loop, None}, error' \in BOOLEAN,
           UNCHANGED <<got, rbuf, rbuf_size, rpending, rhdr, rfile, rtid, ptr,
                       taken, reset, leaked, ub>>
    PROVE  IInv'
<1>1. MemOK /\ ControlOK /\ SeenOK
  BY DEF IInv
<1>2. MemOK'
  BY <1>1, SameMem
<1>3. SeenOK'
  BY <1>1, SameSeen
<1>4. ControlOK'
  <2>1. Loop \in Threads /\ where # "release" /\ UNCHANGED rtid
    BY DEF Threads
  <2>2. where \in {"idle", "read", "parse", "store", "stream", "take", "use",
                   "clear", "release", "undefined", "closed"}
    OBVIOUS
  <2>3. QED
    BY <1>1, <2>1, <2>2, GotoControl
<1>5. QED
  BY <1>2, <1>3, <1>4 DEF IInv

\* The event loop begins a call.
LEMMA CallStep ==
    ASSUME IInv, NEW where \in {"read", "parse", "store", "stream"}, Call(where)
    PROVE  IInv'
<1>1. incoming_mtx' \in {Loop, None} /\ error' \in BOOLEAN
  BY DEF Call, IInv, ControlOK, MemOK
<1>2. where \in {"idle", "read", "parse", "store", "stream", "closed"}
  OBVIOUS
<1>3. QED
  BY <1>1, <1>2, LoopStep DEF Call

\* An event is set elsewhere, or cleared by the loop.
LEMMA EventStep == IInv /\ (StrayEvent \/ ClearError) => IInv'
<1> SUFFICES ASSUME IInv, StrayEvent \/ ClearError
             PROVE  IInv'
  OBVIOUS
<1>1. MemOK /\ ControlOK /\ SeenOK
  BY DEF IInv
<1>2. /\ error' \in BOOLEAN
      /\ UNCHANGED <<got, rbuf, rbuf_size, rpending, rhdr, rfile, rtid,
                     incoming_mtx, ptr, taken, reset, leaked, ub>>
  BY DEF StrayEvent, ClearError
<1>3. CASE Goto(Loop, "closed")
  <2>1. incoming_mtx' \in {Loop, None}
    BY <1>1, <1>2 DEF ControlOK
  <2>2. QED
    BY <1>2, <1>3, <2>1, LoopStep
<1>4. CASE UNCHANGED pc
  <2>1. ControlOK'
    BY <1>1, <1>2, <1>4 DEF ControlOK
  <2>2. QED
    BY <1>1, <1>2, <2>1, SameMem, SameSeen DEF IInv
<1>5. QED
  BY <1>3, <1>4 DEF StrayEvent, ClearError

\* A message is given to a worker that is idle, while none has one.
LEMMA DispatchStep == IInv /\ Dispatch => IInv'
<1> SUFFICES ASSUME IInv, Dispatch
             PROVE  IInv'
  OBVIOUS
<1>1. MemOK /\ ControlOK /\ SeenOK
  BY DEF IInv
<1>2. UNCHANGED <<got, rbuf, rbuf_size, rpending, rhdr, rfile, error,
                  incoming_mtx, ptr, taken, reset, leaked, ub>>
  BY DEF Dispatch
<1>3. MemOK' /\ SeenOK'
  BY <1>1, <1>2, SameMem, SameSeen DEF MemOK
<1>4. incoming_mtx' \in {Loop, None} /\ Loop \in Threads
  BY <1>1, <1>2 DEF ControlOK, Threads
<1>5. ControlOK'
  <2>1. CASE Workers = {}
    <3>1. Goto(Loop, "take") /\ UNCHANGED rtid
      BY <2>1 DEF Dispatch
    <3>2. QED
      BY <1>1, <1>4, <3>1, GotoControl
  <2>2. CASE Workers # {}
    <3>1. PICK w \in Workers : pc[w] = "idle" /\ Goto(w, "take") /\ rtid' = w
      BY <2>2 DEF Dispatch
    <3>2. rtid = None /\ None \notin Workers /\ Loop # w /\ w \in Threads
             /\ Workers \subseteq Threads
      BY EnvironmentAssumption
         DEF Dispatch, IsIncomingMsgBeingProcessed, EnvironmentAssumption, Threads
    <3>3. \A t \in Threads : pc'[t] = IF t = w THEN "take" ELSE pc[t]
      BY <1>1, <3>1 DEF Goto, ControlOK
    <3>4. pc' \in [Threads -> {"idle", "read", "parse", "store", "stream", "take",
                               "use", "clear", "release", "undefined", "closed"}]
      BY <1>1, <3>1 DEF Goto, ControlOK
    <3>5. pc'[Loop] # "release"
      BY <1>1, <1>4, <3>2, <3>3 DEF ControlOK
    <3>6. \A u \in Workers : pc'[u] # "idle" <=> rtid' = u
      <4>1. \A u \in Workers : pc[u] = "idle"
        BY <1>1, <3>2 DEF ControlOK
      <4>2. QED
        BY <3>1, <3>2, <3>3, <4>1
    <3>7. QED
      BY <1>4, <3>1, <3>4, <3>5, <3>6 DEF ControlOK
  <2>3. QED
    BY <2>1, <2>2
<1>6. QED
  BY <1>3, <1>5 DEF IInv

-----------------------------------------------------------------------------
(* The application *)

\* A thread that takes, uses and clears a message stays busy with it.
LEMMA BusyControl ==
    ASSUME ControlOK, NEW t \in Threads, pc[t] # "idle",
           NEW where \in {"use", "clear", "undefined"},
           Goto(t, where), UNCHANGED <<rtid, incoming_mtx>>
    PROVE  ControlOK'
<1>1. /\ where # "release" /\ where # "idle" /\ UNCHANGED rtid
      /\ where \in {"idle", "read", "parse", "store", "stream", "take", "use",
                    "clear", "release", "undefined", "closed"}
      /\ incoming_mtx' \in {Loop, None}
  BY DEF ControlOK
<1>2. QED
  BY <1>1, GotoControl

\* The application calls rbuf().
LEMMA TakeStep ==
    ASSUME IInv, NEW t \in Threads, TakeBuf(t)
    PROVE  IInv'
<1>1. MemOK /\ ControlOK /\ SeenOK
  BY DEF IInv
<1>2. /\ pc[t] = "take" /\ ptr' = [ptr EXCEPT ![t] = "valid"] /\ Goto(t, "use")
      /\ UNCHANGED <<got, rbuf, rbuf_size, rpending, rhdr, rfile, rtid, error,
                     incoming_mtx, taken, reset, leaked, ub>>
  BY DEF TakeBuf
<1>3. MemOK'
  BY <1>1, <1>2, SameMem DEF MemOK
<1>4. ControlOK'
  BY <1>1, <1>2, BusyControl
<1>5. SeenOK'
  <2>1. ptr' \in [Threads -> {"none", "valid", "stale"}]
    BY <1>1, <1>2 DEF SeenOK
  <2>2. QED
    BY <1>1, <1>2, <2>1 DEF SeenOK
<1>6. QED
  BY <1>3, <1>4, <1>5 DEF IInv

\* What the application copies is a piece of the stream.
LEMMA BodyTypes ==
    ASSUME MemOK
    PROVE  (IF IsIncomingDataStreaming THEN rfile.data
            ELSE SubSeq(rbuf, 1, Smaller(rpending.body_len, Len(rbuf))))
           \in Seq(1 .. Sent)
<1> DEFINE S == 1 .. Sent
           n == Smaller(rpending.body_len, Len(rbuf))
<1>1. rfile.data \in Seq(S)
  BY DEF MemOK, FileType
<1>2. rbuf \in Seq(S)
  BY DEF MemOK
<1>3. n \in Int /\ n <= Len(rbuf)
  <2>1. Len(rbuf) \in Nat /\ rpending.body_len \in Nat
    BY DEF MemOK, PendingType
  <2>2. QED
    BY <2>1 DEF Smaller
<1> HIDE DEF S, n
<1>4. SubSeq(rbuf, 1, n) \in Seq(S)
  BY <1>2, <1>3, FrontTypes
<1>5. QED
  BY <1>1, <1>4 DEF S, n

\* The application copies the body.
LEMMA UseStep ==
    ASSUME IInv, NEW t \in Threads, UseBuf(t)
    PROVE  IInv'
<1> DEFINE body == IF IsIncomingDataStreaming THEN rfile.data
                   ELSE SubSeq(rbuf, 1, Smaller(rpending.body_len, Len(rbuf)))
<1>1. MemOK /\ ControlOK /\ SeenOK
  BY DEF IInv
<1>2. /\ pc[t] = "use"
      /\ ptr' = [ptr EXCEPT ![t] = "none"]
      /\ UNCHANGED <<got, rbuf, rbuf_size, rpending, rhdr, rfile, rtid, error,
                     incoming_mtx, reset, leaked>>
  BY DEF UseBuf
<1>3. \/ ub' = TRUE /\ Goto(t, "undefined") /\ UNCHANGED taken
      \/ /\ taken' = Append(taken, [msg |-> rhdr.msg, body |-> body])
         /\ Goto(t, "clear") /\ UNCHANGED ub
  BY DEF UseBuf
<1>4. MemOK'
  BY <1>1, <1>2, SameMem DEF MemOK
<1>5. ControlOK'
  BY <1>1, <1>2, <1>3, BusyControl
<1>6. taken' \in Seq([msg : 0 .. N, body : Seq(1 .. Sent)])
  <2>1. taken \in Seq([msg : 0 .. N, body : Seq(1 .. Sent)])
    BY <1>1 DEF SeenOK
  <2>2. body \in Seq(1 .. Sent)
    BY <1>1, BodyTypes
  <2>3. rhdr.msg \in 0 .. N
    BY <1>1 DEF MemOK
  <2> HIDE DEF body
  <2>4. [msg |-> rhdr.msg, body |-> body] \in [msg : 0 .. N, body : Seq(1 .. Sent)]
    BY <2>2, <2>3
  <2>5. Append(taken, [msg |-> rhdr.msg, body |-> body]) \in
           Seq([msg : 0 .. N, body : Seq(1 .. Sent)])
    BY <2>1, <2>4, AppendProperties
  <2>6. QED
    BY <1>3, <2>1, <2>5
<1>7. SeenOK'
  <2>1. ptr' \in [Threads -> {"none", "valid", "stale"}]
    BY <1>1, <1>2 DEF SeenOK
  <2>2. ub' \in BOOLEAN
    BY <1>1, <1>3 DEF SeenOK
  <2>3. QED
    BY <1>6, <2>1, <2>2 DEF SeenOK
<1>8. QED
  BY <1>4, <1>5, <1>7 DEF IInv

\* TCPSession::ClearIncomingMsg.
LEMMA ClearStep ==
    ASSUME IInv, NEW t \in Threads, ClearIncomingMsg(t)
    PROVE  IInv'
<1>1. MemOK /\ ControlOK /\ SeenOK
  BY DEF IInv
<1>2. /\ pc[t] = "clear"
      /\ rhdr' = NoHdr
      /\ rpending' = NoPending
      /\ Goto(t, IF t = Loop THEN "idle" ELSE "release")
      /\ UNCHANGED <<got, rbuf_size, rtid, incoming_mtx, ptr, taken, reset, ub>>
  BY DEF ClearIncomingMsg, Unlocked
<1>3. NoPending \in PendingType /\ NoPending.file_offset <= NoPending.body_len
  BY DEF NoPending, PendingType
<1>4. NoHdr \in [type : {"HTTP", "BASIC", "NONE"}, msg : 0 .. N]
  BY StreamAssumption DEF StreamAssumption, NoHdr, NoMsg
<1>5. /\ rbuf' \in Seq(1 .. Sent) /\ Len(rbuf') < rbuf_size'
      /\ rfile' \in FileType /\ leaked' \in BOOLEAN /\ error' \in BOOLEAN
  <2>1. /\ rbuf \in Seq(1 .. Sent) /\ Len(rbuf) \in Nat /\ rbuf_size \in Nat
        /\ Len(rbuf) < rbuf_size
        /\ rpending.body_len \in Nat /\ rfile \in FileType /\ rfile.open \in BOOLEAN
        /\ leaked \in BOOLEAN /\ error \in BOOLEAN
    BY <1>1 DEF MemOK, PendingType, FileType
  <2>2. CASE IsIncomingDataStreaming
    <3>1. /\ rfile' = NoFile /\ leaked' = (leaked \/ rfile.open)
          /\ error' = (error \/ rfile.open) /\ rbuf' = rbuf
      BY <2>2 DEF ClearIncomingMsg, ClearFile
    <3>2. NoFile \in FileType
      BY DEF NoFile, FileType
    <3>3. rbuf' \in Seq(1 .. Sent) /\ Len(rbuf') < rbuf_size'
      BY <1>2, <2>1, <3>1
    <3>4. QED
      BY <2>1, <3>1, <3>2, <3>3
  <2>3. CASE ~IsIncomingDataStreaming
    <3>1. rbuf' = ShiftRbuf(rbuf, rpending.body_len) /\ UNCHANGED <<rfile, leaked, error>>
      BY <2>3 DEF ClearIncomingMsg
    <3>2. /\ ShiftRbuf(rbuf, rpending.body_len) \in Seq(1 .. Sent)
          /\ Len(ShiftRbuf(rbuf, rpending.body_len)) =
                Len(rbuf) - Smaller(rpending.body_len, Len(rbuf))
      BY <2>1, ShiftTypes
    <3>3. Smaller(rpending.body_len, Len(rbuf)) \in Nat
      BY <2>1 DEF Smaller
    <3>4. QED
      BY <1>2, <2>1, <3>1, <3>2, <3>3
  <2>4. QED
    BY <2>2, <2>3
<1>6. MemOK'
  BY <1>1, <1>2, <1>3, <1>4, <1>5 DEF MemOK
<1>7. ControlOK'
  <2>1. incoming_mtx' \in {Loop, None} /\ UNCHANGED rtid
    BY <1>1, <1>2 DEF ControlOK
  <2>2. CASE t = Loop
    <3>1. Goto(Loop, "idle") /\ Loop \in Threads
      BY <1>2, <2>2
    <3>2. QED
      BY <1>1, <2>1, <3>1, GotoControl
  <2>3. CASE t # Loop
    <3>1. Goto(t, "release") /\ pc[t] # "idle"
      BY <1>2, <2>3
    <3>2. QED
      BY <1>1, <2>1, <2>3, <3>1, GotoControl
  <2>4. QED
    BY <2>2, <2>3
<1>8. SeenOK'
  BY <1>1, <1>2, SameSeen
<1>9. QED
  BY <1>6, <1>7, <1>8 DEF IInv

\* The worker that releases the message is the one that had it.
LEMMA ReleaseStep ==
    ASSUME IInv, NEW t \in Threads, ReleaseMsg(t)
    PROVE  IInv'
<1>1. MemOK /\ ControlOK /\ SeenOK
  BY DEF IInv
<1>2. /\ pc[t] = "release" /\ rtid' = None /\ Goto(t, "idle")
      /\ UNCHANGED <<got, rbuf, rbuf_size, rpending, rhdr, rfile, error,
                     incoming_mtx, ptr, taken, reset, leaked, ub>>
  BY DEF ReleaseMsg, Unlocked
<1>3. MemOK' /\ SeenOK'
  BY <1>1, <1>2, SameMem, SameSeen DEF MemOK
<1>4. ControlOK'
  <2>1. t # Loop /\ t \in Workers /\ Loop \in Threads /\ Workers \subseteq Threads
           /\ None \notin Workers
    BY <1>1, <1>2, EnvironmentAssumption DEF ControlOK, EnvironmentAssumption, Threads
  <2>2. \A u \in Threads : pc'[u] = IF u = t THEN "idle" ELSE pc[u]
    BY <1>1, <1>2 DEF Goto, ControlOK
  <2>3. pc' \in [Threads -> {"idle", "read", "parse", "store", "stream", "take",
                             "use", "clear", "release", "undefined", "closed"}]
    BY <1>1, <1>2 DEF Goto, ControlOK
  <2>4. rtid = t
    BY <1>1, <1>2, <2>1 DEF ControlOK
  <2>5. \A u \in Workers : u # t => pc[u] = "idle"
    BY <1>1, <2>4 DEF ControlOK
  <2>6. \A u \in Workers : pc'[u] # "idle" <=> rtid' = u
    BY <1>2, <2>1, <2>2, <2>5
  <2>7. pc'[Loop] # "release"
    BY <1>1, <2>1, <2>2 DEF ControlOK
  <2>8. QED
    BY <1>1, <1>2, <2>3, <2>6, <2>7 DEF ControlOK
<1>5. QED
  BY <1>3, <1>4 DEF IInv

-----------------------------------------------------------------------------
(* All steps *)

\* Every step keeps the invariant.
LEMMA IInvStep == IInv /\ [Next]_vars => IInv'
<1> SUFFICES ASSUME IInv, [Next]_vars
             PROVE  IInv'
  OBVIOUS
<1>1. CASE ReadCall
  BY <1>1, CallStep DEF ReadCall
<1>2. CASE Read
  BY <1>2, ReadStep
<1>3. CASE InitCall
  BY <1>3, CallStep DEF InitCall
<1>4. CASE InitNothing
  <2>1. incoming_mtx' \in {Loop, None} /\ error' \in BOOLEAN
    BY <1>4 DEF InitNothing, IInv, ControlOK, MemOK
  <2>2. QED
    BY <1>4, <2>1, LoopStep DEF InitNothing
<1>5. CASE InitNoMemory
  BY <1>5, LoopStep DEF InitNoMemory
<1>6. CASE InitIncomingMsg
  BY <1>6, InitStep
<1>7. CASE SetRfileCall
  BY <1>7, CallStep DEF SetRfileCall
<1>8. CASE SetRfile
  BY <1>8, SetRfileStep
<1>9. CASE StreamCall
  BY <1>9, CallStep DEF StreamCall
<1>10. CASE StreamIncomingMsg
  BY <1>10, StreamStep
<1>11. CASE Dispatch
  BY <1>11, DispatchStep
<1>12. CASE ClearError \/ StrayEvent
  BY <1>12, EventStep
<1>13. CASE \E t \in Threads : Process(t)
  BY <1>13, TakeStep, UseStep, ClearStep, ReleaseStep DEF Process
<1>14. CASE UNCHANGED vars
  BY <1>14 DEF vars, IInv, MemOK, ControlOK, SeenOK
<1>15. QED
  BY <1>1, <1>2, <1>3, <1>4, <1>5, <1>6, <1>7, <1>8, <1>9, <1>10, <1>11, <1>12,
     <1>13, <1>14 DEF Next, EventLoop

\* The invariant always holds.
LEMMA IInvHolds == Spec => []IInv
<1>1. QED
  BY IInvInit, IInvStep, PTL DEF Spec

\* Every variable keeps its type, whatever the peer sends, however it is cut,
\* whatever fails and whichever loop is run.
THEOREM TypeCorrect == Spec => []TypeOK
<1>1. QED
  BY IInvHolds, IInvImplies, PTL

\* TCPSession::Read never asks for zero bytes: there is always room in rbuf_.
THEOREM AlwaysRoomToRead == Spec => []RoomToRead
<1>1. QED
  BY IInvHolds, IInvImplies, PTL

\* rtid_ is the one worker that processes the message: a message is never given
\* to two, however the event loop and the workers interleave.
THEOREM OneWorkerAtATime == Spec => []OneAtATime
<1>1. QED
  BY IInvHolds, IInvImplies, PTL

-----------------------------------------------------------------------------
(* The buffer is the latest part of the stream *)

\* BufferIsStream, and that no more is in the buffer than was read.
StreamOK == BufferIsStream /\ Len(rbuf) <= got

\* Neither got nor rbuf changes.
LEMMA SameStream ==
    ASSUME StreamOK, UNCHANGED <<got, rbuf>>
    PROVE  StreamOK'
BY DEF StreamOK, BufferIsStream, Bytes

\* An empty interval of the stream.
LEMMA EmptyBytes ==
    ASSUME NEW g \in Nat
    PROVE  Bytes(g, g) = <<>>
<1>1. Bytes(g, g) \in Seq(1 .. g) /\ Len(Bytes(g, g)) = g - g
  <2>1. g \in 0 .. g
    OBVIOUS
  <2>2. QED
    BY <2>1, BytesTypes
<1>2. Len(Bytes(g, g)) = 0
  BY <1>1
<1>3. QED
  BY <1>1, <1>2, EmptySeq

\* An empty buffer holds the latest no bytes.
LEMMA EmptyStream ==
    ASSUME got' \in Nat, rbuf' = <<>>
    PROVE  StreamOK'
<1>1. Len(rbuf') = 0
  <2>1. Len(<<>>) = 0
    OBVIOUS
  <2>2. QED
    BY <2>1
<1>2. got' - Len(rbuf') = got' /\ Len(rbuf') <= got'
  <2>1. \A g \in Nat : g - 0 = g /\ 0 <= g
    OBVIOUS
  <2>2. got' - 0 = got' /\ 0 <= got'
    BY <2>1
  <2>3. QED
    BY <1>1, <2>2
<1>3. Bytes(got', got') = <<>>
  BY EmptyBytes
<1>4. rbuf' = Bytes(got' - Len(rbuf'), got')
  BY <1>2, <1>3
<1>5. QED
  BY <1>2, <1>4 DEF StreamOK, BufferIsStream, Bytes

\* Taking bytes off at the front leaves the later ones.
LEMMA ShiftedStream ==
    ASSUME MemOK, StreamOK, NEW len \in Nat,
           rbuf' = ShiftRbuf(rbuf, len), UNCHANGED got
    PROVE  StreamOK'
<1> DEFINE n == Len(rbuf)
           m == Smaller(len, Len(rbuf))
           left == ShiftRbuf(rbuf, len)
           new == Bytes(got - (n - m), got)
<1>1. /\ rbuf \in Seq(1 .. Sent) /\ n \in Nat /\ n <= got
      /\ got \in 0 .. Sent /\ Sent \in Nat
      /\ rbuf = Bytes(got - n, got)
  BY StreamTypes DEF MemOK, StreamOK, BufferIsStream
<1>2. m \in 0 .. n
  BY <1>1 DEF Smaller
<1>3. /\ left \in Seq(1 .. Sent)
      /\ Len(left) = n - m
      /\ \A k \in 1 .. n - m : left[k] = rbuf[m + k]
  BY <1>1, ShiftTypes
<1>4. \A k \in 1 .. n : rbuf[k] = (got - n) + k
  <2>1. got - (got - n) = n
    BY <1>1
  <2>2. QED
    BY <1>1, <2>1 DEF Bytes
<1>5. /\ got - (n - m) \in Nat /\ got - (n - m) <= got
      /\ got - (got - (n - m)) = n - m
  BY <1>1, <1>2
<1>6. new \in Seq(1 .. Sent) /\ Len(new) = n - m
  BY <1>1, <1>5, BytesTypes
<1>7. \A k \in 1 .. n - m : new[k] = (got - (n - m)) + k
  BY <1>5 DEF Bytes
<1> HIDE DEF n, m, left, new
<1>8. \A k \in 1 .. n - m : left[k] = new[k]
  <2>1. ASSUME NEW k \in 1 .. n - m
        PROVE  left[k] = new[k]
    <3>1. m + k \in 1 .. n /\ (got - n) + (m + k) = (got - (n - m)) + k
      BY <1>1, <1>2
    <3>2. QED
      BY <1>3, <1>4, <1>7, <3>1
  <2>2. QED
    BY <2>1
<1>9. left = new
  BY <1>3, <1>6, <1>8, SeqEqual
<1>10. /\ rbuf' = left /\ got' = got /\ Len(rbuf') = n - m
       /\ rbuf' = Bytes(got' - Len(rbuf'), got')
  BY <1>3, <1>9 DEF left, new
<1>11. Len(rbuf') <= got'
  BY <1>1, <1>2, <1>10
<1>12. QED
  BY <1>10, <1>11 DEF StreamOK, BufferIsStream, Bytes

\* Read puts what comes at the end: over TCP its result is -1 only with an
\* event.
LEMMA ReadStream ==
    ASSUME Transport = "tcp", MemOK, StreamOK, Read
    PROVE  StreamOK'
<1>1. PICK r \in SSLConn_Read(rbuf_size - Len(rbuf)) :
         /\ got' = IF r.n > 0 THEN got + r.n ELSE got
         /\ IF error \/ r.err THEN ResetRbuf /\ UNCHANGED <<rbuf_size, ptr, ub>>
            ELSE ReadBytes(r.n)
  BY DEF Read
<1>2. \/ r.n = -1
      \/ r.n \in Nat /\ r.n <= rbuf_size - Len(rbuf) /\ got + r.n <= Sent
  BY ReadResults
<1>3. got \in Nat /\ got' \in Nat /\ Sent \in Nat
  <2>1. got \in Nat /\ Sent \in Nat
    BY StreamTypes DEF MemOK
  <2>2. QED
    BY <1>1, <1>2, <2>1
<1>4. CASE ResetRbuf
  BY <1>3, <1>4, EmptyStream DEF ResetRbuf
<1>5. CASE ~(error \/ r.err) /\ ~ResetRbuf
  <2>1. r.n # -1
    <3>1. \/ \E n \in 0 .. Smaller(rbuf_size - Len(rbuf), Sent - got) : r = Result(n, FALSE)
          \/ r = Result(-1, TRUE)
      BY Zenon DEF SSLConn_Read
    <3>2. r # Result(-1, TRUE)
      BY <1>5 DEF Result
    <3>3. QED
      BY <3>1, <3>2 DEF Result
  <2>2. r.n \in Nat /\ got + r.n <= Sent /\ got' = got + r.n
    BY <1>1, <1>2, <1>3, <2>1
  <2>3. rbuf' = Received(r.n)
    BY <1>1, <1>5 DEF ReadBytes
  <2> DEFINE n == Len(rbuf)
             end == got + r.n
  <2>4. rbuf' = rbuf \o Bytes(got, end)
    BY <2>2, <2>3 DEF Received
  <2>5. rbuf = Bytes(got - n, got) /\ n \in Nat /\ n <= got
    BY DEF StreamOK, BufferIsStream, MemOK
  <2>6. end \in Nat /\ got <= end /\ got - n \in Nat /\ got - n <= got /\ got' = end
    BY <1>3, <2>2, <2>5
  <2> HIDE DEF n, end
  <2>7. rbuf' = Bytes(got - n, end)
    BY <1>3, <2>4, <2>5, <2>6, BytesConcat
  <2>8. Len(rbuf') = end - (got - n)
    <3>1. end \in 0 .. end /\ got - n <= end
      BY <1>3, <2>5, <2>6
    <3>2. QED
      BY <2>6, <2>7, <3>1, BytesTypes
  <2>9. end - (end - (got - n)) = got - n /\ end - (got - n) <= end
    BY <2>6
  <2>10. rbuf' = Bytes(got' - Len(rbuf'), got') /\ Len(rbuf') <= got'
    BY <2>6, <2>7, <2>8, <2>9
  <2>11. QED
    BY <2>10 DEF StreamOK, BufferIsStream, Bytes
<1>6. QED
  BY <1>1, <1>4, <1>5

\* InitIncomingMsg takes a header off at the front, or drops all.
LEMMA InitStream ==
    ASSUME MemOK, StreamOK, InitIncomingMsg
    PROVE  StreamOK'
<1>1. UNCHANGED got /\ got \in Nat /\ rbuf # <<>>
  BY StreamTypes DEF InitIncomingMsg, MemOK
<1>2. ASSUME NEW i, NEW used \in Nat, NEW len, InitParsed(i, used, len)
      PROVE  StreamOK'
  BY <1>1, <1>2, ShiftedStream DEF InitParsed
<1>3. ASSUME NEW bad, InitFails(bad)
      PROVE  StreamOK'
  <2>1. CASE ResetRbuf
    BY <1>1, <2>1, EmptyStream DEF ResetRbuf
  <2>2. CASE UNCHANGED rbuf
    BY <1>1, <2>2, SameStream
  <2>3. QED
    BY <1>3, <2>1, <2>2 DEF InitFails
<1>4. CASE InitHTTP
  <2>1. \A i \in InFront : hdr_len[i] \in Nat
    BY StreamTypes DEF InFront
  <2>2. QED
    BY <1>2, <1>3, <1>4, <2>1, Zenon DEF InitHTTP
<1>5. CASE InitBasic
  <2>1. CASE Len(rbuf) < hdr_len[1]
    BY <1>3, <1>5, <2>1 DEF InitBasic
  <2>2. CASE ~(Len(rbuf) < hdr_len[1])
    <3>1. PICK len \in 0 .. kMaxBasicLen :
             InitParsed(IF InFront = {} THEN NoMsg
                        ELSE CHOOSE i \in InFront : TRUE, hdr_len[1], len)
      BY <1>5, <2>2 DEF InitBasic
    <3>2. hdr_len[1] \in Nat
      BY <1>1, HeaderThere
    <3>3. QED
      BY <1>2, <3>1, <3>2, Zenon
  <2>3. QED
    BY <2>1, <2>2
<1>6. CASE InitUnknown
  BY <1>2, <1>6 DEF InitUnknown
<1>7. rhdr.type \in {"HTTP", "BASIC", "NONE"}
  BY DEF MemOK
<1>8. QED
  BY <1>4, <1>5, <1>6, <1>7 DEF InitIncomingMsg

\* StreamIncomingMsg takes part of a body off at the front, or drops all.
LEMMA StreamingStream ==
    ASSUME MemOK, StreamOK, StreamIncomingMsg
    PROVE  StreamOK'
<1>1. UNCHANGED got /\ got \in Nat
  BY StreamTypes DEF StreamIncomingMsg, MemOK
<1>2. Streamable \in Nat
  <2>1. /\ Len(rbuf) \in Nat
        /\ rpending.body_len \in Nat /\ rpending.file_offset \in Nat
        /\ rpending.file_offset <= rpending.body_len
    BY DEF MemOK, PendingType
  <2>2. QED
    BY <2>1 DEF Streamable, Smaller
<1>3. ASSUME NEW n \in Nat, Stream(n)
      PROVE  StreamOK'
  BY <1>1, <1>3, ShiftedStream DEF Stream
<1>4. CASE ResetRbuf
  BY <1>1, <1>4, EmptyStream DEF ResetRbuf
<1>5. CASE \E n \in 1 .. Streamable : Stream(n)
  <2>1. PICK n \in 1 .. Streamable : Stream(n)
    BY <1>5
  <2>2. n \in Nat
    BY <1>2
  <2>3. QED
    BY <1>3, <2>1, <2>2
<1>6. CASE Stream(Streamable)
  BY <1>2, <1>3, <1>6
<1>7. QED
  BY <1>4, <1>5, <1>6 DEF StreamIncomingMsg

\* ClearIncomingMsg takes a body off at the front, or leaves the buffer alone.
LEMMA ClearStream ==
    ASSUME MemOK, StreamOK, NEW t \in Threads, ClearIncomingMsg(t)
    PROVE  StreamOK'
<1>1. UNCHANGED got /\ rpending.body_len \in Nat
  BY DEF ClearIncomingMsg, MemOK, PendingType
<1>2. CASE UNCHANGED rbuf
  BY <1>1, <1>2, SameStream
<1>3. CASE rbuf' = ShiftRbuf(rbuf, rpending.body_len)
  BY <1>1, <1>3, ShiftedStream
<1>4. QED
  BY <1>2, <1>3 DEF ClearIncomingMsg

\* Over TCP every step keeps the buffer the latest part of the stream.
LEMMA StreamOKStep ==
    ASSUME Transport = "tcp", IInv, StreamOK, [Next]_vars
    PROVE  StreamOK'
<1>1. MemOK
  BY DEF IInv
<1>2. CASE Read
  BY <1>1, <1>2, ReadStream
<1>3. CASE InitIncomingMsg
  BY <1>1, <1>3, InitStream
<1>4. CASE StreamIncomingMsg
  BY <1>1, <1>4, StreamingStream
<1>5. CASE \E t \in Threads : ClearIncomingMsg(t)
  BY <1>1, <1>5, ClearStream
<1>6. CASE \/ ReadCall \/ InitCall \/ InitNothing \/ InitNoMemory
           \/ SetRfileCall \/ SetRfile \/ StreamCall
           \/ Dispatch \/ ClearError \/ StrayEvent \/ UNCHANGED vars
           \/ \E t \in Threads : TakeBuf(t) \/ UseBuf(t) \/ ReleaseMsg(t)
  <2>1. UNCHANGED <<got, rbuf>>
    BY <1>6
       DEF ReadCall, InitCall, InitNothing, InitNoMemory, SetRfileCall, SetRfile,
           StreamCall, Dispatch, ClearError, StrayEvent, vars, TakeBuf, UseBuf,
           ReleaseMsg, Call
  <2>2. QED
    BY <2>1, SameStream
<1>7. QED
  BY <1>2, <1>3, <1>4, <1>5, <1>6 DEF Next, EventLoop, Process

\* An empty buffer is in place.
LEMMA StreamInit == Init => StreamOK
<1> SUFFICES ASSUME Init
             PROVE  StreamOK
  OBVIOUS
<1>1. got = 0 /\ rbuf = <<>>
  BY DEF Init
<1>2. Len(<<>>) = 0 /\ 0 - 0 = 0 /\ 0 <= 0
  OBVIOUS
<1>3. Bytes(0, 0) = <<>>
  BY EmptyBytes
<1>4. QED
  BY <1>1, <1>2, <1>3 DEF StreamOK, BufferIsStream

\* Over TCP rbuf_ always holds the latest of the bytes read from the socket,
\* without a gap, whatever else happens to the session: no operation ever takes
\* bytes off from the wrong end or counts more or fewer than there are.
THEOREM BufferStaysStream ==
    ASSUME Transport = "tcp"
    PROVE  Spec => []BufferIsStream
<1>1. Init => StreamOK
  BY StreamInit
<1>2. IInv /\ StreamOK /\ [Next]_vars => StreamOK'
  BY StreamOKStep
<1>3. StreamOK => BufferIsStream
  BY DEF StreamOK
<1>4. QED
  BY <1>1, <1>2, <1>3, IInvHolds, PTL DEF Spec

=============================================================================

----------------------- MODULE TCPSessionInLoopProofs -----------------------
(***************************************************************************)
(* Proofs about TCPSessionIn for event loops that are careful in one way   *)
(* or another; each theorem says which.                                    *)
(***************************************************************************)
EXTENDS TCPSessionInProofs

-----------------------------------------------------------------------------
(* The first message, the only one that a session parses *)

\* Thread t was given the message, and has not cleared it yet.
HasMsg(t) == pc[t] \in {"take", "use", "clear"}

\* No header was parsed yet, and nothing was taken off the stream.
Waiting ==
    /\ rhdr.msg = NoMsg
    /\ rpending = NoPending
    /\ rfile = NoFile
    /\ got = Len(rbuf)

\* What BodyInPlace says of the first message.
FirstInPlace ==
    /\ rpending.body_len = body_len(1)
    /\ rpending.file_offset <= rpending.body_len
    /\ got - Len(rbuf) = body_at(1) + rpending.file_offset
    /\ rfile.data = Bytes(body_at(1), body_at(1) + rpending.file_offset)

\* Its header was parsed, and its body is in place.
Arriving ==
    /\ 1 \in 1 .. N
    /\ rhdr.msg = 1
    /\ rpending.initialized
    /\ IF IsIncomingDataStreaming THEN rpending.storage_initialized
       ELSE /\ ~rpending.storage_initialized
            /\ rpending.file_offset = 0
            /\ rfile = NoFile
    /\ FirstInPlace

\* What the event loop found before it made a call still holds.
LoopPlace ==
    /\ pc[Loop] = "parse" => Waiting
    /\ pc[Loop] = "store" =>
          Arriving /\ ~IsIncomingDataStreaming /\ 1 \in Streamed
    /\ pc[Loop] = "stream" =>
          Arriving /\ IsIncomingDataStreaming /\ rfile.open

\* After the first message, or an event, the type is gone for good.
TypeInv ==
    /\ rhdr.type \in {Framing, "NONE"}
    /\ rhdr.type = "NONE" => rhdr.msg = NoMsg

PlaceInv ==
    rhdr.type = "HTTP" =>
        /\ Waiting \/ Arriving
        /\ LoopPlace
        /\ \A t \in Threads : HasMsg(t) => Arriving /\ Ready

\* The numbers and flags of the invariant IInv.
LEMMA MemNumbers ==
    ASSUME MemOK
    PROVE  /\ got \in Nat /\ Sent \in Nat /\ got <= Sent
           /\ rbuf \in Seq(1 .. Sent) /\ Len(rbuf) \in Nat
           /\ rbuf_size \in Nat /\ Len(rbuf) < rbuf_size
           /\ rpending.body_len \in Nat /\ rpending.file_offset \in Nat
           /\ rpending.file_offset <= rpending.body_len
           /\ rpending.initialized \in BOOLEAN
           /\ rpending.storage \in {"MEM", "DISC"}
           /\ rpending.storage_initialized \in BOOLEAN
           /\ rfile.open \in BOOLEAN /\ rfile.data \in Seq(1 .. Sent)
<1>1. Sent \in Nat
  BY StreamTypes
<1>2. got \in Nat /\ got <= Sent
  BY <1>1 DEF MemOK
<1>3. rbuf \in Seq(1 .. Sent) /\ Len(rbuf) \in Nat /\ rbuf_size \in Nat
      /\ Len(rbuf) < rbuf_size
  BY DEF MemOK
<1>4. rpending \in PendingType /\ rpending.file_offset <= rpending.body_len
  BY DEF MemOK
<1>5. rfile \in FileType
  BY DEF MemOK
<1>6. QED
  BY <1>1, <1>2, <1>3, <1>4, <1>5 DEF PendingType, FileType

\* The first message's places in the stream.
LEMMA FirstNumbers ==
    ASSUME 1 \in 1 .. N
    PROVE  /\ at[1] = 0 /\ hdr_len[1] \in Nat \ {0}
           /\ body_at(1) = hdr_len[1] /\ body_len(1) \in Nat
           /\ body_at(1) + body_len(1) = at[2] /\ at[2] \in Nat
<1>1. at[1] = 0 /\ hdr_len[1] \in Nat \ {0}
  BY StreamAssumption DEF StreamAssumption
<1>2. at[2] \in Nat
  <2>1. 2 \in 1 .. N + 1
    BY StreamAssumption DEF StreamAssumption
  <2>2. QED
    BY <2>1, StreamAssumption DEF StreamAssumption
<1>3. 1 + 1 = 2
  OBVIOUS
<1>4. body_at(1) = hdr_len[1] /\ body_len(1) = at[2] - hdr_len[1]
  BY <1>1, <1>3 DEF body_at, body_len
<1>5. body_len(1) \in Nat
  BY StreamTypes
<1>6. QED
  BY <1>1, <1>2, <1>4, <1>5

\* What is in a buffer of which nothing was taken off.
LEMMA WaitingBytes ==
    ASSUME MemOK, StreamOK, got = Len(rbuf)
    PROVE  \A k \in 1 .. Len(rbuf) : rbuf[k] = k
<1>1. got \in Nat /\ got - got = 0 /\ got - 0 = got
  BY MemNumbers
<1>2. rbuf = Bytes(0, got)
  BY <1>1 DEF StreamOK, BufferIsStream
<1>3. QED
  BY <1>1, <1>2 DEF Bytes

\* The parser finds the first message in front, and no other.
LEMMA FrontIsFirst ==
    ASSUME MemOK, StreamOK, got = Len(rbuf), rbuf # <<>>
    PROVE  InFront = {1}
<1>1. 1 \in 1 .. N /\ N \in Nat
  BY FirstThere, StreamAssumption DEF StreamAssumption
<1>2. Len(rbuf) \in Nat \ {0}
  BY MemNumbers, EmptySeq
<1>3. \A k \in 1 .. Len(rbuf) : rbuf[k] = k
  BY WaitingBytes
<1>4. at[1] = 0 /\ hdr_len[1] \in Nat \ {0}
  BY <1>1, FirstNumbers
<1>5. 1 \in InFront
  <2>1. ASSUME NEW k \in 1 .. Smaller(hdr_len[1], Len(rbuf))
        PROVE  rbuf[k] = at[1] + k
    <3>1. k \in 1 .. Len(rbuf) /\ 0 + k = k
      BY <1>2, <1>4 DEF Smaller
    <3>2. QED
      BY <1>3, <1>4, <3>1
  <2>2. QED
    BY <1>1, <2>1 DEF InFront
<1>6. ASSUME NEW i \in InFront
      PROVE  i = 1
  <2>1. i \in 1 .. N /\ \A k \in 1 .. Smaller(hdr_len[i], Len(rbuf)) : rbuf[k] = at[i] + k
    BY DEF InFront
  <2>2. hdr_len[i] \in Nat \ {0} /\ at[i] \in Nat
    BY <2>1, StreamTypes, StreamAssumption DEF StreamAssumption
  <2>3. 1 \in 1 .. Smaller(hdr_len[i], Len(rbuf))
    BY <1>2, <2>2 DEF Smaller
  <2>4. rbuf[1] = at[i] + 1 /\ rbuf[1] = 1
    BY <1>2, <1>3, <2>1, <2>3
  <2>5. at[i] = 0
    BY <2>2, <2>4
  <2>6. SUFFICES ASSUME i # 1
                 PROVE  FALSE
    OBVIOUS
  <2>7. i - 1 \in 1 .. N /\ (i - 1) + 1 = i
    BY <1>1, <2>1, <2>6
  <2>8. at[i - 1] \in Nat /\ hdr_len[i - 1] \in Nat \ {0}
    BY <2>7, StreamTypes, StreamAssumption DEF StreamAssumption
  <2>9. at[i - 1] + hdr_len[i - 1] <= at[i]
    BY <2>7, StreamAssumption DEF StreamAssumption
  <2>10. QED
    BY <2>5, <2>8, <2>9
<1>7. QED
  BY <1>5, <1>6

\* Where the threads are after t has moved.
LEMMA GotoPlaces ==
    ASSUME ControlOK, NEW t \in Threads, NEW where, Goto(t, where)
    PROVE  pc'[t] = where /\ \A u \in Threads \ {t} : pc'[u] = pc[u]
BY DEF ControlOK, Goto

-----------------------------------------------------------------------------
(* Steps that leave the message where it is *)

\* What is said of the message is about these variables only.
LEMMA SameMessage ==
    ASSUME UNCHANGED <<got, rbuf, rpending, rhdr, rfile>>
    PROVE  /\ Waiting' <=> Waiting
           /\ Arriving' <=> Arriving
           /\ Ready' <=> Ready
           /\ IsIncomingDataStreaming' <=> IsIncomingDataStreaming
<1>1. Waiting' <=> Waiting
  BY DEF Waiting
<1>2. IsIncomingDataStreaming' <=> IsIncomingDataStreaming
  BY DEF IsIncomingDataStreaming
<1>3. FirstInPlace' <=> FirstInPlace
  BY DEF FirstInPlace, Bytes
<1>4. Arriving' <=> Arriving
  BY <1>2, <1>3 DEF Arriving
<1>5. Ready' <=> Ready
  BY <1>2 DEF Ready, IsIncomingMsgComplete
<1>6. QED
  BY <1>1, <1>2, <1>4, <1>5

\* A thread goes where it may.
LEMMA MovesPlace ==
    ASSUME ControlOK, PlaceInv, NEW t \in Threads, NEW where, Goto(t, where),
           UNCHANGED <<got, rbuf, rpending, rhdr, rfile>>,
           rhdr.type = "HTTP" /\ where \in {"take", "use", "clear"} =>
               Arriving /\ Ready,
           rhdr.type = "HTTP" /\ t = Loop =>
               /\ where = "parse" => Waiting
               /\ where = "store" =>
                     Arriving /\ ~IsIncomingDataStreaming /\ 1 \in Streamed
               /\ where = "stream" =>
                     Arriving /\ IsIncomingDataStreaming /\ rfile.open
    PROVE  PlaceInv'
<1>1. SUFFICES ASSUME rhdr'.type = "HTTP"
               PROVE  /\ Waiting' \/ Arriving'
                      /\ LoopPlace'
                      /\ \A u \in Threads : HasMsg(u)' => Arriving' /\ Ready'
  BY DEF PlaceInv
<1>2. rhdr.type = "HTTP" /\ rhdr' = rhdr /\ rfile' = rfile
  BY <1>1
<1>3. /\ Waiting \/ Arriving
      /\ LoopPlace
      /\ \A u \in Threads : HasMsg(u) => Arriving /\ Ready
  BY <1>2 DEF PlaceInv
<1>4. /\ Waiting' <=> Waiting
      /\ Arriving' <=> Arriving
      /\ Ready' <=> Ready
      /\ IsIncomingDataStreaming' <=> IsIncomingDataStreaming
  BY SameMessage
<1>5. pc'[t] = where /\ \A u \in Threads \ {t} : pc'[u] = pc[u]
  BY GotoPlaces
<1>6. Loop \in Threads
  BY DEF Threads
<1>7. LoopPlace'
  <2>1. CASE t = Loop
    BY <1>2, <1>4, <1>5, <2>1 DEF LoopPlace
  <2>2. CASE t # Loop
    <3>1. pc'[Loop] = pc[Loop]
      BY <1>5, <1>6, <2>2
    <3>2. QED
      BY <1>2, <1>3, <1>4, <3>1 DEF LoopPlace
  <2>3. QED
    BY <2>1, <2>2
<1>8. ASSUME NEW u \in Threads, HasMsg(u)'
      PROVE  Arriving' /\ Ready'
  <2>1. CASE u = t
    BY <1>2, <1>4, <1>5, <1>8, <2>1 DEF HasMsg
  <2>2. CASE u # t
    BY <1>3, <1>4, <1>5, <1>8, <2>2 DEF HasMsg
  <2>3. QED
    BY <2>1, <2>2
<1>9. QED
  BY <1>3, <1>4, <1>7, <1>8

\* No thread goes anywhere.
LEMMA StaysPlace ==
    ASSUME PlaceInv, UNCHANGED <<got, rbuf, rpending, rhdr, rfile, pc>>
    PROVE  PlaceInv'
<1>1. /\ Waiting' <=> Waiting
      /\ Arriving' <=> Arriving
      /\ Ready' <=> Ready
      /\ IsIncomingDataStreaming' <=> IsIncomingDataStreaming
  BY SameMessage
<1>2. \A u \in Threads : HasMsg(u)' <=> HasMsg(u)
  BY DEF HasMsg
<1>3. LoopPlace' <=> LoopPlace
  BY <1>1 DEF LoopPlace
<1>4. QED
  BY <1>1, <1>2, <1>3 DEF PlaceInv

\* A message is there, or none is.
LEMMA InitializedIsArriving ==
    ASSUME PlaceInv, rhdr.type = "HTTP"
    PROVE  IF rpending.initialized THEN Arriving ELSE Waiting
<1>1. Waiting \/ Arriving
  BY DEF PlaceInv
<1>2. Waiting => ~rpending.initialized
  BY DEF Waiting, NoPending
<1>3. Arriving => rpending.initialized
  BY DEF Arriving
<1>4. QED
  BY <1>1, <1>2, <1>3

\* The event loop begins a call.
LEMMA CallsPlace ==
    ASSUME IInv, PlaceInv,
           ReadCall \/ InitCall \/ SetRfileCall \/ StreamCall
    PROVE  PlaceInv'
<1>1. Loop \in Threads /\ ControlOK
  BY DEF Threads, IInv
<1>2. rhdr.type = "HTTP" => IF rpending.initialized THEN Arriving ELSE Waiting
  BY InitializedIsArriving
<1>3. CASE ReadCall
  <2>1. /\ Goto(Loop, "read")
        /\ UNCHANGED <<got, rbuf, rpending, rhdr, rfile>>
    BY <1>3 DEF ReadCall, Call
  <2>2. QED
    BY <1>1, <2>1, MovesPlace
<1>4. CASE InitCall
  <2>1. /\ Goto(Loop, "parse") /\ ~rpending.initialized
        /\ UNCHANGED <<got, rbuf, rpending, rhdr, rfile>>
    BY <1>4 DEF InitCall, InitWanted, Call
  <2>2. QED
    BY <1>1, <1>2, <2>1, MovesPlace
<1>5. CASE SetRfileCall
  <2>1. /\ Goto(Loop, "store") /\ rpending.initialized
        /\ rhdr.msg \in Streamed /\ ~rpending.storage_initialized
        /\ UNCHANGED <<got, rbuf, rpending, rhdr, rfile>>
    BY <1>5 DEF SetRfileCall, Call
  <2>2. rhdr.type = "HTTP" => Arriving /\ ~IsIncomingDataStreaming /\ 1 \in Streamed
    BY <1>2, <2>1 DEF Arriving
  <2>3. QED
    BY <1>1, <2>1, <2>2, MovesPlace
<1>6. CASE StreamCall
  <2>1. /\ Goto(Loop, "stream") /\ rpending.initialized
        /\ IsIncomingDataStreaming /\ rfile.open
        /\ UNCHANGED <<got, rbuf, rpending, rhdr, rfile>>
    BY <1>6 DEF StreamCall, Call
  <2>2. QED
    BY <1>1, <1>2, <2>1, MovesPlace
<1>7. QED
  BY <1>3, <1>4, <1>5, <1>6

\* A call that does nothing, or the end of the loop.
LEMMA IdlePlace ==
    ASSUME IInv, PlaceInv, InitNothing \/ InitNoMemory \/ ClearError \/ StrayEvent
    PROVE  PlaceInv'
<1>1. Loop \in Threads /\ ControlOK
  BY DEF Threads, IInv
<1>2. UNCHANGED <<got, rbuf, rpending, rhdr, rfile>>
  BY DEF InitNothing, InitNoMemory, ClearError, StrayEvent
<1>3. CASE Goto(Loop, "idle")
  BY <1>1, <1>2, <1>3, MovesPlace
<1>4. CASE Goto(Loop, "closed")
  BY <1>1, <1>2, <1>4, MovesPlace
<1>5. CASE UNCHANGED pc
  BY <1>2, <1>5, StaysPlace
<1>6. QED
  BY <1>3, <1>4, <1>5 DEF InitNothing, InitNoMemory, ClearError, StrayEvent

\* A message is given out when it is ready.
LEMMA DispatchPlace ==
    ASSUME IInv, PlaceInv, Dispatch
    PROVE  PlaceInv'
<1>1. Loop \in Threads /\ Workers \subseteq Threads /\ ControlOK
  BY DEF Threads, IInv
<1>2. UNCHANGED <<got, rbuf, rpending, rhdr, rfile>> /\ Ready
  BY DEF Dispatch
<1>3. rhdr.type = "HTTP" => Arriving /\ Ready
  <2>1. rpending.initialized
    BY <1>2 DEF Ready, IsIncomingMsgComplete
  <2>2. QED
    BY <1>2, <2>1, InitializedIsArriving
<1>4. PICK t \in Threads : Goto(t, "take")
  BY <1>1 DEF Dispatch
<1>5. QED
  BY <1>1, <1>2, <1>3, <1>4, MovesPlace

\* A message that was given out stays ready.
LEMMA ProcessPlace ==
    ASSUME IInv, PlaceInv, NEW t \in Threads,
           TakeBuf(t) \/ UseBuf(t) \/ ReleaseMsg(t)
    PROVE  PlaceInv'
<1>1. ControlOK
  BY DEF IInv
<1>2. UNCHANGED <<got, rbuf, rpending, rhdr, rfile>>
  BY DEF TakeBuf, UseBuf, ReleaseMsg
<1>3. rhdr.type = "HTTP" /\ HasMsg(t) => Arriving /\ Ready
  BY DEF PlaceInv
<1>4. CASE TakeBuf(t)
  <2>1. Goto(t, "use") /\ HasMsg(t)
    BY <1>4 DEF TakeBuf, HasMsg
  <2>2. QED
    BY <1>1, <1>2, <1>3, <2>1, MovesPlace
<1>5. CASE UseBuf(t)
  <2>1. (Goto(t, "clear") \/ Goto(t, "undefined")) /\ HasMsg(t)
    BY <1>5 DEF UseBuf, HasMsg
  <2>2. QED
    BY <1>1, <1>2, <1>3, <2>1, MovesPlace
<1>6. CASE ReleaseMsg(t)
  <2>1. Goto(t, "idle")
    BY <1>6 DEF ReleaseMsg
  <2>2. QED
    BY <1>1, <1>2, <2>1, MovesPlace
<1>7. QED
  BY <1>4, <1>5, <1>6

\* The rest is said of the first message only.
LEMMA LeavesPlace ==
    ASSUME rhdr'.type # "HTTP"
    PROVE  PlaceInv'
BY DEF PlaceInv

\* ResetRbuf leaves no type.
LEMMA ResetPlace ==
    ASSUME ResetRbuf
    PROVE  PlaceInv' /\ rhdr'.type = "NONE" /\ rhdr'.msg = NoMsg
BY LeavesPlace DEF ResetRbuf, NoHdr

-----------------------------------------------------------------------------
(* Read *)

\* What a Read over TCP did: it appended what came, or dropped everything
\* because of an event.
Appended ==
    /\ got' \in Nat /\ Len(rbuf') \in Nat
    /\ got' - Len(rbuf') = got - Len(rbuf)
    /\ Len(rbuf) <= Len(rbuf')
    /\ rbuf_size' = Grown(Len(rbuf'))
    /\ ptr' \in IF Grown(Len(rbuf')) = rbuf_size THEN {ptr} ELSE {ptr, Moved}
    /\ UNCHANGED <<rhdr, rpending, rfile, leaked, error, reset, ub>>

Dropped ==
    /\ ResetRbuf
    /\ error \/ "read" \in Failures \/ "realloc" \in Failures
    /\ UNCHANGED <<rbuf_size, ptr, ub>>

\* A Read over TCP does one of the two, and drops only after an event.
LEMMA ReadEffect ==
    ASSUME Transport = "tcp", IInv, Read
    PROVE  Appended \/ Dropped
<1>1. PICK r \in SSLConn_Read(rbuf_size - Len(rbuf)) :
         /\ got' = IF r.n > 0 THEN got + r.n ELSE got
         /\ IF error \/ r.err THEN ResetRbuf /\ UNCHANGED <<rbuf_size, ptr, ub>>
            ELSE ReadBytes(r.n)
  BY DEF Read
<1>2. MemOK /\ SeenOK
  BY DEF IInv
<1>3. \/ r.n = -1
      \/ r.n \in Nat /\ r.n <= rbuf_size - Len(rbuf) /\ got + r.n <= Sent
  BY <1>2, ReadResults
<1>4. \/ r.err = FALSE /\ r.n \in Nat
      \/ r.err = TRUE /\ "read" \in Failures
  <2>1. \/ \E n \in 0 .. Smaller(rbuf_size - Len(rbuf), Sent - got) : r = Result(n, FALSE)
        \/ r = Result(-1, TRUE) /\ "read" \in Failures
    BY Zenon DEF SSLConn_Read
  <2>2. CASE r = Result(-1, TRUE) /\ "read" \in Failures
    BY <2>2 DEF Result
  <2>3. CASE \E n \in 0 .. Smaller(rbuf_size - Len(rbuf), Sent - got) : r = Result(n, FALSE)
    <3>1. r.err = FALSE /\ r.n \in Int /\ r.n # -1
      BY <2>3 DEF Result
    <3>2. QED
      BY <1>3, <3>1
  <2>4. QED
    BY <2>1, <2>2, <2>3
<1>5. CASE error \/ r.err
  BY <1>1, <1>4, <1>5 DEF Dropped
<1>6. CASE ~(error \/ r.err)
  <2> DEFINE n == r.n
             end == got + r.n
  <2>1. n \in Nat /\ end <= Sent /\ ReadBytes(n)
    BY <1>1, <1>3, <1>4, <1>6
  <2>2. got \in Nat /\ Sent \in Nat /\ rbuf \in Seq(1 .. Sent) /\ Len(rbuf) \in Nat
    BY <1>2, MemNumbers
  <2>3. got' = end /\ end \in 0 .. Sent /\ got <= end /\ end - got = n
    BY <1>1, <2>1, <2>2
  <2>4. Received(n) = rbuf \o Bytes(got, end)
    BY <2>1 DEF Received
  <2> HIDE DEF n, end
  <2>5. Len(Received(n)) = Len(rbuf) + n
    <3>1. Bytes(got, end) \in Seq(1 .. Sent) /\ Len(Bytes(got, end)) = n
      BY <2>2, <2>3, BytesTypes
    <3>2. QED
      BY <2>2, <2>4, <3>1, ConcatProperties
  <2>6. ub' = ub
    <3>1. ub' = (ub \/ (n < 0 /\ rbuf = <<>>))
      BY <2>1 DEF ReadBytes
    <3>2. ~(n < 0) /\ ub \in BOOLEAN
      BY <1>2, <2>1 DEF SeenOK
    <3>3. QED
      BY <3>1, <3>2
  <2>7. CASE ResetRbuf
    <3>1. CASE "realloc" \in Failures /\ UNCHANGED <<rbuf_size, ptr>>
      BY <2>6, <2>7, <3>1 DEF Dropped
    <3>2. CASE UNCHANGED error /\ ~error
      BY <2>7, <3>2 DEF ResetRbuf
    <3>3. QED
      BY <1>6, <2>1, <3>1, <3>2 DEF ReadBytes
  <2>8. CASE ~ResetRbuf
    <3>1. /\ rbuf' = Received(n)
          /\ rbuf_size' = Grown(Len(Received(n)))
          /\ ptr' \in IF Grown(Len(Received(n))) = rbuf_size THEN {ptr} ELSE {ptr, Moved}
          /\ UNCHANGED <<rhdr, rpending, rfile, leaked, error, reset>>
      BY <2>1, <2>8 DEF ReadBytes
    <3>2. Len(rbuf') = Len(rbuf) + n
      BY <2>5, <3>1
    <3>3. got' \in Nat /\ Len(rbuf') \in Nat
          /\ got' - Len(rbuf') = got - Len(rbuf) /\ Len(rbuf) <= Len(rbuf')
      BY <2>1, <2>2, <2>3, <3>2
    <3>4. QED
      BY <2>6, <3>1, <3>3 DEF Appended
  <2>9. QED
    BY <2>7, <2>8
<1>7. QED
  BY <1>5, <1>6

\* More bytes leave the message where it is.
LEMMA AppendedMessage ==
    ASSUME MemOK, Appended
    PROVE  /\ Waiting => Waiting'
           /\ Arriving => Arriving'
           /\ Ready => Ready'
<1>1. got \in Nat /\ Len(rbuf) \in Nat /\ rpending.body_len \in Nat
  BY MemNumbers
<1>2. /\ got' \in Nat /\ Len(rbuf') \in Nat
      /\ got' - Len(rbuf') = got - Len(rbuf)
      /\ Len(rbuf) <= Len(rbuf')
      /\ UNCHANGED <<rhdr, rpending, rfile>>
  BY DEF Appended
<1>3. Waiting => Waiting'
  <2>1. got = Len(rbuf) => got' = Len(rbuf')
    BY <1>1, <1>2
  <2>2. QED
    BY <1>2, <2>1 DEF Waiting
<1>4. IsIncomingDataStreaming' <=> IsIncomingDataStreaming
  BY <1>2 DEF IsIncomingDataStreaming
<1>5. Arriving => Arriving'
  <2>1. FirstInPlace => FirstInPlace'
    BY <1>2 DEF FirstInPlace, Bytes
  <2>2. QED
    BY <1>2, <1>4, <2>1 DEF Arriving
<1>6. Ready => Ready'
  <2>1. Len(rbuf) >= rpending.body_len => Len(rbuf') >= rpending'.body_len
    BY <1>1, <1>2
  <2>2. IsIncomingMsgComplete => IsIncomingMsgComplete'
    BY <1>2, <2>1 DEF IsIncomingMsgComplete
  <2>3. QED
    BY <1>2, <1>4, <2>2 DEF Ready
<1>7. QED
  BY <1>3, <1>5, <1>6

\* TCPSession::Read, in a loop that does not parse after every Read.
LEMMA ReadPlace ==
    ASSUME Transport = "tcp", ~ReparsesHdr, IInv, PlaceInv, Read
    PROVE  PlaceInv'
<1>1. MemOK /\ ControlOK /\ Loop \in Threads
  BY DEF IInv, Threads
<1>2. Goto(Loop, "idle")
  BY DEF Read
<1>3. CASE Dropped
  BY <1>3, ResetPlace DEF Dropped
<1>4. CASE Appended
  <2>1. SUFFICES ASSUME rhdr'.type = "HTTP"
                 PROVE  /\ Waiting' \/ Arriving'
                        /\ LoopPlace'
                        /\ \A u \in Threads : HasMsg(u)' => Arriving' /\ Ready'
    BY DEF PlaceInv
  <2>2. rhdr.type = "HTTP"
    BY <1>4, <2>1 DEF Appended
  <2>3. /\ Waiting \/ Arriving
        /\ \A u \in Threads : HasMsg(u) => Arriving /\ Ready
    BY <2>2 DEF PlaceInv
  <2>4. (Waiting => Waiting') /\ (Arriving => Arriving') /\ (Ready => Ready')
    BY <1>1, <1>4, AppendedMessage
  <2>5. pc'[Loop] = "idle" /\ \A u \in Threads \ {Loop} : pc'[u] = pc[u]
    BY <1>1, <1>2, GotoPlaces
  <2>6. LoopPlace'
    BY <2>5 DEF LoopPlace
  <2>7. \A u \in Threads : HasMsg(u)' => HasMsg(u)
    BY <2>5 DEF HasMsg
  <2>8. QED
    BY <2>3, <2>4, <2>6, <2>7
<1>5. QED
  BY <1>3, <1>4, ReadEffect

-----------------------------------------------------------------------------
(* InitIncomingMsg *)

\* What it did to the first message: its header was parsed, or it waits on.
Parsed ==
    /\ hdr_len[1] <= Len(rbuf)
    /\ InitParsed(1, hdr_len[1], body_len(1))
    /\ UNCHANGED error

NotParsed ==
    /\ ~HdrInBuf(1)
    /\ rhdr' = [rhdr EXCEPT !.msg = NoMsg]
    /\ UNCHANGED <<rbuf, rpending, rfile, leaked, error, reset>>

\* Nothing but an event of another call makes it drop what is there.
LEMMA InitEffect ==
    ASSUME MemOK, StreamOK, Waiting, rhdr.type = "HTTP", InitIncomingMsg
    PROVE  Parsed \/ NotParsed \/ (ResetRbuf /\ error)
<1>1. got = Len(rbuf) /\ rbuf # <<>> /\ InitHTTP
  BY DEF Waiting, InitIncomingMsg
<1>2. InFront = {1}
  BY <1>1, FrontIsFirst
<1>3. IF HdrInBuf(1) /\ ~error
      THEN InitParsed(1, hdr_len[1], body_len(1)) /\ UNCHANGED error
      ELSE InitFails(FALSE)
  <2>1. PICK i \in InFront :
           IF HdrInBuf(i) /\ ~error
           THEN InitParsed(i, hdr_len[i], body_len(i)) /\ UNCHANGED error
           ELSE InitFails(FALSE)
    BY <1>1, <1>2 DEF InitHTTP
  <2>2. i = 1
    BY <1>2
  <2>3. QED
    BY <2>1, <2>2
<1>4. CASE error
  BY <1>3, <1>4 DEF InitFails
<1>5. CASE ~error /\ ~HdrInBuf(1)
  BY <1>3, <1>5 DEF InitFails, NotParsed
<1>6. CASE ~error /\ HdrInBuf(1)
  <2>1. Len(rbuf) \in Nat /\ hdr_len[1] \in Nat
    BY <1>1, HeaderThere, MemNumbers
  <2>2. hdr_len[1] <= Len(rbuf)
    BY <1>6, <2>1 DEF HdrInBuf
  <2>3. QED
    BY <1>3, <1>6, <2>2 DEF Parsed
<1>7. QED
  BY <1>4, <1>5, <1>6

\* A header that was parsed leaves the body in place.
LEMMA ParsedArrives ==
    ASSUME MemOK, Waiting, Parsed, rbuf # <<>>, UNCHANGED got
    PROVE  Arriving' /\ rhdr'.type = rhdr.type
<1> DEFINE b == body_at(1)
<1>1. 1 \in 1 .. N
  BY FirstThere
<1>2. /\ hdr_len[1] \in Nat \ {0} /\ b = hdr_len[1] /\ body_len(1) \in Nat
      /\ hdr_len[1] <= Len(rbuf)
  BY <1>1, FirstNumbers DEF Parsed
<1>3. /\ rbuf' = ShiftRbuf(rbuf, hdr_len[1])
      /\ rhdr' = [rhdr EXCEPT !.msg = 1]
      /\ rpending' = [rpending EXCEPT !.initialized = TRUE, !.storage = "MEM",
                                     !.body_len = body_len(1), !.file_offset = 0]
      /\ UNCHANGED <<rfile, leaked, reset>>
  BY DEF Parsed, InitParsed
<1>4. rpending = NoPending /\ rfile = NoFile /\ got = Len(rbuf)
  BY DEF Waiting
<1>5. /\ rpending'.initialized /\ rpending'.storage = "MEM"
      /\ rpending'.body_len = body_len(1) /\ rpending'.file_offset = 0
      /\ ~rpending'.storage_initialized
  BY <1>3, <1>4 DEF NoPending
<1>6. got' - Len(rbuf') = b
  <2>1. rbuf \in Seq(1 .. Sent) /\ Len(rbuf) \in Nat
    BY MemNumbers
  <2>2. Len(rbuf') = Len(rbuf) - Smaller(hdr_len[1], Len(rbuf))
    BY <1>2, <1>3, <2>1, ShiftTypes
  <2>3. Smaller(hdr_len[1], Len(rbuf)) = hdr_len[1]
    BY <1>2, <2>1 DEF Smaller
  <2>4. QED
    BY <1>2, <1>4, <2>1, <2>2, <2>3
<1>7. rfile'.data = Bytes(b, b)
  BY <1>2, <1>3, <1>4, EmptyBytes DEF NoFile
<1>8. rhdr'.msg = 1 /\ rhdr'.type = rhdr.type
  <2>1. rhdr \in [type : {"HTTP", "BASIC", "NONE"}, msg : 0 .. N]
    BY DEF MemOK
  <2>2. QED
    BY <1>3, <2>1
<1>9. FirstInPlace'
  <2>1. b + 0 = b /\ 0 <= body_len(1)
    BY <1>2
  <2>2. /\ rpending'.file_offset <= rpending'.body_len
        /\ b + rpending'.file_offset = b
    BY <1>5, <2>1
  <2>3. QED
    BY <1>5, <1>6, <1>7, <2>2 DEF FirstInPlace, body_at, body_len, Bytes
<1>10. ~IsIncomingDataStreaming'
  BY <1>5 DEF IsIncomingDataStreaming
<1>11. QED
  BY <1>1, <1>3, <1>4, <1>5, <1>8, <1>9, <1>10 DEF Arriving

\* A header that was not leaves it waiting.
LEMMA NotParsedWaits ==
    ASSUME MemOK, Waiting, NotParsed, UNCHANGED got
    PROVE  Waiting' /\ rhdr'.type = rhdr.type
<1>1. rhdr \in [type : {"HTTP", "BASIC", "NONE"}, msg : 0 .. N]
  BY DEF MemOK
<1>2. rhdr'.msg = NoMsg /\ rhdr'.type = rhdr.type
  BY <1>1 DEF NotParsed
<1>3. QED
  BY <1>2 DEF NotParsed, Waiting

\* The type stays or goes, and a message without a type is none.
LEMMA TypeStays ==
    ASSUME MemOK, InitIncomingMsg
    PROVE  /\ rhdr'.type \in {rhdr.type, "NONE"}
           /\ rhdr'.type = "NONE" => rhdr'.msg = NoMsg
<1>1. rhdr \in [type : {"HTTP", "BASIC", "NONE"}, msg : 0 .. N]
  BY DEF MemOK
<1>2. ASSUME NEW i, rhdr' = [rhdr EXCEPT !.msg = i]
      PROVE  rhdr'.type = rhdr.type /\ rhdr'.msg = i
  BY <1>1, <1>2
<1>3. ASSUME NEW i, NEW used, NEW len, InitParsed(i, used, len)
      PROVE  rhdr'.type = rhdr.type /\ rhdr'.msg = i
  BY <1>2, <1>3 DEF InitParsed
<1>4. ASSUME NEW bad, InitFails(bad)
      PROVE  rhdr'.type \in {rhdr.type, "NONE"} /\ rhdr'.msg = NoMsg
  BY <1>2, <1>4 DEF InitFails, ResetRbuf, NoHdr
<1>5. CASE rhdr.type = "HTTP" /\ InitHTTP
  <2>1. CASE \E bad : InitFails(bad)
    BY <1>4, <2>1
  <2>2. CASE \E i, used, len : InitParsed(i, used, len)
    BY <1>3, <1>5, <2>2
  <2>3. QED
    BY <1>5, <2>1, <2>2, Zenon DEF InitHTTP
<1>6. CASE rhdr.type = "BASIC" /\ InitBasic
  <2>1. CASE InitFails(FALSE)
    BY <1>4, <2>1
  <2>2. CASE \E i, used, len : InitParsed(i, used, len)
    BY <1>3, <1>6, <2>2
  <2>3. QED
    BY <1>6, <2>1, <2>2, Zenon DEF InitBasic
<1>7. CASE rhdr.type = "NONE" /\ InitUnknown
  BY <1>3, <1>7 DEF InitUnknown
<1>8. QED
  BY <1>1, <1>5, <1>6, <1>7 DEF InitIncomingMsg

\* TCPSession::InitIncomingMsg.
LEMMA InitPlace ==
    ASSUME IInv, StreamOK, PlaceInv, InitIncomingMsg
    PROVE  PlaceInv'
<1>1. MemOK /\ ControlOK /\ Loop \in Threads
  BY DEF IInv, Threads
<1>2. /\ pc[Loop] = "parse" /\ Goto(Loop, "idle") /\ rbuf # <<>>
      /\ UNCHANGED got
  BY DEF InitIncomingMsg, Unlocked
<1>3. SUFFICES ASSUME rhdr'.type = "HTTP"
               PROVE  PlaceInv'
  BY LeavesPlace
<1>4. rhdr.type = "HTTP"
  BY <1>1, <1>3, TypeStays
<1>5. Waiting
  BY <1>2, <1>4 DEF PlaceInv, LoopPlace
<1>6. Waiting' \/ Arriving'
  <2>1. ~ResetRbuf
    BY <1>3, ResetPlace
  <2>2. Parsed \/ NotParsed
    BY <1>1, <1>4, <1>5, <2>1, InitEffect
  <2>3. QED
    BY <1>1, <1>2, <1>5, <2>2, ParsedArrives, NotParsedWaits
<1>7. pc'[Loop] = "idle" /\ \A u \in Threads \ {Loop} : pc'[u] = pc[u]
  BY <1>1, <1>2, GotoPlaces
<1>8. \A u \in Threads : ~HasMsg(u)'
  <2>1. \A u \in Threads : ~HasMsg(u)
    <3>1. ~Arriving
      BY <1>5 DEF Waiting, Arriving, NoPending
    <3>2. QED
      BY <1>4, <3>1 DEF PlaceInv
  <2>2. QED
    BY <1>7, <2>1 DEF HasMsg
<1>9. LoopPlace'
  BY <1>7 DEF LoopPlace
<1>10. QED
  BY <1>6, <1>8, <1>9 DEF PlaceInv

-----------------------------------------------------------------------------
(* set_rfile, StreamIncomingMsg and ClearIncomingMsg *)

\* Nobody was given a message that is still to be put into its file.
LEMMA NotGivenYet ==
    ASSUME PlaceInv, rhdr.type = "HTTP", pc[Loop] \in {"store", "stream"}
    PROVE  \A t \in Threads : ~HasMsg(t)
<1>1. SUFFICES ASSUME NEW t \in Threads, HasMsg(t)
               PROVE  FALSE
  OBVIOUS
<1>2. Arriving /\ Ready
  BY <1>1 DEF PlaceInv
<1>3. CASE pc[Loop] = "store"
  <2>1. ~IsIncomingDataStreaming /\ 1 \in Streamed
    BY <1>3 DEF PlaceInv, LoopPlace
  <2>2. rhdr.msg = 1
    BY <1>2 DEF Arriving
  <2>3. QED
    BY <1>2, <2>1, <2>2 DEF Ready
<1>4. CASE pc[Loop] = "stream"
  BY <1>2, <1>4 DEF PlaceInv, LoopPlace, Ready
<1>5. QED
  BY <1>3, <1>4

\* The event loop ends a call that changed the message, which nobody has.
LEMMA EndsPlace ==
    ASSUME IInv, PlaceInv, rhdr.type = "HTTP",
           pc[Loop] \in {"store", "stream"}, Goto(Loop, "idle"), Arriving'
    PROVE  PlaceInv'
<1>1. ControlOK /\ Loop \in Threads
  BY DEF IInv, Threads
<1>2. pc'[Loop] = "idle" /\ \A u \in Threads \ {Loop} : pc'[u] = pc[u]
  BY <1>1, GotoPlaces
<1>3. \A t \in Threads : ~HasMsg(t)'
  BY <1>2, NotGivenYet DEF HasMsg
<1>4. LoopPlace'
  BY <1>2 DEF LoopPlace
<1>5. QED
  BY <1>3, <1>4 DEF PlaceInv

\* TCPSession::set_rfile: the file of the first message is empty.
LEMMA SetRfilePlace ==
    ASSUME IInv, PlaceInv, SetRfile
    PROVE  PlaceInv'
<1>1. MemOK
  BY DEF IInv
<1>2. /\ pc[Loop] = "store" /\ Goto(Loop, "idle")
      /\ rpending' = [rpending EXCEPT !.file_offset = 0, !.storage = "DISC",
                                     !.storage_initialized = TRUE]
      /\ rfile'.data = <<>>
      /\ UNCHANGED <<got, rbuf, rhdr>>
  BY DEF SetRfile, Unlocked
<1>3. SUFFICES ASSUME rhdr'.type = "HTTP"
               PROVE  PlaceInv'
  BY LeavesPlace
<1>4. rhdr.type = "HTTP"
  BY <1>2, <1>3
<1>5. Arriving /\ ~IsIncomingDataStreaming
  BY <1>2, <1>4 DEF PlaceInv, LoopPlace
<1>6. /\ rpending.file_offset = 0 /\ rfile = NoFile /\ rpending.initialized
      /\ rhdr.msg = 1 /\ 1 \in 1 .. N /\ FirstInPlace
  BY <1>5 DEF Arriving
<1>7. /\ rpending'.initialized /\ rpending'.storage = "DISC"
      /\ rpending'.storage_initialized
      /\ rpending'.file_offset = rpending.file_offset
      /\ rpending'.body_len = rpending.body_len
  <2>1. rpending \in PendingType
    BY <1>1 DEF MemOK
  <2>2. QED
    BY <1>2, <1>6, <2>1 DEF PendingType
<1>8. FirstInPlace'
  <2>1. rfile'.data = rfile.data
    BY <1>2, <1>6 DEF NoFile
  <2>2. QED
    BY <1>2, <1>6, <1>7, <2>1 DEF FirstInPlace, Bytes
<1>9. Arriving'
  BY <1>2, <1>6, <1>7, <1>8 DEF Arriving, IsIncomingDataStreaming
<1>10. QED
  BY <1>2, <1>4, <1>9, EndsPlace

\* The first n bytes of the buffer are the next n of the stream.
LEMMA FrontBytes ==
    ASSUME MemOK, StreamOK, NEW n \in Nat, n <= Len(rbuf)
    PROVE  SubSeq(rbuf, 1, n) = Bytes(got - Len(rbuf), (got - Len(rbuf)) + n)
<1> DEFINE a == got - Len(rbuf)
           s == SubSeq(rbuf, 1, n)
           t == Bytes(a, a + n)
<1>1. /\ rbuf \in Seq(1 .. Sent) /\ Len(rbuf) \in Nat /\ Len(rbuf) <= got
      /\ got \in Nat /\ got <= Sent /\ Sent \in Nat
      /\ rbuf = Bytes(a, got)
  BY MemNumbers DEF StreamOK, BufferIsStream
<1>2. a \in Nat /\ got - a = Len(rbuf)
  BY <1>1
<1>3. \A k \in 1 .. Len(rbuf) : rbuf[k] = a + k
  <2>1. \A k \in 1 .. got - a : Bytes(a, got)[k] = a + k
    BY DEF Bytes
  <2>2. QED
    BY <1>1, <1>2, <2>1
<1>4. s \in Seq(1 .. Sent) /\ Len(s) = n /\ \A k \in 1 .. n : s[k] = rbuf[k]
  <2>1. \A i \in 1 .. n : rbuf[i] \in 1 .. Sent
    BY <1>1, ElementOfSeq
  <2>2. /\ s \in Seq(1 .. Sent)
        /\ Len(s) = IF 1 <= n THEN n - 1 + 1 ELSE 0
        /\ \A k \in 1 .. n - 1 + 1 : s[k] = rbuf[1 + k - 1]
    BY <1>1, <2>1, SubSeqProperties
  <2>3. n - 1 + 1 = n /\ \A k \in 1 .. n : 1 + k - 1 = k
    OBVIOUS
  <2>4. Len(s) = n
    BY <2>2
  <2>5. QED
    BY <2>2, <2>3, <2>4
<1>5. t \in Seq(1 .. Sent) /\ Len(t) = n /\ \A k \in 1 .. n : t[k] = a + k
  <2> DEFINE end == a + n
  <2>1. end \in 0 .. Sent /\ a <= end /\ end - a = n
    BY <1>1, <1>2
  <2>2. t = Bytes(a, end)
    OBVIOUS
  <2> HIDE DEF a, end, t
  <2>3. t \in Seq(1 .. Sent) /\ Len(t) = n
    BY <1>1, <1>2, <2>1, <2>2, BytesTypes
  <2>4. \A k \in 1 .. end - a : t[k] = a + k
    BY <2>2 DEF Bytes
  <2>5. QED
    BY <2>1, <2>3, <2>4
<1> HIDE DEF a, s, t
<1>6. s = t
  <2>1. \A k \in 1 .. n : s[k] = t[k]
    <3>1. ASSUME NEW k \in 1 .. n
          PROVE  s[k] = t[k]
      <4>1. k \in 1 .. Len(rbuf)
        BY <1>1
      <4>2. QED
        BY <1>3, <1>4, <1>5, <4>1
    <3>2. QED
      BY <3>1
  <2>2. QED
    BY <1>4, <1>5, <2>1, SeqEqual
<1>7. QED
  BY <1>6 DEF a, s, t

\* n bytes more of the body go from the buffer to the file.
LEMMA StreamArrives ==
    ASSUME MemOK, StreamOK, Arriving, IsIncomingDataStreaming, UNCHANGED got,
           NEW n \in 0 .. Streamable, Stream(n)
    PROVE  Arriving'
<1> DEFINE b == body_at(1)
           off == rpending.file_offset
<1>1. /\ Len(rbuf) \in Nat /\ got \in Nat /\ Sent \in Nat /\ got <= Sent
      /\ rbuf \in Seq(1 .. Sent) /\ Len(rbuf) <= got
      /\ rpending.body_len \in Nat /\ off \in Nat /\ off <= rpending.body_len
  BY MemNumbers DEF StreamOK
<1>2. n \in Nat /\ n <= Len(rbuf) /\ off + n <= rpending.body_len
  BY <1>1 DEF Streamable, Smaller
<1>3. /\ 1 \in 1 .. N /\ rhdr.msg = 1 /\ rpending.initialized
      /\ rpending.storage_initialized
      /\ rpending.body_len = body_len(1)
      /\ got - Len(rbuf) = b + off
      /\ rfile.data = Bytes(b, b + off)
  BY DEF Arriving, FirstInPlace
<1>4. b \in Nat
  BY <1>3, FirstNumbers
<1>5. /\ rbuf' = ShiftRbuf(rbuf, n)
      /\ rpending' = [rpending EXCEPT !.file_offset = @ + n]
      /\ rfile'.data = rfile.data \o SubSeq(rbuf, 1, n)
      /\ UNCHANGED rhdr
  BY DEF Stream
<1>6. /\ rpending'.file_offset = off + n
      /\ rpending'.body_len = rpending.body_len
      /\ rpending'.initialized /\ rpending'.storage_initialized
      /\ rpending'.storage = rpending.storage
  <2>1. rpending \in PendingType
    BY DEF MemOK
  <2>2. QED
    BY <1>3, <1>5, <2>1 DEF PendingType
<1>7. got' - Len(rbuf') = b + (off + n)
  <2>1. Len(rbuf') = Len(rbuf) - Smaller(n, Len(rbuf))
    BY <1>1, <1>2, <1>5, ShiftTypes
  <2>2. Smaller(n, Len(rbuf)) = n
    BY <1>1, <1>2 DEF Smaller
  <2>3. Len(rbuf') = Len(rbuf) - n /\ got' = got
    BY <2>1, <2>2
  <2> HIDE DEF b, off
  <2>4. got - (Len(rbuf) - n) = b + (off + n)
    BY <1>1, <1>2, <1>3, <1>4
  <2>5. QED
    BY <2>3, <2>4
<1>8. rfile'.data = Bytes(b, b + (off + n))
  <2>1. SubSeq(rbuf, 1, n) = Bytes(b + off, (b + off) + n)
    BY <1>2, <1>3, FrontBytes
  <2>2. /\ (b + off) + n = b + (off + n) /\ b + off \in Nat
        /\ b + (off + n) \in Nat /\ b <= b + off /\ b + off <= b + (off + n)
    BY <1>1, <1>2, <1>4
  <2> HIDE DEF b, off
  <2>3. Bytes(b, b + off) \o Bytes(b + off, b + (off + n)) = Bytes(b, b + (off + n))
    BY <1>4, <2>2, BytesConcat
  <2>4. QED
    BY <1>3, <1>5, <2>1, <2>2, <2>3
<1>9. FirstInPlace'
  BY <1>2, <1>3, <1>6, <1>7, <1>8 DEF FirstInPlace, Bytes, body_at, body_len
<1>10. IsIncomingDataStreaming'
  BY <1>6 DEF IsIncomingDataStreaming
<1>11. QED
  BY <1>3, <1>5, <1>6, <1>9, <1>10 DEF Arriving

\* TCPSession::StreamIncomingMsg: it fails, or moves some bytes.
LEMMA StreamEffect ==
    ASSUME MemOK, StreamIncomingMsg
    PROVE  \/ ResetRbuf /\ "write" \in Failures
           \/ \E n \in 0 .. Streamable : Stream(n)
<1>1. Streamable \in Nat
  <2>1. /\ Len(rbuf) \in Nat
        /\ rpending.body_len \in Nat /\ rpending.file_offset \in Nat
        /\ rpending.file_offset <= rpending.body_len
    BY MemNumbers
  <2>2. QED
    BY <2>1 DEF Streamable, Smaller
<1>2. Streamable \in 0 .. Streamable /\ 1 .. Streamable \subseteq 0 .. Streamable
  BY <1>1
<1>3. QED
  BY <1>2 DEF StreamIncomingMsg

\* TCPSession::StreamIncomingMsg.
LEMMA StreamPlace ==
    ASSUME IInv, StreamOK, PlaceInv, StreamIncomingMsg
    PROVE  PlaceInv'
<1>1. MemOK
  BY DEF IInv
<1>2. pc[Loop] = "stream" /\ Goto(Loop, "idle") /\ UNCHANGED got
  BY DEF StreamIncomingMsg, Unlocked
<1>3. CASE ResetRbuf
  BY <1>3, ResetPlace
<1>4. CASE \E n \in 0 .. Streamable : Stream(n)
  <2>1. PICK n \in 0 .. Streamable : Stream(n)
    BY <1>4
  <2>2. SUFFICES ASSUME rhdr'.type = "HTTP"
                 PROVE  PlaceInv'
    BY LeavesPlace
  <2>3. rhdr.type = "HTTP"
    BY <2>1, <2>2 DEF Stream
  <2>4. Arriving /\ IsIncomingDataStreaming
    BY <1>2, <2>3 DEF PlaceInv, LoopPlace
  <2>5. Arriving'
    BY <1>1, <1>2, <2>1, <2>4, StreamArrives
  <2>6. QED
    BY <1>2, <2>3, <2>5, EndsPlace
<1>5. QED
  BY <1>1, <1>3, <1>4, StreamEffect

\* TCPSession::ClearIncomingMsg: the type is gone.
LEMMA ClearPlace ==
    ASSUME NEW t \in Threads, ClearIncomingMsg(t)
    PROVE  PlaceInv'
BY LeavesPlace DEF ClearIncomingMsg, NoHdr

-----------------------------------------------------------------------------
(* The body of the message that arrives is in place *)

\* Every step leaves the type, or takes it away.
LEMMA TypeInvStep ==
    ASSUME IInv, TypeInv, [Next]_vars
    PROVE  TypeInv'
<1>1. MemOK
  BY DEF IInv
<1>2. CASE UNCHANGED rhdr
  BY <1>2 DEF TypeInv
<1>3. CASE rhdr' = NoHdr
  BY <1>3 DEF TypeInv, NoHdr
<1>4. CASE InitIncomingMsg
  BY <1>1, <1>4, TypeStays DEF TypeInv
<1>5. CASE Read
  BY <1>2, <1>3, <1>5 DEF Read, ReadBytes, ResetRbuf
<1>6. CASE StreamIncomingMsg
  BY <1>2, <1>3, <1>6 DEF StreamIncomingMsg, Stream, ResetRbuf
<1>7. CASE \E t \in Threads : ClearIncomingMsg(t)
  BY <1>3, <1>7 DEF ClearIncomingMsg
<1>8. CASE \/ ReadCall \/ InitCall \/ InitNothing \/ InitNoMemory
           \/ SetRfileCall \/ SetRfile \/ StreamCall
           \/ Dispatch \/ ClearError \/ StrayEvent \/ UNCHANGED vars
           \/ \E t \in Threads : TakeBuf(t) \/ UseBuf(t) \/ ReleaseMsg(t)
  <2>1. UNCHANGED rhdr
    BY <1>8
       DEF ReadCall, InitCall, InitNothing, InitNoMemory, SetRfileCall, SetRfile,
           StreamCall, Dispatch, ClearError, StrayEvent, vars, TakeBuf, UseBuf,
           ReleaseMsg, Call
  <2>2. QED
    BY <1>2, <2>1
<1>9. QED
  BY <1>4, <1>5, <1>6, <1>7, <1>8 DEF Next, EventLoop, Process

\* Every step leaves the first message in place.
LEMMA PlaceInvStep ==
    ASSUME Transport = "tcp", ~ReparsesHdr, IInv, StreamOK, PlaceInv, [Next]_vars
    PROVE  PlaceInv'
<1>1. CASE ReadCall \/ InitCall \/ SetRfileCall \/ StreamCall
  BY <1>1, CallsPlace
<1>2. CASE InitNothing \/ InitNoMemory \/ ClearError \/ StrayEvent
  BY <1>2, IdlePlace
<1>3. CASE Read
  BY <1>3, ReadPlace
<1>4. CASE InitIncomingMsg
  BY <1>4, InitPlace
<1>5. CASE SetRfile
  BY <1>5, SetRfilePlace
<1>6. CASE StreamIncomingMsg
  BY <1>6, StreamPlace
<1>7. CASE Dispatch
  BY <1>7, DispatchPlace
<1>8. CASE \E t \in Threads : TakeBuf(t) \/ UseBuf(t) \/ ReleaseMsg(t)
  BY <1>8, ProcessPlace
<1>9. CASE \E t \in Threads : ClearIncomingMsg(t)
  BY <1>9, ClearPlace
<1>10. CASE UNCHANGED vars
  BY <1>10, StaysPlace DEF vars
<1>11. QED
  BY <1>1, <1>2, <1>3, <1>4, <1>5, <1>6, <1>7, <1>8, <1>9, <1>10
     DEF Next, EventLoop, Process

\* The session begins in place.
LEMMA PlaceInit == Init => TypeInv /\ PlaceInv
<1> SUFFICES ASSUME Init
             PROVE  TypeInv /\ PlaceInv
  OBVIOUS
<1>1. /\ got = 0 /\ rbuf = <<>> /\ rpending = NoPending /\ rfile = NoFile
      /\ rhdr = [type |-> Framing, msg |-> NoMsg]
      /\ \A t \in Threads : pc[t] = "idle"
  BY DEF Init
<1>2. Waiting
  <2>1. Len(<<>>) = 0
    OBVIOUS
  <2>2. QED
    BY <1>1, <2>1 DEF Waiting
<1>3. pc[Loop] = "idle"
  BY <1>1 DEF Threads
<1>4. TypeInv
  BY <1>1 DEF TypeInv
<1>5. PlaceInv
  BY <1>1, <1>2, <1>3 DEF PlaceInv, LoopPlace, HasMsg
<1>6. QED
  BY <1>4, <1>5

\* The invariant so far.
MsgInv == IInv /\ StreamOK /\ TypeInv /\ PlaceInv

\* It is one: every part of it is inductive, given those before it.
LEMMA MsgInvHolds ==
    ASSUME Transport = "tcp", ~ReparsesHdr
    PROVE  Spec => []MsgInv
<1>1. Init => MsgInv
  BY IInvInit, StreamInit, PlaceInit DEF MsgInv
<1>2. MsgInv /\ [Next]_vars => MsgInv'
  BY IInvStep, StreamOKStep, TypeInvStep, PlaceInvStep DEF MsgInv
<1>3. QED
  BY <1>1, <1>2, PTL DEF Spec

\* What rpending_ says of an HTTP message is true, for any threads and failures:
\* the front of rbuf_ is the next byte of its body, and what came before it is
\* in the file (TCPSession.cc:353-449, 1145-1239), if the loop asks
\* IsIncomingMsgInitialized before it calls InitIncomingMsg.
THEOREM BodyStaysInPlace ==
    ASSUME Transport = "tcp", Framing = "HTTP", ~ReparsesHdr
    PROVE  Spec => []BodyInPlace
<1>1. MsgInv => BodyInPlace
  <2>1. SUFFICES ASSUME MsgInv, rpending.initialized, rhdr.msg # NoMsg
                 PROVE  BodyInPlace
    BY DEF BodyInPlace
  <2>2. rhdr.type = "HTTP"
    BY <2>1 DEF MsgInv, TypeInv
  <2>3. Arriving
    BY <2>1, <2>2, InitializedIsArriving DEF MsgInv
  <2>4. QED
    BY <2>3 DEF Arriving, FirstInPlace, BodyInPlace
<1>2. QED
  BY <1>1, MsgInvHolds, PTL

\* What a step out of InitIncomingMsg finds when all of a header is there.
LEMMA ParseStep ==
    ASSUME Framing = "HTTP", IInv, StreamOK, TypeInv, PlaceInv, 1 \notin Requests,
           InitIncomingMsg, \E i \in InFront : Len(rbuf) >= hdr_len[i]
    PROVE  rpending'.initialized \/ error'
<1>1. MemOK /\ pc[Loop] = "parse" /\ rbuf # <<>>
  BY DEF IInv, InitIncomingMsg, Unlocked
<1>2. CASE rhdr.type = "HTTP"
  <2>1. Waiting
    BY <1>1, <1>2 DEF PlaceInv, LoopPlace
  <2>2. InFront = {1}
    BY <1>1, <2>1, FrontIsFirst DEF Waiting
  <2>3. HdrInBuf(1)
    BY <2>2 DEF HdrInBuf
  <2>4. Parsed \/ (ResetRbuf /\ error)
    BY <1>1, <1>2, <2>1, <2>3, InitEffect DEF NotParsed
  <2>5. CASE Parsed
    <3>1. rpending' = [rpending EXCEPT !.initialized = TRUE, !.storage = "MEM",
                                      !.body_len = body_len(1), !.file_offset = 0]
      BY <2>5 DEF Parsed, InitParsed
    <3>2. QED
      BY <2>1, <3>1 DEF Waiting, NoPending
  <2>6. CASE ResetRbuf
    BY <2>6 DEF ResetRbuf
  <2>7. QED
    BY <2>4, <2>5, <2>6
<1>3. CASE rhdr.type = "NONE"
  BY <1>3 DEF InitIncomingMsg, InitUnknown
<1>4. QED
  BY <1>2, <1>3 DEF TypeInv

\* When InitIncomingMsg is done a header that is all in rbuf_ was parsed, or an
\* event says why not (TCPSession.h:156, HTTPFraming.cc:896), if the message
\* is a response: a request without a body waits for a byte that need not come.
THEOREM HeadersAreRecognised ==
    ASSUME Transport = "tcp", Framing = "HTTP", ~ReparsesHdr, 1 \notin Requests
    PROVE  Spec => HdrRecognised
<1> DEFINE Step == pc[Loop] = "parse" /\ pc'[Loop] = "idle" /\ rbuf # <<>>
                     /\ (\E i \in InFront : Len(rbuf) >= hdr_len[i])
                   => rpending'.initialized \/ error'
<1>1. ASSUME MsgInv, [Next]_vars
      PROVE  Step
  <2>1. SUFFICES ASSUME pc[Loop] = "parse", pc'[Loop] = "idle", rbuf # <<>>,
                        \E i \in InFront : Len(rbuf) >= hdr_len[i]
                 PROVE  rpending'.initialized \/ error'
    OBVIOUS
  <2>2. IInv /\ ControlOK /\ StreamOK /\ TypeInv /\ PlaceInv
    BY <1>1 DEF MsgInv, IInv
  <2>3. CASE InitIncomingMsg
    BY <2>1, <2>2, <2>3, ParseStep
  <2>4. CASE InitNoMemory
    BY <2>4 DEF InitNoMemory
  <2>5. CASE \E t \in Threads : Process(t)
    <3>1. PICK t \in Threads : Process(t)
      BY <2>5
    <3>2. pc[t] # "parse" /\ \E where : Goto(t, where)
      BY <3>1 DEF Process, TakeBuf, UseBuf, ClearIncomingMsg, ReleaseMsg, Unlocked
    <3>3. Loop \in Threads /\ t # Loop
      BY <2>1, <3>2 DEF Threads
    <3>4. pc'[Loop] = pc[Loop]
      BY <2>2, <3>2, <3>3, GotoPlaces
    <3>5. QED
      BY <2>1, <3>4
  <2>6. ~(ReadCall \/ InitCall \/ SetRfileCall \/ StreamCall \/ Dispatch \/ ClearError)
    BY <2>1 DEF ReadCall, InitCall, SetRfileCall, StreamCall, Dispatch, ClearError, Call
  <2>7. ~(Read \/ SetRfile \/ StreamIncomingMsg \/ InitNothing)
    BY <2>1 DEF Read, SetRfile, StreamIncomingMsg, InitNothing, Unlocked
  <2>8. CASE StrayEvent \/ UNCHANGED vars
    BY <2>1, <2>8 DEF StrayEvent, vars
  <2>9. QED
    BY <1>1, <2>3, <2>4, <2>5, <2>6, <2>7, <2>8 DEF Next, EventLoop
<1>2. MsgInv /\ [Next]_vars => [Step]_vars
  BY <1>1
<1>3. QED
  BY <1>2, MsgInvHolds, PTL DEF Spec, HdrRecognised

-----------------------------------------------------------------------------
(* What a careful loop gives out *)

\* The loop of README.txt, but for the call of InitIncomingMsg after every
\* Read: it ends the session after an event.  If there are workers nothing may
\* fail that discards the message that one of them has.
CarefulLoop ==
    /\ Transport = "tcp" /\ Framing = "HTTP"
    /\ ~ReparsesHdr /\ ClosesOnEvent
    /\ Workers = {} \/ Failures \cap {"read", "realloc", "stray"} = {}

\* The event loop is in a call that fails if an event is set.
InCall == pc[Loop] \in {"read", "parse", "store", "stream"}

\* Only the first message is ever given out.  Without a type what
\* InitIncomingMsg finds is none, and comes with an event.
GivenInv ==
    /\ rhdr.type = "NONE" =>
          /\ \A t \in Threads : ~HasMsg(t)
          /\ rpending.initialized => error \/ pc[Loop] = "closed"
    /\ HasMsg(Loop) => Workers = {}
    /\ "stray" \notin Failures /\ InCall => ~error

\* A thread goes where it may, and no message is lost on the way.
LEMMA MovesGiven ==
    ASSUME ControlOK, GivenInv, NEW t \in Threads, NEW where, Goto(t, where),
           where \in {"take", "use", "clear"} => HasMsg(t),
           rhdr'.type = "NONE" =>
               \/ rhdr.type = "NONE"
               \/ /\ where \notin {"take", "use", "clear"}
                  /\ \A u \in Threads \ {t} : ~HasMsg(u),
           rhdr'.type = "NONE" /\ rpending'.initialized =>
               error' \/ pc'[Loop] = "closed",
           "stray" \notin Failures /\ InCall' => ~error'
    PROVE  GivenInv'
<1>1. pc'[t] = where /\ \A u \in Threads \ {t} : pc'[u] = pc[u]
  BY GotoPlaces
<1>2. ASSUME NEW u \in Threads, HasMsg(u)'
      PROVE  HasMsg(u)
  <2>1. CASE u = t
    BY <1>1, <1>2, <2>1 DEF HasMsg
  <2>2. CASE u # t
    BY <1>1, <1>2, <2>2 DEF HasMsg
  <2>3. QED
    BY <2>1, <2>2
<1>3. HasMsg(Loop)' => Workers = {}
  <2>1. Loop \in Threads
    BY DEF Threads
  <2>2. QED
    BY <1>2, <2>1 DEF GivenInv
<1>4. ASSUME rhdr'.type = "NONE", NEW u \in Threads
      PROVE  ~HasMsg(u)'
  <2>1. CASE rhdr.type = "NONE"
    BY <1>2, <2>1 DEF GivenInv
  <2>2. CASE /\ where \notin {"take", "use", "clear"}
             /\ \A v \in Threads \ {t} : ~HasMsg(v)
    <3>1. CASE u = t
      BY <1>1, <2>2, <3>1 DEF HasMsg
    <3>2. CASE u # t
      BY <1>2, <2>2, <3>2
    <3>3. QED
      BY <3>1, <3>2
  <2>3. QED
    BY <1>4, <2>1, <2>2
<1>5. QED
  BY <1>3, <1>4 DEF GivenInv

\* One thread has the message.
LEMMA OneHasMsg ==
    ASSUME ControlOK, GivenInv, NEW t \in Threads, HasMsg(t)
    PROVE  \A u \in Threads \ {t} : ~HasMsg(u)
<1>1. SUFFICES ASSUME NEW u \in Threads, u # t, HasMsg(u)
               PROVE  FALSE
  OBVIOUS
<1>2. t \in Workers /\ u \in Workers
  BY <1>1 DEF GivenInv, Threads
<1>3. pc[t] # "idle" /\ pc[u] # "idle"
  BY <1>1 DEF HasMsg
<1>4. rtid = t /\ rtid = u
  BY <1>2, <1>3 DEF ControlOK
<1>5. QED
  BY <1>1, <1>4

\* The message that a thread has is the first, and ready.
LEMMA GivenIsFirst ==
    ASSUME CarefulLoop, TypeInv, PlaceInv, GivenInv, NEW t \in Threads, HasMsg(t)
    PROVE  rhdr.type = "HTTP" /\ Arriving /\ Ready
<1>1. rhdr.type # "NONE"
  BY DEF GivenInv
<1>2. rhdr.type = "HTTP"
  BY <1>1 DEF TypeInv, CarefulLoop
<1>3. QED
  BY <1>2 DEF PlaceInv

\* A call begins without an event.
LEMMA CallsGiven ==
    ASSUME ControlOK, GivenInv,
           ReadCall \/ InitCall \/ SetRfileCall \/ StreamCall
    PROVE  GivenInv'
<1>1. Loop \in Threads
  BY DEF Threads
<1>2. /\ pc[Loop] = "idle" /\ ~error
      /\ \E where \in {"read", "parse", "store", "stream"} : Goto(Loop, where)
      /\ UNCHANGED <<rhdr, rpending, error>>
  BY DEF ReadCall, InitCall, SetRfileCall, StreamCall, Call
<1>3. ~(rhdr.type = "NONE" /\ rpending.initialized)
  BY <1>2 DEF GivenInv
<1>4. PICK where \in {"read", "parse", "store", "stream"} : Goto(Loop, where)
  BY <1>2
<1>5. where \notin {"take", "use", "clear"}
  OBVIOUS
<1>6. QED
  BY <1>1, <1>2, <1>3, <1>4, <1>5, MovesGiven

\* A call that changes neither type nor message ends.
LEMMA EndsGiven ==
    ASSUME ControlOK, GivenInv, InCall, Goto(Loop, "idle"),
           rhdr'.type = rhdr.type,
           rpending'.initialized = rpending.initialized,
           error => error'
    PROVE  GivenInv'
<1>1. Loop \in Threads /\ pc[Loop] # "closed"
  BY DEF Threads, InCall
<1>2. pc'[Loop] = "idle"
  BY <1>1, GotoPlaces
<1>3. ~InCall'
  BY <1>2 DEF InCall
<1>4. rhdr'.type = "NONE" /\ rpending'.initialized => error'
  BY <1>1 DEF GivenInv
<1>5. QED
  BY <1>1, <1>3, <1>4, MovesGiven

\* So does one that takes the type from a message that nobody has.
LEMMA ResetGiven ==
    ASSUME ControlOK, GivenInv, InCall, Goto(Loop, "idle"), ResetRbuf,
           \A t \in Threads : ~HasMsg(t)
    PROVE  GivenInv'
<1>1. Loop \in Threads
  BY DEF Threads
<1>2. pc'[Loop] = "idle" /\ error' = TRUE
  BY <1>1, GotoPlaces DEF ResetRbuf
<1>3. ~InCall'
  BY <1>2 DEF InCall
<1>4. QED
  BY <1>1, <1>2, <1>3, MovesGiven

\* A call that does nothing, an event, and the end of the loop.
LEMMA IdleGiven ==
    ASSUME CarefulLoop, ControlOK, GivenInv,
           InitNothing \/ InitNoMemory \/ ClearError \/ StrayEvent
    PROVE  GivenInv'
<1>1. Loop \in Threads /\ UNCHANGED <<rhdr, rpending>>
  BY DEF Threads, InitNothing, InitNoMemory, ClearError, StrayEvent
<1>2. CASE InitNothing \/ InitNoMemory
  <2>1. InCall /\ Goto(Loop, "idle") /\ (error => error')
    BY <1>2 DEF InitNothing, InitNoMemory, InCall, Unlocked
  <2>2. QED
    BY <1>1, <2>1, EndsGiven
<1>3. CASE ClearError
  <2>1. Goto(Loop, "closed")
    BY <1>3 DEF ClearError, CarefulLoop
  <2>2. pc'[Loop] = "closed"
    BY <1>1, <2>1, GotoPlaces
  <2>3. ~InCall'
    BY <2>2 DEF InCall
  <2>4. QED
    BY <1>1, <2>1, <2>2, <2>3, MovesGiven
<1>4. CASE StrayEvent
  <2>1. "stray" \in Failures /\ error' = TRUE /\ UNCHANGED pc
    BY <1>4 DEF StrayEvent
  <2>2. \A t \in Threads : HasMsg(t)' <=> HasMsg(t)
    BY <2>1 DEF HasMsg
  <2>3. QED
    BY <1>1, <2>1, <2>2 DEF GivenInv
<1>5. QED
  BY <1>2, <1>3, <1>4

\* TCPSession::Read discards nothing that a thread has.
LEMMA ReadGiven ==
    ASSUME CarefulLoop, IInv, GivenInv, Read
    PROVE  GivenInv'
<1>1. ControlOK /\ Loop \in Threads
  BY DEF IInv, Threads
<1>2. pc[Loop] = "read" /\ Goto(Loop, "idle")
  BY DEF Read, CarefulLoop, Unlocked
<1>3. InCall
  BY <1>2 DEF InCall
<1>4. CASE Appended
  BY <1>1, <1>2, <1>3, <1>4, EndsGiven DEF Appended
<1>5. CASE Dropped
  <2>1. CASE Workers = {}
    <3>1. \A t \in Threads : ~HasMsg(t)
      BY <1>2, <2>1 DEF Threads, HasMsg
    <3>2. QED
      BY <1>1, <1>2, <1>3, <1>5, <3>1, ResetGiven DEF Dropped
  <2>2. CASE Failures \cap {"read", "realloc", "stray"} = {}
    <3>1. ~error
      BY <1>3, <2>2 DEF GivenInv
    <3>2. QED
      BY <1>5, <2>2, <3>1 DEF Dropped
  <2>3. QED
    BY <2>1, <2>2 DEF CarefulLoop
<1>6. QED
  BY <1>4, <1>5, ReadEffect DEF CarefulLoop

\* Nobody has a message of which the header is parsed, or which is put into its
\* file.
LEMMA NobodyHas ==
    ASSUME CarefulLoop, TypeInv, PlaceInv, GivenInv,
           pc[Loop] \in {"parse", "store", "stream"}
    PROVE  \A t \in Threads : ~HasMsg(t)
<1>1. CASE rhdr.type = "NONE"
  BY <1>1 DEF GivenInv
<1>2. CASE rhdr.type = "HTTP" /\ pc[Loop] = "parse"
  <2>1. ~Arriving
    BY <1>2 DEF PlaceInv, LoopPlace, Waiting, Arriving, NoPending
  <2>2. QED
    BY <1>2, <2>1 DEF PlaceInv
<1>3. CASE rhdr.type = "HTTP" /\ pc[Loop] # "parse"
  BY <1>3, NotGivenYet
<1>4. QED
  BY <1>1, <1>2, <1>3 DEF TypeInv, CarefulLoop

\* TCPSession::InitIncomingMsg: the header of the first message, or an event.
LEMMA InitGiven ==
    ASSUME CarefulLoop, MsgInv, GivenInv, InitIncomingMsg
    PROVE  GivenInv'
<1>1. IInv /\ StreamOK /\ TypeInv /\ PlaceInv /\ MemOK /\ ControlOK
      /\ Loop \in Threads
  BY DEF MsgInv, IInv, Threads
<1>2. pc[Loop] = "parse" /\ Goto(Loop, "idle")
  BY DEF InitIncomingMsg, Unlocked
<1>3. InCall /\ \A t \in Threads : ~HasMsg(t)
  BY <1>1, <1>2, NobodyHas DEF InCall
<1>4. CASE ResetRbuf
  BY <1>1, <1>2, <1>3, <1>4, ResetGiven
<1>5. CASE rhdr.type = "HTTP" /\ ~ResetRbuf
  <2>1. Waiting
    BY <1>1, <1>2, <1>5 DEF PlaceInv, LoopPlace
  <2>2. Parsed \/ NotParsed
    BY <1>1, <1>5, <2>1, InitEffect
  <2>3. rhdr \in [type : {"HTTP", "BASIC", "NONE"}, msg : 0 .. N]
    BY <1>1 DEF MemOK
  <2>4. rhdr'.type = "HTTP"
    BY <1>5, <2>2, <2>3 DEF Parsed, NotParsed, InitParsed
  <2>5. pc'[Loop] = "idle"
    BY <1>1, <1>2, GotoPlaces
  <2>6. QED
    BY <1>1, <1>2, <2>4, <2>5, MovesGiven DEF InCall
<1>6. CASE rhdr.type = "NONE"
  <2>1. error' = TRUE
    BY <1>6 DEF InitIncomingMsg, InitUnknown
  <2>2. pc'[Loop] = "idle"
    BY <1>1, <1>2, GotoPlaces
  <2>3. QED
    BY <1>1, <1>2, <1>6, <2>1, <2>2, MovesGiven DEF InCall
<1>7. QED
  BY <1>1, <1>4, <1>5, <1>6 DEF TypeInv, CarefulLoop

\* TCPSession::set_rfile.
LEMMA SetRfileGiven ==
    ASSUME IInv, GivenInv, SetRfile
    PROVE  GivenInv'
<1>1. ControlOK /\ rpending \in PendingType
  BY DEF IInv, MemOK
<1>2. /\ pc[Loop] = "store" /\ Goto(Loop, "idle")
      /\ rpending' = [rpending EXCEPT !.file_offset = 0, !.storage = "DISC",
                                     !.storage_initialized = TRUE]
      /\ UNCHANGED rhdr
      /\ error => error'
  BY DEF SetRfile, Unlocked
<1>3. rpending'.initialized = rpending.initialized
  BY <1>1, <1>2 DEF PendingType
<1>4. QED
  BY <1>1, <1>2, <1>3, EndsGiven DEF InCall

\* TCPSession::StreamIncomingMsg.
LEMMA StreamGiven ==
    ASSUME CarefulLoop, IInv, TypeInv, PlaceInv, GivenInv, StreamIncomingMsg
    PROVE  GivenInv'
<1>1. MemOK /\ ControlOK /\ rpending \in PendingType
  BY DEF IInv, MemOK
<1>2. pc[Loop] = "stream" /\ Goto(Loop, "idle")
  BY DEF StreamIncomingMsg, Unlocked
<1>3. InCall /\ \A t \in Threads : ~HasMsg(t)
  BY <1>2, NobodyHas DEF InCall
<1>4. CASE ResetRbuf
  BY <1>1, <1>2, <1>3, <1>4, ResetGiven
<1>5. CASE \E n \in 0 .. Streamable : Stream(n)
  <2>1. PICK n \in 0 .. Streamable : Stream(n)
    BY <1>5
  <2>2. /\ rhdr' = rhdr /\ error' = error
        /\ rpending' = [rpending EXCEPT !.file_offset = @ + n]
    BY <2>1 DEF Stream
  <2>3. rpending'.initialized = rpending.initialized
    BY <1>1, <2>2 DEF PendingType
  <2>4. QED
    BY <1>1, <1>2, <1>3, <2>2, <2>3, EndsGiven
<1>6. QED
  BY <1>1, <1>4, <1>5, StreamEffect

\* A message is given out that is one: what is none comes with an event.
LEMMA DispatchGiven ==
    ASSUME CarefulLoop, IInv, TypeInv, GivenInv, Dispatch
    PROVE  GivenInv' /\ rhdr.type = "HTTP"
<1>1. ControlOK /\ Loop \in Threads /\ Workers \subseteq Threads
  BY DEF IInv, Threads
<1>2. /\ pc[Loop] = "idle" /\ ~error /\ rpending.initialized
      /\ UNCHANGED <<rhdr, rpending, error>>
  BY DEF Dispatch, Ready, IsIncomingMsgComplete
<1>3. rhdr.type = "HTTP"
  BY <1>2 DEF GivenInv, TypeInv, CarefulLoop
<1>4. PICK t \in Threads : /\ Goto(t, "take")
                           /\ t = Loop => Workers = {}
  <2>1. CASE Workers = {}
    BY <1>1, <2>1 DEF Dispatch
  <2>2. CASE Workers # {}
    <3>1. PICK w \in Workers : Goto(w, "take")
      BY <2>2 DEF Dispatch
    <3>2. w # Loop
      BY EnvironmentAssumption DEF EnvironmentAssumption
    <3>3. QED
      BY <1>1, <3>1, <3>2
  <2>3. QED
    BY <2>1, <2>2
<1>5. pc'[t] = "take" /\ \A u \in Threads \ {t} : pc'[u] = pc[u]
  BY <1>1, <1>4, GotoPlaces
<1>6. HasMsg(Loop)' => Workers = {}
  <2>1. CASE t = Loop
    BY <1>4, <2>1
  <2>2. CASE t # Loop
    BY <1>1, <1>2, <1>5, <2>2 DEF HasMsg
  <2>3. QED
    BY <2>1, <2>2
<1>7. ~InCall'
  <2>1. pc'[Loop] \in {"idle", "take"}
    BY <1>1, <1>2, <1>5
  <2>2. QED
    BY <2>1 DEF InCall
<1>8. QED
  BY <1>2, <1>3, <1>6, <1>7 DEF GivenInv

\* A thread takes the message, copies it, and is done with it.
LEMMA ProcessGiven ==
    ASSUME IInv, GivenInv, NEW t \in Threads,
           TakeBuf(t) \/ UseBuf(t) \/ ReleaseMsg(t)
    PROVE  GivenInv'
<1>1. ControlOK /\ Loop \in Threads
  BY DEF IInv, Threads
<1>2. UNCHANGED <<rhdr, rpending, error>>
  BY DEF TakeBuf, UseBuf, ReleaseMsg
<1>3. PICK where \in {"use", "clear", "undefined", "idle"} :
         /\ Goto(t, where)
         /\ where \in {"use", "clear"} => HasMsg(t)
         /\ where = "idle" => pc[t] = "release"
         /\ pc[t] # "closed"
  <2>1. CASE TakeBuf(t)
    BY <2>1 DEF TakeBuf, HasMsg
  <2>2. CASE UseBuf(t)
    BY <2>2 DEF UseBuf, HasMsg
  <2>3. CASE ReleaseMsg(t)
    BY <2>3 DEF ReleaseMsg, Unlocked
  <2>4. QED
    BY <2>1, <2>2, <2>3
<1>4. pc'[t] = where /\ \A u \in Threads \ {t} : pc'[u] = pc[u]
  BY <1>1, <1>3, GotoPlaces
<1>5. pc'[Loop] = pc[Loop] \/ (pc[Loop] # "closed" /\ pc'[Loop] = where)
  BY <1>1, <1>3, <1>4
<1>6. "stray" \notin Failures /\ InCall' => ~error'
  BY <1>2, <1>5 DEF GivenInv, InCall
<1>7. rhdr'.type = "NONE" /\ rpending'.initialized =>
          error' \/ pc'[Loop] = "closed"
  BY <1>2, <1>5 DEF GivenInv
<1>8. QED
  BY <1>1, <1>2, <1>3, <1>6, <1>7, MovesGiven

\* TCPSession::ClearIncomingMsg: it is called by the one thread that has the
\* message, and the file of a message that is ready is closed.
LEMMA ClearGiven ==
    ASSUME CarefulLoop, IInv, TypeInv, PlaceInv, GivenInv, NEW t \in Threads,
           ClearIncomingMsg(t)
    PROVE  GivenInv' /\ error' = error /\ leaked' = leaked
<1>1. ControlOK /\ Loop \in Threads /\ MemOK
  BY DEF IInv, Threads
<1>2. PICK where \in {"idle", "release"} :
         Goto(t, where) /\ (t = Loop => where = "idle")
  BY DEF ClearIncomingMsg
<1>3. HasMsg(t) /\ pc[t] = "clear" /\ rhdr'.type = "NONE" /\ ~rpending'.initialized
  BY DEF ClearIncomingMsg, Unlocked, HasMsg, NoHdr, NoPending
<1>4. \A u \in Threads \ {t} : ~HasMsg(u)
  BY <1>1, <1>3, OneHasMsg
<1>5. error' = error /\ leaked' = leaked
  <2>1. CASE IsIncomingDataStreaming
    <3>1. rfile.open = FALSE
      <4>1. Ready
        BY <1>3, GivenIsFirst
      <4>2. rfile.open \in BOOLEAN
        BY <1>1, MemNumbers
      <4>3. QED
        BY <2>1, <4>1, <4>2 DEF Ready
    <3>2. error \in BOOLEAN /\ leaked \in BOOLEAN
      BY <1>1 DEF MemOK
    <3>3. error' = (error \/ rfile.open) /\ leaked' = (leaked \/ rfile.open)
      BY <2>1 DEF ClearIncomingMsg, ClearFile
    <3>4. QED
      BY <3>1, <3>2, <3>3
  <2>2. CASE ~IsIncomingDataStreaming
    BY <2>2 DEF ClearIncomingMsg
  <2>3. QED
    BY <2>1, <2>2
<1>6. pc'[t] = where /\ \A u \in Threads \ {t} : pc'[u] = pc[u]
  BY <1>1, <1>2, GotoPlaces
<1>7. "stray" \notin Failures /\ InCall' => ~error'
  <2>1. CASE t = Loop
    BY <1>2, <1>6, <2>1 DEF InCall
  <2>2. CASE t # Loop
    BY <1>1, <1>5, <1>6, <2>2 DEF GivenInv, InCall
  <2>3. QED
    BY <2>1, <2>2
<1>8. GivenInv'
  BY <1>1, <1>2, <1>3, <1>4, <1>7, MovesGiven
<1>9. QED
  BY <1>5, <1>8

\* Every step keeps it.
LEMMA GivenStep ==
    ASSUME CarefulLoop, MsgInv, GivenInv, [Next]_vars
    PROVE  GivenInv'
<1>1. IInv /\ ControlOK /\ TypeInv /\ PlaceInv
  BY DEF MsgInv, IInv
<1>2. CASE ReadCall \/ InitCall \/ SetRfileCall \/ StreamCall
  BY <1>1, <1>2, CallsGiven
<1>3. CASE InitNothing \/ InitNoMemory \/ ClearError \/ StrayEvent
  BY <1>1, <1>3, IdleGiven
<1>4. CASE Read
  BY <1>1, <1>4, ReadGiven
<1>5. CASE InitIncomingMsg
  BY <1>5, InitGiven
<1>6. CASE SetRfile
  BY <1>1, <1>6, SetRfileGiven
<1>7. CASE StreamIncomingMsg
  BY <1>1, <1>7, StreamGiven
<1>8. CASE Dispatch
  BY <1>1, <1>8, DispatchGiven
<1>9. CASE \E t \in Threads : TakeBuf(t) \/ UseBuf(t) \/ ReleaseMsg(t)
  BY <1>1, <1>9, ProcessGiven
<1>10. CASE \E t \in Threads : ClearIncomingMsg(t)
  BY <1>1, <1>10, ClearGiven
<1>11. CASE UNCHANGED vars
  <2>1. UNCHANGED <<rhdr, rpending, error, pc>>
    BY <1>11 DEF vars
  <2>2. \A t \in Threads : HasMsg(t)' <=> HasMsg(t)
    BY <2>1 DEF HasMsg
  <2>3. HasMsg(Loop)' <=> HasMsg(Loop)
    BY <2>1 DEF HasMsg
  <2>4. QED
    BY <2>1, <2>2, <2>3 DEF GivenInv, InCall
<1>12. QED
  BY <1>2, <1>3, <1>4, <1>5, <1>6, <1>7, <1>8, <1>9, <1>10, <1>11
     DEF Next, EventLoop, Process

\* Nobody has a message at first.
LEMMA GivenInit == Init => GivenInv
<1> SUFFICES ASSUME Init
             PROVE  GivenInv
  OBVIOUS
<1>1. /\ \A t \in Threads : pc[t] = "idle"
      /\ rpending = NoPending
  BY DEF Init
<1>2. \A t \in Threads : ~HasMsg(t)
  BY <1>1 DEF HasMsg
<1>3. Loop \in Threads
  BY DEF Threads
<1>4. QED
  BY <1>1, <1>2, <1>3 DEF GivenInv, InCall, NoPending

\* The invariant of a careful loop.
LEMMA GivenHolds ==
    ASSUME CarefulLoop
    PROVE  Spec => [](MsgInv /\ GivenInv)
<1>1. Spec => []MsgInv
  BY MsgInvHolds DEF CarefulLoop
<1>2. MsgInv /\ GivenInv /\ [Next]_vars => GivenInv'
  BY GivenStep
<1>3. QED
  BY <1>1, <1>2, GivenInit, PTL DEF Spec

-----------------------------------------------------------------------------
(* The application gets what was sent *)

First == [msg |-> 1, body |-> Bytes(body_at(1), at[2])]

\* Nothing was taken, or the first message, by a thread that has not cleared it
\* as long as the type is there.
TakenInv ==
    /\ taken = <<>> \/ (1 \in 1 .. N /\ taken = <<First>>)
    /\ \A t \in Threads : pc[t] \in {"take", "use"} => taken = <<>>
    /\ rhdr.type = "HTTP" /\ taken # <<>> => \E t \in Threads : pc[t] = "clear"

\* What a thread copies is the body of the first message.
LEMMA ReadyBody ==
    ASSUME MemOK, StreamOK, Arriving, Ready
    PROVE  (IF IsIncomingDataStreaming THEN rfile.data
            ELSE SubSeq(rbuf, 1, Smaller(rpending.body_len, Len(rbuf)))) =
               Bytes(body_at(1), at[2])
<1>1. /\ Len(rbuf) \in Nat /\ rpending.file_offset \in Nat
      /\ rpending.body_len \in Nat
  BY MemNumbers
<1>2. /\ rpending.body_len = body_len(1)
      /\ rpending.file_offset <= rpending.body_len
      /\ got - Len(rbuf) = body_at(1) + rpending.file_offset
      /\ rfile.data = Bytes(body_at(1), body_at(1) + rpending.file_offset)
      /\ 1 \in 1 .. N
  BY DEF Arriving, FirstInPlace
<1>3. body_at(1) \in Nat /\ body_at(1) + body_len(1) = at[2]
  BY <1>2, FirstNumbers
<1>4. CASE IsIncomingDataStreaming
  <2>1. rpending.file_offset = body_len(1)
    BY <1>1, <1>2, <1>4 DEF Ready
  <2>2. QED
    BY <1>2, <1>3, <1>4, <2>1
<1>5. CASE ~IsIncomingDataStreaming
  <2>1. rpending.file_offset = 0
    BY <1>5 DEF Arriving
  <2>2. rpending.body_len <= Len(rbuf)
    BY <1>1, <2>1 DEF Ready, IsIncomingMsgComplete
  <2>3. Smaller(rpending.body_len, Len(rbuf)) = rpending.body_len
    BY <1>1, <2>2 DEF Smaller
  <2>4. SubSeq(rbuf, 1, rpending.body_len) =
            Bytes(got - Len(rbuf), (got - Len(rbuf)) + rpending.body_len)
    BY <1>1, <2>2, FrontBytes
  <2>5. got - Len(rbuf) = body_at(1)
    BY <1>2, <1>3, <2>1
  <2>6. (got - Len(rbuf)) + rpending.body_len = at[2]
    BY <1>2, <1>3, <2>5
  <2>7. QED
    BY <1>5, <2>3, <2>4, <2>5, <2>6
<1>6. QED
  BY <1>4, <1>5

\* A step that takes nothing, and gives nothing out.
LEMMA SameTaken ==
    ASSUME TakenInv, UNCHANGED taken,
           \A t \in Threads : pc'[t] \in {"take", "use"} => pc[t] \in {"take", "use"},
           rhdr'.type = "HTTP" => rhdr.type = "HTTP",
           rhdr'.type = "HTTP" =>
               \A t \in Threads : pc[t] = "clear" => pc'[t] = "clear"
    PROVE  TakenInv'
<1>1. taken' = <<>> \/ (1 \in 1 .. N /\ taken' = <<First>>)
  BY DEF TakenInv
<1>2. First' = First
  BY DEF First, Bytes, body_at
<1>3. \A t \in Threads : pc'[t] \in {"take", "use"} => taken' = <<>>
  BY DEF TakenInv
<1>4. rhdr'.type = "HTTP" /\ taken' # <<>> => \E t \in Threads : pc'[t] = "clear"
  BY DEF TakenInv
<1>5. QED
  BY <1>1, <1>2, <1>3, <1>4 DEF TakenInv

\* The steps of the event loop's calls do so.
LEMMA LoopTaken ==
    ASSUME IInv, TakenInv, UNCHANGED taken, rhdr'.type \in {rhdr.type, "NONE"},
           pc[Loop] \notin {"take", "use", "clear"},
           NEW where \in {"idle", "read", "parse", "store", "stream", "closed"},
           Goto(Loop, where)
    PROVE  TakenInv'
<1>1. ControlOK /\ Loop \in Threads
  BY DEF IInv, Threads
<1>2. pc'[Loop] = where /\ \A u \in Threads \ {Loop} : pc'[u] = pc[u]
  BY <1>1, GotoPlaces
<1>3. \A t \in Threads : pc'[t] \in {"take", "use"} => pc[t] \in {"take", "use"}
  BY <1>2
<1>4. \A t \in Threads : pc[t] = "clear" => pc'[t] = "clear"
  BY <1>1, <1>2
<1>5. rhdr'.type = "HTTP" => rhdr.type = "HTTP"
  OBVIOUS
<1>6. QED
  BY <1>3, <1>4, <1>5, SameTaken

\* A message is given out once: the worker that had one is done with it.
LEMMA DispatchTaken ==
    ASSUME CarefulLoop, IInv, TypeInv, GivenInv, TakenInv, Dispatch
    PROVE  TakenInv'
<1>1. ControlOK
  BY DEF IInv
<1>2. rhdr.type = "HTTP"
  BY DispatchGiven
<1>3. pc[Loop] = "idle" /\ rtid = None /\ UNCHANGED taken
  BY DEF Dispatch, IsIncomingMsgBeingProcessed
<1>4. \A t \in Threads : pc[t] = "idle"
  <2>1. None \notin Workers
    BY EnvironmentAssumption DEF EnvironmentAssumption, Threads
  <2>2. QED
    BY <1>1, <1>3, <2>1 DEF ControlOK, Threads
<1>5. taken = <<>>
  BY <1>2, <1>4 DEF TakenInv
<1>6. QED
  BY <1>3, <1>5 DEF TakenInv

\* A thread copies the message once.
LEMMA UseTaken ==
    ASSUME CarefulLoop, MsgInv, GivenInv, TakenInv, NEW t \in Threads, UseBuf(t)
    PROVE  TakenInv'
<1>1. MemOK /\ ControlOK /\ StreamOK /\ TypeInv /\ PlaceInv
  BY DEF MsgInv, IInv
<1>2. pc[t] = "use" /\ HasMsg(t) /\ taken = <<>>
  BY DEF UseBuf, HasMsg, TakenInv
<1>3. \A u \in Threads \ {t} : ~HasMsg(u)
  BY <1>1, <1>2, OneHasMsg
<1>4. rhdr.type = "HTTP" /\ Arriving /\ Ready
  BY <1>1, <1>2, GivenIsFirst
<1>5. CASE UNCHANGED taken
  <2>1. taken' = <<>>
    BY <1>2, <1>5
  <2>2. QED
    BY <2>1 DEF TakenInv
<1>6. CASE ~UNCHANGED taken
  <2> DEFINE body == IF IsIncomingDataStreaming THEN rfile.data
                     ELSE SubSeq(rbuf, 1, Smaller(rpending.body_len, Len(rbuf)))
  <2>1. /\ taken' = Append(taken, [msg |-> rhdr.msg, body |-> body])
        /\ Goto(t, "clear")
    BY <1>6 DEF UseBuf
  <2>2. body = Bytes(body_at(1), at[2])
    BY <1>1, <1>4, ReadyBody
  <2>3. rhdr.msg = 1 /\ 1 \in 1 .. N
    BY <1>4 DEF Arriving
  <2> HIDE DEF body
  <2>4. taken' = <<First>>
    BY <1>2, <2>1, <2>2, <2>3 DEF First
  <2>5. pc'[t] = "clear" /\ \A u \in Threads \ {t} : pc'[u] = pc[u]
    BY <1>1, <2>1, GotoPlaces
  <2>6. \A u \in Threads : pc'[u] \notin {"take", "use"}
    BY <1>3, <2>5 DEF HasMsg
  <2>7. First' = First
    BY DEF First, Bytes, body_at
  <2>8. QED
    BY <2>3, <2>4, <2>5, <2>6, <2>7 DEF TakenInv
<1>7. QED
  BY <1>5, <1>6

\* What the steps of the event loop have in common, but for Dispatch.
LEMMA LoopSteps ==
    ASSUME CarefulLoop, IInv,
           \/ ReadCall \/ Read
           \/ InitCall \/ InitNothing \/ InitNoMemory \/ InitIncomingMsg
           \/ SetRfileCall \/ SetRfile \/ StreamCall \/ StreamIncomingMsg
           \/ ClearError
    PROVE  /\ pc[Loop] \notin {"take", "use", "clear"}
           /\ UNCHANGED taken
           /\ rhdr'.type \in {rhdr.type, "NONE"}
           /\ \E where \in {"idle", "read", "parse", "store", "stream", "closed"} :
                 Goto(Loop, where)
<1>1. CASE ReadCall \/ InitCall \/ SetRfileCall \/ StreamCall
  BY <1>1 DEF ReadCall, InitCall, SetRfileCall, StreamCall, Call
<1>2. CASE Read
  <2>1. rhdr'.type \in {rhdr.type, "NONE"}
    BY <1>2 DEF Read, ReadBytes, ResetRbuf, NoHdr
  <2>2. QED
    BY <1>2, <2>1 DEF Read, Unlocked, CarefulLoop
<1>3. CASE InitIncomingMsg
  <2>1. rhdr'.type \in {rhdr.type, "NONE"}
    BY <1>3, TypeStays DEF IInv
  <2>2. QED
    BY <1>3, <2>1 DEF InitIncomingMsg, Unlocked
<1>4. CASE StreamIncomingMsg
  <2>1. rhdr'.type \in {rhdr.type, "NONE"}
    BY <1>4 DEF StreamIncomingMsg, Stream, ResetRbuf, NoHdr
  <2>2. QED
    BY <1>4, <2>1 DEF StreamIncomingMsg, Unlocked
<1>5. CASE InitNothing \/ InitNoMemory \/ SetRfile
  BY <1>5 DEF InitNothing, InitNoMemory, SetRfile, Unlocked
<1>6. CASE ClearError
  BY <1>6 DEF ClearError, CarefulLoop
<1>7. QED
  BY <1>1, <1>2, <1>3, <1>4, <1>5, <1>6

\* Every step keeps it.
LEMMA TakenStep ==
    ASSUME CarefulLoop, MsgInv, GivenInv, TakenInv, [Next]_vars
    PROVE  TakenInv'
<1>1. IInv /\ ControlOK /\ TypeInv /\ PlaceInv
  BY DEF MsgInv, IInv
<1>2. CASE \/ ReadCall \/ Read
           \/ InitCall \/ InitNothing \/ InitNoMemory \/ InitIncomingMsg
           \/ SetRfileCall \/ SetRfile \/ StreamCall \/ StreamIncomingMsg
           \/ ClearError
  BY <1>1, <1>2, LoopSteps, LoopTaken
<1>3. CASE Dispatch
  BY <1>1, <1>3, DispatchTaken
<1>4. CASE \E t \in Threads : UseBuf(t)
  BY <1>4, UseTaken
<1>5. CASE \E t \in Threads : TakeBuf(t)
  <2>1. PICK t \in Threads : TakeBuf(t)
    BY <1>5
  <2>2. pc[t] = "take" /\ Goto(t, "use") /\ UNCHANGED <<taken, rhdr>>
    BY <2>1 DEF TakeBuf
  <2>3. pc'[t] = "use" /\ \A u \in Threads \ {t} : pc'[u] = pc[u]
    BY <1>1, <2>2, GotoPlaces
  <2>4. /\ \A u \in Threads : pc'[u] \in {"take", "use"} => pc[u] \in {"take", "use"}
        /\ \A u \in Threads : pc[u] = "clear" => pc'[u] = "clear"
    BY <2>2, <2>3
  <2>5. QED
    BY <2>2, <2>4, SameTaken
<1>6. CASE \E t \in Threads : ClearIncomingMsg(t) \/ ReleaseMsg(t)
  <2>1. PICK t \in Threads : ClearIncomingMsg(t) \/ ReleaseMsg(t)
    BY <1>6
  <2>2. \E where \in {"idle", "release"} : Goto(t, where)
    BY <2>1 DEF ClearIncomingMsg, ReleaseMsg
  <2>3. \A u \in Threads : pc'[u] \in {"take", "use"} => pc[u] \in {"take", "use"}
    BY <1>1, <2>2, GotoPlaces
  <2>4. CASE ClearIncomingMsg(t)
    <3>1. rhdr'.type # "HTTP" /\ UNCHANGED taken
      BY <2>4 DEF ClearIncomingMsg, NoHdr
    <3>2. QED
      BY <2>3, <3>1, SameTaken
  <2>5. CASE ReleaseMsg(t)
    <3>1. UNCHANGED <<taken, rhdr>> /\ pc[t] = "release" /\ Goto(t, "idle")
      BY <2>5 DEF ReleaseMsg, Unlocked
    <3>2. \A u \in Threads : pc[u] = "clear" => pc'[u] = "clear"
      BY <1>1, <3>1, GotoPlaces
    <3>3. QED
      BY <2>3, <3>1, <3>2, SameTaken
  <2>6. QED
    BY <2>1, <2>4, <2>5
<1>7. CASE StrayEvent \/ UNCHANGED vars
  <2>1. UNCHANGED <<taken, rhdr, pc>>
    BY <1>7 DEF StrayEvent, vars
  <2>2. QED
    BY <2>1, SameTaken
<1>8. QED
  BY <1>2, <1>3, <1>4, <1>5, <1>6, <1>7 DEF Next, EventLoop, Process

\* What the application takes is what the peer sent: the first message, once,
\* with its own body, from rbuf_ or from the file, wherever the stream was cut,
\* for any lengths and any number of workers (Read, InitIncomingMsg,
\* StreamIncomingMsg and ClearIncomingMsg together).
THEOREM TakenIsSent ==
    ASSUME CarefulLoop
    PROVE  Spec => []TakenExact
<1>1. Init => TakenInv
  BY DEF Init, TakenInv
<1>2. MsgInv /\ GivenInv /\ TakenInv /\ [Next]_vars => TakenInv'
  BY TakenStep
<1>3. TakenInv => TakenExact
  <2>1. SUFFICES ASSUME TakenInv, NEW j \in DOMAIN taken
                 PROVE  /\ j <= N
                        /\ taken[j] = [msg |-> j, body |-> Bytes(body_at(j), at[j + 1])]
    BY DEF TakenExact
  <2>2. CASE taken = <<>>
    BY <2>2
  <2>3. CASE 1 \in 1 .. N /\ taken = <<First>>
    <3>1. j = 1 /\ taken[1] = First /\ 1 + 1 = 2
      BY <2>3
    <3>2. 1 <= N
      BY <2>3
    <3>3. QED
      BY <3>1, <3>2 DEF First
  <2>4. QED
    BY <2>1, <2>2, <2>3 DEF TakenInv
<1>4. QED
  BY <1>1, <1>2, <1>3, GivenHolds, PTL DEF Spec

-----------------------------------------------------------------------------
(* Nothing is discarded without a reason *)

\* Nothing fails after which a session is reset.
NothingResets ==
    /\ CarefulLoop
    /\ Failures \cap {"read", "write", "realloc", "stray"} = {}

KeptInv == ~reset /\ ~leaked

\* Every step keeps it: an event is set only in calls that end there, and the
\* file of a message that is cleared is closed.
LEMMA KeptStep ==
    ASSUME NothingResets, MsgInv, GivenInv, KeptInv, [Next]_vars
    PROVE  KeptInv'
<1>1. IInv /\ ControlOK /\ MemOK /\ StreamOK /\ TypeInv /\ PlaceInv /\ CarefulLoop
  BY DEF MsgInv, IInv, NothingResets
<1>2. InCall => ~error
  BY DEF GivenInv, NothingResets
<1>3. CASE Read
  <2>1. InCall
    BY <1>3 DEF Read, Unlocked, InCall
  <2>2. ~Dropped
    BY <1>2, <2>1 DEF Dropped, NothingResets
  <2>3. Appended
    BY <1>1, <1>3, <2>2, ReadEffect DEF CarefulLoop
  <2>4. QED
    BY <2>3 DEF Appended, KeptInv
<1>4. CASE InitIncomingMsg
  <2>1. pc[Loop] = "parse" /\ ~error
    BY <1>2, <1>4 DEF InitIncomingMsg, Unlocked, InCall
  <2>2. CASE rhdr.type = "HTTP"
    <3>1. Waiting
      BY <1>1, <2>1, <2>2 DEF PlaceInv, LoopPlace
    <3>2. Parsed \/ NotParsed
      BY <1>1, <1>4, <2>1, <2>2, <3>1, InitEffect
    <3>3. UNCHANGED <<reset, leaked>>
      BY <3>2 DEF Parsed, NotParsed, InitParsed
    <3>4. QED
      BY <3>3 DEF KeptInv
  <2>3. CASE rhdr.type = "NONE"
    <3>1. InitUnknown
      BY <1>4, <2>3 DEF InitIncomingMsg
    <3>2. UNCHANGED <<reset, leaked>>
      BY <3>1 DEF InitUnknown, InitParsed
    <3>3. QED
      BY <3>2 DEF KeptInv
  <2>4. QED
    BY <1>1, <2>2, <2>3 DEF TypeInv, CarefulLoop
<1>5. CASE StreamIncomingMsg
  <2>1. \E n \in 0 .. Streamable : Stream(n)
    BY <1>1, <1>5, StreamEffect DEF NothingResets
  <2>2. UNCHANGED <<reset, leaked>>
    BY <2>1 DEF Stream
  <2>3. QED
    BY <2>2 DEF KeptInv
<1>6. CASE \E t \in Threads : ClearIncomingMsg(t)
  <2>1. PICK t \in Threads : ClearIncomingMsg(t)
    BY <1>6
  <2>2. leaked' = leaked
    BY <1>1, <2>1, ClearGiven
  <2>3. reset' = reset
    BY <2>1 DEF ClearIncomingMsg
  <2>4. QED
    BY <2>2, <2>3 DEF KeptInv
<1>7. CASE \/ ReadCall \/ InitCall \/ InitNothing \/ InitNoMemory
           \/ SetRfileCall \/ SetRfile \/ StreamCall
           \/ Dispatch \/ ClearError \/ StrayEvent \/ UNCHANGED vars
           \/ \E t \in Threads : TakeBuf(t) \/ UseBuf(t) \/ ReleaseMsg(t)
  <2>1. UNCHANGED <<reset, leaked>>
    BY <1>7
       DEF ReadCall, InitCall, InitNothing, InitNoMemory, SetRfileCall, SetRfile,
           StreamCall, Dispatch, ClearError, StrayEvent, vars, TakeBuf, UseBuf,
           ReleaseMsg, Call
  <2>2. QED
    BY <2>1 DEF KeptInv
<1>8. QED
  BY <1>3, <1>4, <1>5, <1>6, <1>7 DEF Next, EventLoop, Process

\* The invariant of a session in which nothing fails.
LEMMA KeptHolds ==
    ASSUME NothingResets
    PROVE  Spec => []KeptInv
<1>1. CarefulLoop
  BY DEF NothingResets
<1>2. Init => KeptInv
  BY DEF Init, KeptInv
<1>3. MsgInv /\ GivenInv /\ KeptInv /\ [Next]_vars => KeptInv'
  BY KeptStep
<1>4. QED
  BY <1>1, <1>2, <1>3, GivenHolds, PTL DEF Spec

\* If neither the connection nor the file nor memory fails, and nothing else in
\* the process does, no ResetRbuf (TCPSession.cc:655, 1229) discards what
\* arrived, however the workers and the loop interleave.  The session may still
\* find itself without memory for the header's body, or without the file, which
\* only ends it.
THEOREM NothingIsDiscarded ==
    ASSUME NothingResets
    PROVE  Spec => []NeverReset
<1>1. KeptInv => NeverReset
  BY DEF KeptInv, NeverReset
<1>2. QED
  BY <1>1, KeptHolds, PTL

\* Nor does File::clear of rfile_ (File.cc:285) delete a descriptor that is
\* open: ClearIncomingMsg clears it when StreamIncomingMsg has closed it.
THEOREM FilesAreClosed ==
    ASSUME NothingResets
    PROVE  Spec => []NoDescriptorLeak
<1>1. KeptInv => NoDescriptorLeak
  BY DEF KeptInv, NoDescriptorLeak
<1>2. QED
  BY <1>1, KeptHolds, PTL
=============================================================================

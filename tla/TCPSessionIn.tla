---------------------------- MODULE TCPSessionIn ----------------------------
(***************************************************************************)
(* The incoming half of a TCPSession (TCPSession.cc): the memory buffer    *)
(* rbuf_, the meta-data rpending_ and header rhdr_ of the message that is  *)
(* arriving, the file rfile_ it may be streamed to, and the threads that   *)
(* use them: one that runs the event loop (Read, InitIncomingMsg,          *)
(* set_rfile, StreamIncomingMsg) and the workers to which it gives a       *)
(* complete message, one at a time (set_rtid), and which call              *)
(* ClearIncomingMsg when they have processed it.                           *)
(*                                                                         *)
(* The peer sends N messages; a byte is its position in what it sends.     *)
(* Message i is the bytes at[i] + 1 .. at[i + 1], header first.            *)
(*                                                                         *)
(* Every locked part is one step: nothing but the thread that runs it      *)
(* reads what it changes without the lock.                                 *)
(***************************************************************************)
EXTENDS Integers, Sequences, FiniteSets

CONSTANTS
    N,               \* the number of messages
    at,              \* at[i]: how many bytes the peer sends before message i
    hdr_len,         \* length of a message's framing header
    Requests,        \* the messages that are HTTP requests, not responses
    Streamed,        \* the messages that the application wants in a file
    Framing,         \* "HTTP" or "BASIC"
    Loop,            \* the thread that runs the event loop
    Workers,         \* threads that process messages; none: the loop does
    None,            \* no thread
    kDefaultBufSize, \* initial size, and increment, of rbuf_
    kMethodDelete,   \* fewest bytes of which a status-line is told
    kMaxBasicLen,    \* bound on the lengths found in a BasicFramingHdr
    Transport,       \* what is under the session, see SSLConn_Read
    Failures,        \* what may fail, a subset of FailureKinds
    ReparsesHdr,     \* the loop is the one of README.txt, which calls
                     \* InitIncomingMsg after every Read
    ClosesOnEvent    \* the loop closes the session after an event, as the one
                     \* of README.txt does, and never goes on

\* "stray": a call on some other object sets an event.
FailureKinds ==
    {"read", "open", "write", "short_write", "realloc", "calloc", "stray"}

Threads == {Loop} \cup Workers

ASSUME StreamAssumption ==
    /\ N \in Nat
    /\ at \in [1 .. N + 1 -> Nat]
    /\ at[1] = 0
    /\ hdr_len \in [1 .. N -> Nat \ {0}]
    /\ \A i \in 1 .. N : at[i] + hdr_len[i] <= at[i + 1]
    /\ Requests \subseteq 1 .. N
    /\ Streamed \subseteq 1 .. N

ASSUME SizesAssumption ==
    /\ kDefaultBufSize \in Nat \ {0}
    /\ kMethodDelete \in Nat
    /\ kMaxBasicLen \in Nat

ASSUME EnvironmentAssumption ==
    /\ Framing \in {"HTTP", "BASIC"}
    /\ Loop \notin Workers
    /\ None \notin Threads
    /\ Transport \in {"tcp", "ssl"}
    /\ Failures \subseteq FailureKinds
    /\ ReparsesHdr \in BOOLEAN
    /\ ClosesOnEvent \in BOOLEAN

VARIABLES
    got,          \* how many of the peer's bytes were taken off the socket
    rbuf,         \* the bytes in rbuf_[0 .. rbuf_len_ - 1]
    rbuf_size,    \* the bytes allocated for rbuf_
    rpending,     \* MsgInfo of the message that is arriving
    rhdr,         \* its parsed header: type_ and the message it is of
    rfile,        \* the file it is streamed to
    rtid,         \* the worker that has the message, or None
    error,        \* an ErrorHandler event is set (one flag per process)
    incoming_mtx, \* the thread that holds the incoming lock, or None
    pc,           \* where each thread is
    ptr,          \* what rbuf() gave each thread: "none", "valid" or "stale"
    taken,        \* history: what the application got, in order
    reset,        \* history: some ResetRbuf discarded data
    leaked,       \* history: a descriptor was deleted while it was open
    ub            \* history: memory outside rbuf_'s allocation was used

vars == <<got, rbuf, rbuf_size, rpending, rhdr, rfile, rtid, error,
          incoming_mtx, pc, ptr, taken, reset, leaked, ub>>

-----------------------------------------------------------------------------
(* Data *)

Smaller(a, b) == IF a < b THEN a ELSE b

Sent == at[N + 1]

body_at(i)  == at[i] + hdr_len[i]
body_len(i) == at[i + 1] - body_at(i)

\* Bytes a + 1 .. b of what the peer sends.
Bytes(a, b) == [k \in 1 .. b - a |-> a + k]

NoMsg == 0

NoPending == [initialized |-> FALSE, storage |-> "MEM",
              storage_initialized |-> FALSE, body_len |-> 0, file_offset |-> 0]

NoHdr == [type |-> "NONE", msg |-> NoMsg]

NoFile == [named |-> FALSE, open |-> FALSE, data |-> <<>>]

\* A result of SSLConn::Read: the value returned, and whether it set an event.
\* The bytes that come are as many as the value, if it is positive.
Result(n, err) == [n |-> n, err |-> err]

\* SSLConn::Read for at most len bytes.  TCPConn::Read gives what is there,
\* and 0 at the end of the stream and on EAGAIN.  SSL_read may also want to be
\* called again: its -1 is passed on, without an event.
SSLConn_Read(len) ==
    {Result(n, FALSE) : n \in 0 .. Smaller(len, Sent - got)} \cup
    (IF "read" \in Failures THEN {Result(-1, TRUE)} ELSE {}) \cup
    (IF Transport = "ssl" THEN {Result(-1, FALSE)} ELSE {})

\* The messages whose header, as far as it is there, is the front of rbuf_.
\* Nothing in a body looks like a header.
InFront ==
    {i \in 1 .. N :
        \A k \in 1 .. Smaller(hdr_len[i], Len(rbuf)) : rbuf[k] = at[i] + k}

\* Mutation of HdrInBuf: the end of the header is not waited for.
HdrInBuf_Cut(i) == Len(rbuf) >= Smaller(kMethodDelete, hdr_len[i])

\* ParseRequestHdr and ParseResponseHdr get to the end of the header of
\* message i.  The former wants to see one byte more.
HdrInBuf(i) ==
    IF i \in Requests THEN Len(rbuf) > hdr_len[i] ELSE Len(rbuf) >= hdr_len[i]

-----------------------------------------------------------------------------
(* Boolean checks, made without the lock *)

IsIncomingMsgComplete ==
    /\ rpending.initialized
    /\ \/ rpending.file_offset >= rpending.body_len
       \/ Len(rbuf) >= rpending.body_len

IsIncomingDataStreaming == rpending.storage = "DISC"

\* Mutation of IsIncomingMsgBeingProcessed: rtid_ is not looked at.
IsIncomingMsgBeingProcessed_Never == FALSE

IsIncomingMsgBeingProcessed == rtid # None

-----------------------------------------------------------------------------
(* Steps common to the calls *)

Goto(t, where) == pc' = [pc EXCEPT ![t] = where]

Unlocked(t, where) == pc[t] = where /\ incoming_mtx = None

\* Mutation of ShiftRbuf: one byte too many.
ShiftRbuf_OffByOne(b, len) == SubSeq(b, Smaller(len, Len(b)) + 2, Len(b))

\* Private routine ShiftRbuf(len, 0) on a buffer with the bytes b.
ShiftRbuf(b, len) == SubSeq(b, Smaller(len, Len(b)) + 1, Len(b))

\* File::clear() of rfile_: it empties the name, without which Close refuses
\* to close, with an event, and then deletes the descriptor.
ClearFile ==
    /\ rfile' = NoFile
    /\ leaked' = (leaked \/ rfile.open)

\* Private routine ResetRbuf(), after an event.
ResetRbuf ==
    /\ rbuf' = <<>>
    /\ IF IsIncomingDataStreaming THEN ClearFile ELSE UNCHANGED <<rfile, leaked>>
    /\ rhdr' = NoHdr
    /\ rpending' = NoPending
    /\ error' = TRUE
    /\ reset' = TRUE

\* The event loop starts a call, having no event at hand.
Call(where) ==
    /\ pc[Loop] = "idle"
    /\ ~error
    /\ Goto(Loop, where)
    /\ UNCHANGED <<got, rbuf, rbuf_size, rpending, rhdr, rfile, rtid, error,
                   incoming_mtx, ptr, taken, reset, leaked, ub>>

-----------------------------------------------------------------------------
(* Read *)

ReadCall == Call("read")

\* Mutation of Grown: only a buffer that ran over is resized.
Grown_Late(len) == IF len > rbuf_size THEN rbuf_size + kDefaultBufSize ELSE rbuf_size

\* The size of rbuf_ after a Read that left len bytes in it.
Grown(len) == IF len = rbuf_size THEN rbuf_size + kDefaultBufSize ELSE rbuf_size

\* realloc() may move rbuf_ away from the pointers that rbuf() gave out.
Moved == [t \in Threads |-> IF ptr[t] = "valid" THEN "stale" ELSE ptr[t]]

\* Mutations of Received: one byte too many is counted; and the bytes are
\* written at the start of rbuf_.
Received_OffByOne(n) ==
    IF n < 0 THEN SubSeq(rbuf, 1, Len(rbuf) - 1) ELSE rbuf \o Bytes(got, got + n + 1)

Received_AtStart(n) ==
    IF n < 0 THEN SubSeq(rbuf, 1, Len(rbuf) - 1) ELSE Bytes(got, got + n) \o rbuf

\* What is in rbuf_ after n was added to its length: -1 makes the next byte that
\* comes overwrite the last one.
Received(n) ==
    IF n < 0 THEN SubSeq(rbuf, 1, Len(rbuf) - 1) ELSE rbuf \o Bytes(got, got + n)

\* The rest of Read(), after SSLConn::Read returned n.
ReadBytes(n) ==
    LET len == Len(Received(n))
    IN  \* before the first byte there is nothing to overwrite
        /\ ub' = (ub \/ (n < 0 /\ rbuf = <<>>))
        /\ \/ /\ rbuf' = Received(n)
              /\ rbuf_size' = Grown(len)
              /\ ptr' \in IF Grown(len) = rbuf_size THEN {ptr} ELSE {ptr, Moved}
              /\ UNCHANGED <<rhdr, rpending, rfile, leaked, error, reset>>
           \/ /\ Grown(len) # rbuf_size
              /\ "realloc" \in Failures
              /\ ResetRbuf
              /\ UNCHANGED <<rbuf_size, ptr>>

\* Read(): a failure, or another call's event, discards what is there.
Read ==
    /\ Unlocked(Loop, "read")
    /\ \E r \in SSLConn_Read(rbuf_size - Len(rbuf)) :
          /\ got' = IF r.n > 0 THEN got + r.n ELSE got
          /\ IF error \/ r.err THEN ResetRbuf /\ UNCHANGED <<rbuf_size, ptr, ub>>
             ELSE ReadBytes(r.n)
    /\ Goto(Loop, IF ReparsesHdr THEN "parse" ELSE "idle")
    /\ UNCHANGED <<rtid, incoming_mtx, taken>>

-----------------------------------------------------------------------------
(* InitIncomingMsg *)

\* Mutation of InitWanted: the current message is not looked at.
InitWanted_Always == rbuf # <<>>

\* Most loops ask IsIncomingMsgInitialized() first.
InitWanted == rbuf # <<>> /\ ~rpending.initialized

InitCall == InitWanted /\ Call("parse")

\* rbuf_ is empty.
InitNothing ==
    /\ pc[Loop] = "parse"
    /\ rbuf = <<>>
    /\ Goto(Loop, "idle")
    /\ UNCHANGED <<got, rbuf, rbuf_size, rpending, rhdr, rfile, rtid, error,
                   incoming_mtx, ptr, taken, reset, leaked, ub>>

\* calloc() fails, and the lock is not released.
InitNoMemory ==
    /\ Unlocked(Loop, "parse")
    /\ rbuf # <<>>
    /\ "calloc" \in Failures
    /\ error' = TRUE
    /\ incoming_mtx' = Loop
    /\ Goto(Loop, "idle")
    /\ UNCHANGED <<got, rbuf, rbuf_size, rpending, rhdr, rfile, rtid, ptr, taken,
                   reset, leaked, ub>>

\* MsgHdr::InitFromBuf() does not find a whole header, or finds what is none;
\* the fields of an earlier header are gone in any case.
InitFails(bad) ==
    IF bad \/ error THEN ResetRbuf
    ELSE /\ rhdr' = [rhdr EXCEPT !.msg = NoMsg]
         /\ UNCHANGED <<rbuf, rpending, rfile, leaked, error, reset>>

\* It found the header of message i: that leaves rbuf_, and what is to come is
\* a body of len bytes.
InitParsed(i, used, len) ==
    /\ rbuf' = ShiftRbuf(rbuf, used)
    /\ rhdr' = [rhdr EXCEPT !.msg = i]
    /\ rpending' = [rpending EXCEPT !.initialized = TRUE, !.storage = "MEM",
                                   !.body_len = len, !.file_offset = 0]
    /\ UNCHANGED <<rfile, leaked, reset>>

\* InitFromBuf of an HTTP header: an event set by another call fails it too.
InitHTTP ==
    \/ \E i \in InFront :
          IF HdrInBuf(i) /\ ~error
          THEN InitParsed(i, hdr_len[i], body_len(i)) /\ UNCHANGED error
          ELSE InitFails(FALSE)
    \/ InFront = {} /\ InitFails(Len(rbuf) >= kMethodDelete)

\* InitFromBuf of a BasicFramingHdr copies not what buf points to but what is
\* where buf itself is stored: its length may be any.
InitBasic ==
    IF Len(rbuf) < hdr_len[1] THEN InitFails(FALSE)
    ELSE /\ \E len \in 0 .. kMaxBasicLen :
               InitParsed(IF InFront = {} THEN NoMsg ELSE CHOOSE i \in InFront : TRUE,
                          hdr_len[1], len)
         /\ UNCHANGED error

\* InitFromBuf of a header whose type was cleared sets an event, but returns
\* as if it had found a header of no bytes.
InitUnknown == InitParsed(NoMsg, 0, 0) /\ error' = TRUE

InitIncomingMsg ==
    /\ Unlocked(Loop, "parse")
    /\ rbuf # <<>>
    /\ CASE rhdr.type = "HTTP"  -> InitHTTP
         [] rhdr.type = "BASIC" -> InitBasic
         [] rhdr.type = "NONE"  -> InitUnknown
    /\ Goto(Loop, "idle")
    /\ UNCHANGED <<got, rbuf_size, rtid, incoming_mtx, ptr, taken, ub>>

-----------------------------------------------------------------------------
(* set_rfile and StreamIncomingMsg *)

\* A message that the application wants in a file.
SetRfileCall ==
    /\ rpending.initialized
    /\ rhdr.msg \in Streamed
    /\ ~rpending.storage_initialized
    /\ ~rfile.open
    /\ Call("store")

\* set_rfile(): the file is opened, or cannot be.
SetRfile ==
    /\ Unlocked(Loop, "store")
    /\ rpending' = [rpending EXCEPT !.file_offset = 0, !.storage = "DISC",
                                   !.storage_initialized = TRUE]
    /\ \/ rfile' = [named |-> TRUE, open |-> TRUE, data |-> <<>>] /\ UNCHANGED error
       \/ /\ "open" \in Failures
          /\ rfile' = [named |-> TRUE, open |-> FALSE, data |-> <<>>]
          /\ error' = TRUE
    /\ Goto(Loop, "idle")
    /\ UNCHANGED <<got, rbuf, rbuf_size, rhdr, rtid, incoming_mtx, ptr, taken,
                   reset, leaked, ub>>

StreamCall ==
    /\ rpending.initialized
    /\ IsIncomingDataStreaming
    /\ rfile.open
    /\ Call("stream")

\* Mutation of StreamDone: > for >=.
StreamDone_Strict(n) == rpending.file_offset + n > rpending.body_len

\* After n bytes more the body is in the file.
StreamDone(n) == rpending.file_offset + n >= rpending.body_len

\* StreamIncomingMsg(): n bytes of rbuf_ are appended to the file.
Stream(n) ==
    /\ rbuf' = ShiftRbuf(rbuf, n)
    /\ rpending' = [rpending EXCEPT !.file_offset = @ + n]
    /\ rfile' = [named |-> TRUE,
                 open  |-> ~StreamDone(n),
                 data  |-> rfile.data \o SubSeq(rbuf, 1, n)]
    /\ UNCHANGED <<rhdr, leaked, error, reset>>

\* Mutation of Streamable: what is in the file already is not subtracted.
Streamable_Whole == Smaller(rpending.body_len, Len(rbuf))

\* How much of rbuf_ belongs to the message.
Streamable == Smaller(rpending.body_len - rpending.file_offset, Len(rbuf))

StreamIncomingMsg ==
    /\ Unlocked(Loop, "stream")
    /\ \/ Stream(Streamable)
       \/ "short_write" \in Failures /\ \E n \in 1 .. Streamable : Stream(n)
       \/ "write" \in Failures /\ ResetRbuf
    /\ Goto(Loop, "idle")
    /\ UNCHANGED <<got, rbuf_size, rtid, incoming_mtx, ptr, taken, ub>>

-----------------------------------------------------------------------------
(* What the application does with a complete message *)

\* The whole message is there: for a file, StreamIncomingMsg returned 0.
Ready ==
    /\ IsIncomingMsgComplete
    /\ IF IsIncomingDataStreaming
       THEN ~rfile.open /\ rpending.file_offset >= rpending.body_len
       ELSE rhdr.msg \notin Streamed

\* It is given to a worker, or the event loop takes it itself.  Only the event
\* loop sets rtid_ to a thread, so that who asks for it first and for the
\* message then acts on answers that still hold.
Dispatch ==
    /\ pc[Loop] = "idle"
    /\ ~error
    /\ incoming_mtx = None
    /\ ~IsIncomingMsgBeingProcessed
    /\ Ready
    /\ IF Workers = {} THEN Goto(Loop, "take") /\ UNCHANGED rtid
       ELSE \E w \in Workers : pc[w] = "idle" /\ Goto(w, "take") /\ rtid' = w
    /\ UNCHANGED <<got, rbuf, rbuf_size, rpending, rhdr, rfile, error,
                   incoming_mtx, ptr, taken, reset, leaked, ub>>

\* rbuf() is called.
TakeBuf(t) ==
    /\ pc[t] = "take"
    /\ ptr' = [ptr EXCEPT ![t] = "valid"]
    /\ Goto(t, "use")
    /\ UNCHANGED <<got, rbuf, rbuf_size, rpending, rhdr, rfile, rtid, error,
                   incoming_mtx, taken, reset, leaked, ub>>

\* The message is copied from where its pointer points to, or from the file.
UseBuf(t) ==
    LET body == IF IsIncomingDataStreaming THEN rfile.data
                ELSE SubSeq(rbuf, 1, Smaller(rpending.body_len, Len(rbuf)))
    IN  /\ pc[t] = "use"
        /\ \/ /\ ptr[t] = "stale" /\ ~IsIncomingDataStreaming
              /\ ub' = TRUE
              /\ Goto(t, "undefined")
              /\ UNCHANGED taken
           \/ /\ ptr[t] = "valid" \/ IsIncomingDataStreaming
              /\ taken' = Append(taken, [msg |-> rhdr.msg, body |-> body])
              /\ Goto(t, "clear")
              /\ UNCHANGED ub
        /\ ptr' = [ptr EXCEPT ![t] = "none"]
        /\ UNCHANGED <<got, rbuf, rbuf_size, rpending, rhdr, rfile, rtid, error,
                       incoming_mtx, reset, leaked>>

\* ClearIncomingMsg(): the body leaves rbuf_, or the file is let go of.
ClearIncomingMsg(t) ==
    /\ Unlocked(t, "clear")
    /\ IF IsIncomingDataStreaming
       THEN ClearFile /\ error' = (error \/ rfile.open) /\ UNCHANGED rbuf
       ELSE /\ rbuf' = ShiftRbuf(rbuf, rpending.body_len)
            /\ UNCHANGED <<rfile, leaked, error>>
    /\ rhdr' = NoHdr
    /\ rpending' = NoPending
    /\ Goto(t, IF t = Loop THEN "idle" ELSE "release")
    /\ UNCHANGED <<got, rbuf_size, rtid, incoming_mtx, ptr, taken, reset, ub>>

\* set_rtid(TCPSESSION_THREAD_NULL)
ReleaseMsg(t) ==
    /\ Unlocked(t, "release")
    /\ rtid' = None
    /\ Goto(t, "idle")
    /\ UNCHANGED <<got, rbuf, rbuf_size, rpending, rhdr, rfile, error,
                   incoming_mtx, ptr, taken, reset, leaked, ub>>

-----------------------------------------------------------------------------
(* Events *)

\* A call on another object fails.
StrayEvent ==
    /\ "stray" \in Failures
    /\ error' = TRUE
    /\ UNCHANGED <<got, rbuf, rbuf_size, rpending, rhdr, rfile, rtid,
                   incoming_mtx, pc, ptr, taken, reset, leaked, ub>>

\* The loop finds an event, clears it, and closes the session or goes on.
ClearError ==
    /\ pc[Loop] = "idle"
    /\ error
    /\ error' = FALSE
    /\ \/ Goto(Loop, "closed")
       \/ ~ClosesOnEvent /\ UNCHANGED pc
    /\ UNCHANGED <<got, rbuf, rbuf_size, rpending, rhdr, rfile, rtid,
                   incoming_mtx, ptr, taken, reset, leaked, ub>>

-----------------------------------------------------------------------------

Init ==
    /\ got = 0
    /\ rbuf = <<>>
    /\ rbuf_size = kDefaultBufSize
    /\ rpending = NoPending
    /\ rhdr = [type |-> Framing, msg |-> NoMsg]
    /\ rfile = NoFile
    /\ rtid = None
    /\ error = FALSE
    /\ incoming_mtx = None
    /\ pc = [t \in Threads |-> "idle"]
    /\ ptr = [t \in Threads |-> "none"]
    /\ taken = <<>>
    /\ reset = FALSE
    /\ leaked = FALSE
    /\ ub = FALSE

Process(t) == TakeBuf(t) \/ UseBuf(t) \/ ClearIncomingMsg(t) \/ ReleaseMsg(t)

EventLoop ==
    \/ ReadCall \/ Read
    \/ InitCall \/ InitNothing \/ InitNoMemory \/ InitIncomingMsg
    \/ SetRfileCall \/ SetRfile \/ StreamCall \/ StreamIncomingMsg
    \/ Dispatch \/ ClearError

Next ==
    \/ EventLoop
    \/ \E t \in Threads : Process(t)
    \/ StrayEvent

Spec == Init /\ [][Next]_vars

\* A call that was started ends, and a message that was given out is
\* processed.  The event loop makes each of its tests in every round, and what
\* the peer sent arrives some day.
Fairness ==
    /\ WF_vars(pc[Loop] # "idle" /\ EventLoop)
    /\ \A t \in Threads : WF_vars(Process(t))
    /\ WF_vars(ClearError)
    /\ SF_vars(ReadCall) /\ SF_vars(Read /\ got' > got)
    /\ SF_vars(InitCall) /\ SF_vars(SetRfileCall) /\ SF_vars(StreamCall)
    /\ SF_vars(Dispatch)

FairSpec == Spec /\ Fairness

-----------------------------------------------------------------------------
(* Properties *)

\* Types.
TypeOK ==
    /\ got \in 0 .. Sent
    /\ rbuf \in Seq(1 .. Sent)
    /\ rbuf_size \in Nat
    /\ rpending \in [initialized : BOOLEAN, storage : {"MEM", "DISC"},
                     storage_initialized : BOOLEAN, body_len : Nat,
                     file_offset : Nat]
    /\ rhdr \in [type : {"HTTP", "BASIC", "NONE"}, msg : 0 .. N]
    /\ rfile \in [named : BOOLEAN, open : BOOLEAN, data : Seq(1 .. Sent)]
    /\ rtid \in Workers \cup {None}
    /\ error \in BOOLEAN
    /\ incoming_mtx \in {Loop, None}
    /\ pc \in [Threads -> {"idle", "read", "parse", "store", "stream", "take",
                           "use", "clear", "release", "undefined", "closed"}]
    /\ ptr \in [Threads -> {"none", "valid", "stale"}]
    /\ taken \in Seq([msg : 0 .. N, body : Seq(1 .. Sent)])
    /\ reset \in BOOLEAN
    /\ leaked \in BOOLEAN
    /\ ub \in BOOLEAN

\* rbuf_ always has the latest of the bytes that were read, without a gap:
\* Read, InitIncomingMsg, StreamIncomingMsg and ClearIncomingMsg add and take
\* away at the right ends.
BufferIsStream == rbuf = Bytes(got - Len(rbuf), got)

\* What rpending_ says of the message whose header was parsed is true: the
\* next byte of its body is the front of rbuf_, what came before it, and
\* nothing of the next message, is in the file, and body_len is its length.
BodyInPlace ==
    rpending.initialized /\ rhdr.msg # NoMsg =>
        LET start == body_at(rhdr.msg)
        IN  /\ rpending.body_len = body_len(rhdr.msg)
            /\ rpending.file_offset <= rpending.body_len
            /\ got - Len(rbuf) = start + rpending.file_offset
            /\ rfile.data = Bytes(start, start + rpending.file_offset)

\* Read always has room for a byte: read(2) of none would return 0, which is
\* taken for the end of the stream.
RoomToRead == Len(rbuf) < rbuf_size

\* The application gets the peer's messages, each once, in order, with its own
\* body, however the bytes were cut on their way.
TakenExact ==
    \A j \in DOMAIN taken :
        /\ j <= N
        /\ taken[j] = [msg |-> j, body |-> Bytes(body_at(j), at[j + 1])]

\* rtid_ says who processes the message: one worker at a time.
OneAtATime == \A w \in Workers : pc[w] # "idle" <=> rtid = w

\* Without a failure nothing is discarded.
NeverReset == ~reset

\* IsIncomingMsgComplete() is true only if all of the body is where the
\* message is stored ("make sure we have all of our message", TCPSession.cc:1180).
CompleteIsWhole ==
    IsIncomingMsgComplete =>
        IF IsIncomingDataStreaming THEN rpending.file_offset >= rpending.body_len
        ELSE Len(rbuf) >= rpending.body_len

\* When InitIncomingMsg is done a header that is all in rbuf_ was parsed ("If
\* we have enough data in our memory buffer", TCPSession.h:156).
HdrRecognised ==
    [][pc[Loop] = "parse" /\ pc'[Loop] = "idle" /\ rbuf # <<>>
          /\ (\E i \in InFront : Len(rbuf) >= hdr_len[i])
       => rpending'.initialized \/ error']_vars

\* Between messages the session is ready to parse the next ("the next message
\* waiting in rbuf_", TCPSession.cc:414-416).
NextMsgParsable == rpending.initialized \/ rhdr.type = Framing

\* No call leaves incoming_mtx locked when it returns.
LockReleased == pc[Loop] = "idle" => incoming_mtx # Loop

\* No descriptor is deleted before it is closed (Descriptor.h:30-36).
NoDescriptorLeak == ~leaked

\* No thread uses memory that is not, or no more, rbuf_'s: "any instance ... can
\* process multiple incoming or outgoing messages in parallel.  This is
\* accomplished by having all operations on the internal incoming and outgoing
\* buffers (and meta-data) require a MUTEX lock" (TCPSession.h:37-41), but the
\* pointer rbuf() gave out outlives any lock.
NoStaleBuffer == ~ub

\* A message that arrived is taken by the application, unless the session was
\* reset or closed after an event.
ArrivedIsTaken ==
    \A i \in 1 .. N :
        got >= at[i + 1] ~> reset \/ pc[Loop] = "closed" \/ Len(taken) >= i
=============================================================================

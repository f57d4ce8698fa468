--------------------------- MODULE TCPSessionOut ---------------------------
(***************************************************************************)
(* The outgoing half of a TCPSession (TCPSession.cc): the memory buffer    *)
(* wbuf_, the queue wpending_ of message meta-data, the queue wfiles_ of   *)
(* bodies kept in files, the archive whdrs_ of request headers, and the    *)
(* threads that call AddMsgBuf, AddMsgFile, Write, PopOutgoingMsgQueue and *)
(* delete_whdr on them under outgoing_mtx.                                 *)
(*                                                                         *)
(* A byte is a pair <<m, k>>: the k-th byte of message m, header first.    *)
(* Byte k of a message kept in a file is byte k - hdr_len[m] of the file.  *)
(* wire is what the peer's TCP has been handed, in order.                  *)
(*                                                                         *)
(* The calls check the queue before they take the lock; that check and the *)
(* locked part are separate steps.  The locked part of a call is one step  *)
(* unless it looks at the process-wide ErrorHandler `error' more than once *)
(* or another thread may look at what it is changing without the lock.     *)
(***************************************************************************)
EXTENDS Integers, Sequences, FiniteSets, SequencesExt

CONSTANTS
    Msgs,            \* the messages that callers may queue, each at most once
    hdr_len,         \* length of a message's framing header
    body_len,        \* length of its body
    storage,         \* where its body is: "MEM" (wbuf_) or "DISC" (a File)
    Files,           \* the File descriptors that callers hand over
    file,            \* the descriptor of a message's body, if it is in a file
    Retained,        \* the files whose caller keeps a File object of its own
    Requests,        \* the messages for which MsgHdr::IsMsgRequest holds
    Producers,       \* threads that add messages
    Consumers,       \* threads that run the event loop: Write, check, pop
    None,            \* no thread
    kDefaultBufSize, \* initial size, and increment, of wbuf_
    kFileChunkSize,  \* bytes of a file sent by one Write
    kSslRecord,      \* bytes that SSL_write puts into one record
    Transport        \* what is under the session, see SSLConn_Write

Threads == Producers \cup Consumers

ASSUME LengthsAssumption ==
    /\ hdr_len \in [Msgs -> Nat \ {0}]   \* an empty framing header is rejected
    /\ body_len \in [Msgs -> Nat]
    /\ kDefaultBufSize \in Nat \ {0}
    /\ kFileChunkSize \in Nat \ {0}
    /\ kSslRecord \in Nat \ {0}

ASSUME StorageAssumption ==
    /\ storage \in [Msgs -> {"MEM", "DISC"}]
    /\ file \in [Msgs -> Files]
    /\ Retained \subseteq Files
    /\ Requests \subseteq Msgs

ASSUME ThreadsAssumption == None \notin Threads

ASSUME TransportAssumption ==
    Transport \in {"tcp_blocking", "tcp_nonblocking", "ssl"}

VARIABLES
    wbuf,          \* the bytes in wbuf_[0 .. wbuf_len_ - 1]
    wbuf_size,     \* the bytes allocated for wbuf_
    wpending,      \* MsgInfo of every message queued and not popped
    wfiles,        \* the files of the queued messages kept in files
    desc,          \* the shared state of each file descriptor
    whdrs,         \* archived headers of requests, by message
    connected,     \* TCPConn::connected_
    error,         \* an ErrorHandler event is set (one flag per process)
    outgoing_mtx,  \* the thread that holds the outgoing lock, or None
    pc,            \* where each thread is
    wire,          \* history: the bytes handed to the peer
    queued,        \* history: the messages in the order they were queued
    dropped,       \* history: the messages discarded by ResetWbuf
    answered,      \* history: the requests whose response was processed
    stray,         \* history: some ResetWbuf was due to another call's event
    ub             \* history: front() was taken of an empty wpending_

queueVars == <<wbuf, wbuf_size, wpending, wfiles, desc>>
ioVars    == <<connected, wire>>
vars == <<wbuf, wbuf_size, wpending, wfiles, desc, whdrs, connected, error,
          outgoing_mtx, pc, wire, queued, dropped, stray, answered, ub>>

-----------------------------------------------------------------------------
(* Data *)

Smaller(a, b) == IF a < b THEN a ELSE b

MsgLen(m) == hdr_len[m] + body_len[m]

\* How much of message m is kept in wbuf_: all of it, or its header only.
BufLen(m) == IF storage[m] = "MEM" THEN MsgLen(m) ELSE hdr_len[m]

\* What memcpy() appends to wbuf_ for message m.
BufPart(m) == [k \in 1 .. BufLen(m) |-> <<m, k>>]

Garbage == <<None, 0>>

\* n bytes of wbuf_ from `offset' on; what is outside the data is garbage.
WbufBytes(offset, n) ==
    [k \in 1 .. n |-> IF offset + k \in 1 .. Len(wbuf)
                      THEN wbuf[offset + k] ELSE Garbage]

\* Mutation of FileBytes: p taken for a position in the message.
FileBytes_InMsg(m, p, n) == [k \in 1 .. n |-> <<m, p + k - hdr_len[m]>>]

\* n bytes of the file of message m from position p on.
FileBytes(m, p, n) == [k \in 1 .. n |-> <<m, hdr_len[m] + p + k>>]

ClosedDesc == [open |-> FALSE, pos |-> 0]
OpenDesc(pos) == [open |-> TRUE, pos |-> pos]

MsgInfo(m, buf_n, file_n) ==
    [msg |-> m, buf_offset |-> buf_n, file_offset |-> file_n]

\* wpending_.front()
NextOut == Head(wpending)

\* A result of SSLConn::Write: n is the value returned, sent the bytes the
\* peer gets, err whether an event was raised, closed whether the connection
\* was shut down.
Result(n, sent, err, closed) ==
    [n |-> n, sent |-> sent, err |-> err, closed |-> closed]

\* Mutation of TCPConn_Write: write(2) is not repeated.
TCPConn_Write_Once(len) ==
    {Result(s, s, FALSE, FALSE) : s \in Smaller(1, len) .. len}

\* TCPConn::Write repeats write(2) until all is written, the socket is full
\* (only if nonblocking) or there is an error, after which it returns 0
\* whatever was sent.
TCPConn_Write(len) ==
    {Result(0, s, TRUE, FALSE) : s \in 0 .. (len - 1)} \cup
    (IF Transport = "tcp_nonblocking"
     THEN {Result(s, s, FALSE, FALSE) : s \in 0 .. len}
     ELSE {Result(len, len, FALSE, FALSE)})

\* SSL_write sends all or, since SSLContext::Init enables partial writes, some
\* whole records of it.  Its 0 may be a clean shutdown or a broken connection,
\* with or without an event; the -1 of WANT_READ and WANT_WRITE is passed on
\* and raises none.
SSL_Write(len) ==
    IF len = 0 THEN {Result(0, 0, FALSE, FALSE)}
    ELSE {Result(s, s, FALSE, FALSE) :
             s \in {k \in 1 .. len : k = len \/ k % kSslRecord = 0}} \cup
         {Result(-1, 0, FALSE, FALSE), Result(0, 0, FALSE, FALSE),
          Result(0, 0, TRUE, FALSE),
          Result(0, 0, FALSE, TRUE), Result(0, 0, TRUE, TRUE)}

SSLConn_Write(len) ==
    IF Transport = "ssl" THEN SSL_Write(len) ELSE TCPConn_Write(len)

-----------------------------------------------------------------------------
(* Boolean checks, made without the lock *)

\* Mutations of IsOutgoingMsgSent: the header alone is taken for the message,
\* and > for >=.
IsOutgoingMsgSent_Hdr ==
    wpending # <<>> /\ NextOut.buf_offset >= BufLen(NextOut.msg)

IsOutgoingMsgSent_Strict ==
    /\ wpending # <<>>
    /\ NextOut.file_offset + NextOut.buf_offset > MsgLen(NextOut.msg)

IsOutgoingMsgSent ==
    /\ wpending # <<>>
    /\ \/ NextOut.buf_offset >= MsgLen(NextOut.msg)
       \/ NextOut.file_offset + NextOut.buf_offset >= MsgLen(NextOut.msg)

\* Mutation of IsOutgoingDataPending: "and" for "or".
IsOutgoingDataPending_And ==
    \E i \in DOMAIN wpending :
        LET p == wpending[i] IN
        IF storage[p.msg] = "MEM"
        THEN p.buf_offset < MsgLen(p.msg)
        ELSE p.buf_offset < hdr_len[p.msg] /\ p.file_offset < body_len[p.msg]

IsOutgoingDataPending ==
    \E i \in DOMAIN wpending :
        LET p == wpending[i] IN
        IF storage[p.msg] = "MEM"
        THEN p.buf_offset < MsgLen(p.msg)
        ELSE p.buf_offset < hdr_len[p.msg] \/ p.file_offset < body_len[p.msg]

-----------------------------------------------------------------------------
(* Steps common to the calls *)

Goto(t, where) == pc' = [pc EXCEPT ![t] = where]

\* A caller tests error.Event() after a call, and clears it before the next.
Ready(t) == pc[t] = "idle" /\ ~error

\* Mutation of Unlocked: the lock is not waited for.
Unlocked_NoWait(t, where) == pc[t] = where

\* Callers wait for the lock at pc "addwait", "write" and "pop".
Unlocked(t, where) == pc[t] = where /\ outgoing_mtx = None

\* Mutation of ResetWbuf: the meta-data of the messages is kept.
ResetWbuf_KeepsPending(own, d) ==
    /\ wbuf' = <<>>
    /\ wfiles' = <<>>
    /\ desc' = [f \in Files |-> IF f \in Retained THEN d[f] ELSE ClosedDesc]
    /\ error' = TRUE
    /\ stray' = (stray \/ ~own)
    /\ UNCHANGED <<wbuf_size, wpending, whdrs, queued, dropped, answered, ub>>

\* Private routine ResetWbuf(): everything queued is discarded, and with it
\* the last reference to a file whose caller kept none.  d is what desc is
\* when it is called; own tells whether the call that resets raised the event
\* itself or only found one.
ResetWbuf(own, d) ==
    /\ wbuf' = <<>>
    /\ wfiles' = <<>>
    /\ wpending' = <<>>
    /\ desc' = [f \in Files |-> IF f \in Retained THEN d[f] ELSE ClosedDesc]
    /\ error' = TRUE
    /\ dropped' = dropped \cup {p.msg : p \in Range(wpending)}
    /\ stray' = (stray \/ ~own)
    /\ UNCHANGED <<wbuf_size, whdrs, queued, answered, ub>>

\* What SSLConn::Write() did: the peer got `bytes', and if it had closed, the
\* Shutdown() that answers it ends in TCPConn::Close().
Sent(r, bytes) ==
    /\ wire' = wire \o bytes
    /\ connected' = (connected /\ ~r.closed)

\* Mutation of Advance: file_offset is not updated.
Advance_NoFile(buf_n, file_n) ==
    /\ wpending' = [wpending EXCEPT ![1] = MsgInfo(@.msg, @.buf_offset + buf_n,
                                                 @.file_offset)]
    /\ UNCHANGED <<wbuf, wbuf_size, wfiles, whdrs, error, queued, dropped,
                   stray, answered, ub>>

\* The front message's offsets after a result that raised no event.
Advance(buf_n, file_n) ==
    /\ wpending' = [wpending EXCEPT ![1] = MsgInfo(@.msg, @.buf_offset + buf_n,
                                                 @.file_offset + file_n)]
    /\ UNCHANGED <<wbuf, wbuf_size, wfiles, whdrs, error, queued, dropped,
                   stray, answered, ub>>

-----------------------------------------------------------------------------
(* AddMsgBuf and AddMsgFile *)

\* Both refuse an empty framing header before they take the lock.
AddReject(t) ==
    /\ Ready(t)
    /\ error' = TRUE
    /\ UNCHANGED <<queueVars, ioVars, whdrs, outgoing_mtx, pc, queued, dropped,
                   stray, answered, ub>>

AddCall(t) ==
    /\ Ready(t)
    /\ Range(queued) # Msgs
    /\ Goto(t, "addwait")
    /\ UNCHANGED <<queueVars, ioVars, whdrs, error, outgoing_mtx, queued,
                   dropped, stray, answered, ub>>

AddLock(t) ==
    /\ Unlocked(t, "addwait")
    /\ outgoing_mtx' = t
    /\ Goto(t, "add")
    /\ UNCHANGED <<queueVars, ioVars, whdrs, error, queued, dropped, stray,
                   answered, ub>>

AddReturn(t) ==
    /\ pc[t] = "add"
    /\ outgoing_mtx' = None
    /\ Goto(t, "idle")
    /\ UNCHANGED <<ioVars, dropped, stray, answered, ub>>

\* Mutation of Fits: off by one.
Fits_OffByOne(m) == Len(wbuf) + BufLen(m) <= wbuf_size + 1

Fits(m) == Len(wbuf) + BufLen(m) <= wbuf_size

\* realloc() of wbuf_ fails: the message is not queued.
AddNoMemory(t) ==
    /\ AddReturn(t)
    /\ \E m \in Msgs \ Range(queued) : ~Fits(m)
    /\ error' = TRUE
    /\ UNCHANGED <<queueVars, whdrs, queued>>

\* The part of AddMsgBuf and AddMsgFile that is the same code.
AddMsg(t, m) ==
    /\ AddReturn(t)
    /\ m \notin Range(queued)
    /\ wbuf_size' = IF Fits(m) THEN wbuf_size
                    ELSE Len(wbuf) + BufLen(m) + kDefaultBufSize
    /\ wpending' = Append(wpending, MsgInfo(m, 0, 0))
    /\ wbuf' = wbuf \o BufPart(m)
    /\ whdrs' = IF m \in Requests THEN Append(whdrs, m) ELSE whdrs
    /\ queued' = Append(queued, m)
    /\ UNCHANGED <<desc, error>>

AddMsgBuf(t, m) ==
    /\ storage[m] = "MEM"
    /\ AddMsg(t, m)
    /\ UNCHANGED wfiles

AddMsgFile(t, m) ==
    /\ storage[m] = "DISC"
    /\ AddMsg(t, m)
    /\ wfiles' = Append(wfiles, file[m])

-----------------------------------------------------------------------------
(* Write *)

\* The checks before the lock.
WriteReject(t) ==
    /\ Ready(t)
    /\ wpending = <<>> \/ ~connected
    /\ error' = TRUE
    /\ UNCHANGED <<queueVars, ioVars, whdrs, outgoing_mtx, pc, queued, dropped,
                   stray, answered, ub>>

WriteCall(t) ==
    /\ Ready(t)
    /\ wpending # <<>>
    /\ connected
    /\ Goto(t, "write")
    /\ UNCHANGED <<queueVars, ioVars, whdrs, error, outgoing_mtx, queued,
                   dropped, stray, answered, ub>>

\* wpending_.front() of an empty vector, in Write or PopOutgoingMsgQueue: the
\* behaviour is undefined from here on.
FrontOfEmpty(t) ==
    /\ Unlocked(t, "write") \/ Unlocked(t, "pop")
    /\ wpending = <<>>
    /\ ub' = TRUE
    /\ outgoing_mtx' = t
    /\ Goto(t, "undefined")
    /\ UNCHANGED <<queueVars, ioVars, whdrs, error, queued, dropped, stray,
                   answered>>

\* A message in wbuf_.
WriteMem(t) ==
    /\ Unlocked(t, "write")
    /\ wpending # <<>>
    /\ storage[NextOut.msg] = "MEM"
    /\ \E r \in SSLConn_Write(MsgLen(NextOut.msg) - NextOut.buf_offset) :
          /\ Sent(r, WbufBytes(NextOut.buf_offset, r.sent))
          /\ IF error \/ r.err THEN ResetWbuf(r.err, desc)
             ELSE Advance(r.n, 0) /\ UNCHANGED desc
    /\ Goto(t, "check")
    /\ UNCHANGED outgoing_mtx

\* The header of a message whose body is in a file.
WriteHdr(t) ==
    /\ Unlocked(t, "write")
    /\ wpending # <<>>
    /\ storage[NextOut.msg] = "DISC"
    /\ NextOut.buf_offset < hdr_len[NextOut.msg]
    /\ \E r \in SSLConn_Write(hdr_len[NextOut.msg] - NextOut.buf_offset) :
          /\ Sent(r, WbufBytes(NextOut.buf_offset, r.sent))
          /\ \/ /\ error \/ r.err
                /\ ResetWbuf(r.err, desc)
                /\ Goto(t, "check")
                /\ UNCHANGED outgoing_mtx
             \/ /\ ~error /\ ~r.err
                /\ Advance(r.n, 0)
                /\ IF NextOut.buf_offset + r.n < hdr_len[NextOut.msg]
                   THEN Goto(t, "check") /\ UNCHANGED outgoing_mtx
                   ELSE Goto(t, "file") /\ outgoing_mtx' = t
                /\ UNCHANGED desc

\* The header was sent by an earlier call.
WriteHdrDone(t) ==
    /\ Unlocked(t, "write")
    /\ wpending # <<>>
    /\ storage[NextOut.msg] = "DISC"
    /\ NextOut.buf_offset >= hdr_len[NextOut.msg]
    /\ outgoing_mtx' = t
    /\ Goto(t, "file")
    /\ UNCHANGED <<queueVars, ioVars, whdrs, error, queued, dropped, stray,
                   answered, ub>>

WriteReturn(t) == Goto(t, "check") /\ outgoing_mtx' = None

\* Open the file, unless it is open, and seek to what is still to be sent.
WriteOpen(t) ==
    LET f      == Head(wfiles)
        opened == [desc EXCEPT ![f] = OpenDesc(0)]
    IN  /\ pc[t] = "file"
        /\ \/ /\ desc[f].open
              /\ Goto(t, "chunk")
              /\ UNCHANGED <<queueVars, whdrs, error, outgoing_mtx, queued,
                             dropped, stray, answered, ub>>
           \/ /\ ~desc[f].open                   \* open(2) or lseek(2) fails
              /\ \E d \in {desc, opened} : ResetWbuf(TRUE, d)
              /\ WriteReturn(t)
           \/ /\ ~desc[f].open
              /\ error                           \* another call's event
              /\ ResetWbuf(FALSE, opened)
              /\ WriteReturn(t)
           \/ /\ ~desc[f].open
              /\ ~error
              /\ NextOut.file_offset >= 0
              /\ desc' = [desc EXCEPT ![f] = OpenDesc(NextOut.file_offset)]
              /\ Goto(t, "chunk")
              /\ UNCHANGED <<wbuf, wbuf_size, wpending, wfiles, whdrs, error,
                             outgoing_mtx, queued, dropped, stray, answered, ub>>
        /\ UNCHANGED ioVars

\* How many bytes read(2) gives of the chunk that Write asks for.
ChunkRead ==
    LET m == NextOut.msg
    IN  Smaller(Smaller(kFileChunkSize, body_len[m] - NextOut.file_offset),
                body_len[m] - desc[Head(wfiles)].pos)

\* read(2) fails or is at the end of the file.
WriteReadFails(t) ==
    /\ pc[t] = "chunk"
    /\ ResetWbuf(TRUE, desc)
    /\ WriteReturn(t)
    /\ UNCHANGED ioVars

\* Send the next chunk of the file.
WriteChunk(t) ==
    LET f    == Head(wfiles)
        read == [desc EXCEPT ![f] = OpenDesc(@.pos + ChunkRead)]
    IN  /\ pc[t] = "chunk"
        /\ ChunkRead > 0
        /\ \E r \in SSLConn_Write(ChunkRead) :
              /\ Sent(r, FileBytes(NextOut.msg, desc[f].pos, r.sent))
              /\ IF error \/ r.err THEN ResetWbuf(r.err, read)
                 ELSE Advance(0, r.n) /\ desc' = read
        /\ WriteReturn(t)

-----------------------------------------------------------------------------
(* The event loop after Write: check whether the message is out, and pop it *)

\* IsOutgoingMsgSent() takes no lock: while another thread is in push_back()
\* on wpending_, whose storage may just be moving, its answer is arbitrary.
CheckSent(t) ==
    /\ pc[t] = "check"
    /\ \E sent \in IF \E u \in Threads \ {t} : pc[u] = "add"
                   THEN BOOLEAN ELSE {IsOutgoingMsgSent} :
          Goto(t, IF sent /\ ~error THEN "popcall" ELSE "idle")
    /\ UNCHANGED <<queueVars, ioVars, whdrs, error, outgoing_mtx, queued,
                   dropped, stray, answered, ub>>

\* Mutation of PopCall: the queue is not looked at.
PopCall_NoCheck(t) ==
    /\ pc[t] = "popcall"
    /\ Goto(t, "pop")
    /\ UNCHANGED <<queueVars, ioVars, whdrs, error, outgoing_mtx, queued,
                   dropped, stray, answered, ub>>

\* PopOutgoingMsgQueue(): the check before the lock.
PopCall(t) ==
    /\ pc[t] = "popcall"
    /\ IF wpending = <<>> THEN Goto(t, "idle") /\ error' = TRUE
       ELSE Goto(t, "pop") /\ UNCHANGED error
    /\ UNCHANGED <<queueVars, ioVars, whdrs, outgoing_mtx, queued, dropped,
                   stray, answered, ub>>

\* The erased File was the last reference to its descriptor, or was not.
Released(f) == f \notin Retained /\ f \notin Range(Tail(wfiles))

\* Mutations of Pop: as many bytes leave wbuf_ as the message has, also when
\* its body is in a file; and the file stays in wfiles_.
Pop_MsgLen(t) ==
    /\ Unlocked(t, "pop")
    /\ wpending # <<>>
    /\ wbuf' = SubSeq(wbuf, MsgLen(NextOut.msg) + 1, Len(wbuf))
    /\ wpending' = Tail(wpending)
    /\ wfiles' = IF storage[NextOut.msg] = "MEM" THEN wfiles ELSE Tail(wfiles)
    /\ Goto(t, "idle")
    /\ UNCHANGED <<desc, wbuf_size, whdrs, ioVars, error, outgoing_mtx, queued,
                   dropped, stray, answered, ub>>

Pop_KeepsFile(t) ==
    /\ Unlocked(t, "pop")
    /\ wpending # <<>>
    /\ wbuf' = SubSeq(wbuf, BufLen(NextOut.msg) + 1, Len(wbuf))
    /\ wpending' = Tail(wpending)
    /\ Goto(t, "idle")
    /\ UNCHANGED <<wfiles, desc, wbuf_size, whdrs, ioVars, error, outgoing_mtx,
                   queued, dropped, stray, answered, ub>>

\* PopOutgoingMsgQueue(): the front message leaves wbuf_, wfiles_, wpending_.
Pop(t) ==
    /\ Unlocked(t, "pop")
    /\ wpending # <<>>
    /\ wbuf' = SubSeq(wbuf, BufLen(NextOut.msg) + 1, Len(wbuf))
    /\ wpending' = Tail(wpending)
    /\ IF storage[NextOut.msg] = "MEM" THEN UNCHANGED <<wfiles, desc>>
       ELSE /\ wfiles' = Tail(wfiles)
            /\ desc' = IF Released(Head(wfiles))
                       THEN [desc EXCEPT ![Head(wfiles)] = ClosedDesc]
                       ELSE desc
    /\ Goto(t, "idle")
    /\ UNCHANGED <<wbuf_size, whdrs, ioVars, error, outgoing_mtx, queued,
                   dropped, stray, answered, ub>>

-----------------------------------------------------------------------------
(* Other calls *)

\* All of m reached the peer.
OnWire(m) == \A k \in 1 .. MsgLen(m) : <<m, k>> \in Range(wire)

\* Mutation of DeleteWhdr: the last header goes, not the one that was found.
DeleteWhdr_Last(t, m) ==
    /\ Ready(t)
    /\ outgoing_mtx = None
    /\ OnWire(m)
    /\ m \in Range(whdrs)
    /\ whdrs' = Front(whdrs)
    /\ answered' = answered \cup {m}
    /\ UNCHANGED <<queueVars, ioVars, error, outgoing_mtx, pc, queued, dropped,
                   stray, ub>>

\* delete_whdr(), called when the response to request m has been processed.
DeleteWhdr(t, m) ==
    /\ Ready(t)
    /\ outgoing_mtx = None
    /\ OnWire(m)
    /\ \E i \in DOMAIN whdrs :
          /\ whdrs[i] = m
          /\ \A j \in 1 .. (i - 1) : whdrs[j] # m
          /\ whdrs' = RemoveAt(whdrs, i)
    /\ answered' = answered \cup {m}
    /\ UNCHANGED <<queueVars, ioVars, error, outgoing_mtx, pc, queued, dropped,
                   stray, ub>>

\* error.clear(), by a caller that found an event.
ClearError(t) ==
    /\ pc[t] = "idle"
    /\ error
    /\ error' = FALSE
    /\ UNCHANGED <<queueVars, ioVars, whdrs, outgoing_mtx, pc, queued, dropped,
                   stray, answered, ub>>

-----------------------------------------------------------------------------

Init ==
    /\ wbuf = <<>>
    /\ wbuf_size = kDefaultBufSize
    /\ wpending = <<>>
    /\ wfiles = <<>>
    /\ desc = [f \in Files |-> ClosedDesc]
    /\ whdrs = <<>>
    /\ connected = TRUE
    /\ error = FALSE
    /\ outgoing_mtx = None
    /\ pc = [t \in Threads |-> "idle"]
    /\ wire = <<>>
    /\ queued = <<>>
    /\ dropped = {}
    /\ answered = {}
    /\ stray = FALSE
    /\ ub = FALSE

Produce(t) ==
    \/ AddReject(t) \/ AddCall(t) \/ AddLock(t) \/ AddNoMemory(t)
    \/ \E m \in Msgs : AddMsgBuf(t, m) \/ AddMsgFile(t, m)

Consume(t) ==
    \/ WriteReject(t) \/ WriteCall(t) \/ FrontOfEmpty(t)
    \/ WriteMem(t) \/ WriteHdr(t) \/ WriteHdrDone(t)
    \/ WriteOpen(t) \/ WriteReadFails(t) \/ WriteChunk(t)
    \/ CheckSent(t) \/ PopCall(t) \/ Pop(t)
    \/ \E m \in Requests : DeleteWhdr(t, m)

Next ==
    \/ \E t \in Producers : Produce(t)
    \/ \E t \in Consumers : Consume(t)
    \/ \E t \in Threads : ClearError(t)

Spec == Init /\ [][Next]_vars

\* A thread that is inside a call is scheduled until it returns, and gets the
\* lock when it keeps asking; a caller clears the event it found; the event
\* loop calls Write again and again while there is data to send.  Nothing
\* makes a producer add a message.
Fairness ==
    /\ \A t \in Producers :
          /\ SF_vars(AddLock(t))
          /\ WF_vars(pc[t] = "add" /\ Produce(t))
    /\ \A t \in Consumers :
          /\ SF_vars(WriteCall(t))
          /\ SF_vars(pc[t] \in {"write", "pop"} /\ Consume(t))
          /\ WF_vars(pc[t] \in {"file", "chunk", "check", "popcall"} /\ Consume(t))
    /\ \A t \in Threads : WF_vars(ClearError(t))

FairSpec == Spec /\ Fairness

-----------------------------------------------------------------------------
(* Properties *)

MsgInfos == [msg : Msgs, buf_offset : Int, file_offset : Int]

Bytes == (Msgs \X (Nat \ {0})) \cup {Garbage}

\* Types.  Offsets are integers: nothing in the code keeps them from -1.
TypeOK ==
    /\ wbuf \in Seq(Bytes)
    /\ wbuf_size \in Nat
    /\ wpending \in Seq(MsgInfos)
    /\ wfiles \in Seq(Files)
    /\ desc \in [Files -> [open : BOOLEAN, pos : Nat]]
    /\ whdrs \in Seq(Msgs)
    /\ connected \in BOOLEAN
    /\ error \in BOOLEAN
    /\ outgoing_mtx \in Threads \cup {None}
    /\ pc \in [Threads -> {"idle", "addwait", "add", "write", "file", "chunk",
                           "check", "popcall", "pop", "undefined"}]
    /\ wire \in Seq(Bytes)
    /\ queued \in Seq(Msgs)
    /\ dropped \subseteq Msgs
    /\ answered \subseteq Msgs
    /\ stray \in BOOLEAN
    /\ ub \in BOOLEAN

\* s is the concatenation of the parts: part i comes after its first at[i]
\* elements, and there is nothing else in s.
Concatenated(parts, s) ==
    \E at \in [1 .. Len(parts) + 1 -> 0 .. Len(s)] :
        /\ at[1] = 0
        /\ at[Len(parts) + 1] = Len(s)
        /\ \A i, j \in 1 .. Len(parts) + 1 : i <= j => at[i] <= at[j]
        /\ \A i \in 1 .. Len(parts) :
              /\ at[i + 1] = at[i] + Len(parts[i])
              /\ \A k \in 1 .. Len(parts[i]) : s[at[i] + k] = parts[i][k]

BufParts == [i \in 1 .. Len(wpending) |-> BufPart(wpending[i].msg)]

\* The worry of the TODO in AddMsgBuf and AddMsgFile (TCPSession.cc:469-473):
\* the parts of a message are in containers that nothing links.  wbuf_ is
\* nonetheless always the buffered parts of the pending messages in order.
BufferLinked == Concatenated(BufParts, wbuf)

FilePart(m) == IF storage[m] = "DISC" THEN <<file[m]>> ELSE <<>>

FileParts == [i \in 1 .. Len(wpending) |-> FilePart(wpending[i].msg)]

\* Likewise wfiles_ has the file of each pending message that is kept in one,
\* in the order of the messages (the TODO at TCPSession.cc:604-606).
FilesLinked == Concatenated(FileParts, wfiles)

\* memcpy() in AddMsgBuf and AddMsgFile never runs past the allocation, also
\* after the buffer shrank and grew again.
BufferFits == Len(wbuf) <= wbuf_size

\* Write and PopOutgoingMsgQueue look at wpending_.size() before they take
\* the lock and at wpending_.front() after: the queue they then find must not
\* be empty ("thread safe", TCPSession.h:37-43).
NeverFrontOfEmpty == ~ub

\* At most the holder of the lock is inside a locked part, and who is inside
\* Write's file part finds the message whose header it sent still in front.
LockedParts ==
    \A t \in Threads :
        /\ pc[t] \in {"add", "file", "chunk"} => outgoing_mtx = t
        /\ pc[t] \in {"file", "chunk"} =>
             /\ wpending # <<>>
             /\ storage[NextOut.msg] = "DISC"
             /\ wfiles # <<>>
             /\ Head(wfiles) = file[NextOut.msg]

\* buf_offset and file_offset mark "what has been sent so far" (MsgInfo.h:39-42):
\* the bytes of the front message that are on the wire are its first
\* buf_offset + file_offset, and of the others nothing is.
OffsetsAreSent ==
    \A i \in DOMAIN wpending :
        LET p == wpending[i] IN
        /\ p.buf_offset >= 0 /\ p.file_offset >= 0
        /\ {k \in 1 .. MsgLen(p.msg) : <<p.msg, k>> \in Range(wire)}
            = 1 .. (p.buf_offset + p.file_offset)

\* Write seeks only when it opens the file, so that when it reads the next
\* chunk the descriptor must be where file_offset says the sending is.
PositionIsOffset ==
    \A t \in Threads :
        pc[t] = "chunk" => desc[Head(wfiles)].pos = NextOut.file_offset

\* A message that left the queue is on the wire in full, unless an error
\* discarded it, also while other threads add messages ("all operations on the
\* internal incoming and outgoing buffers (and meta-data) require a MUTEX lock",
\* TCPSession.h:40-41).
NothingLost ==
    \A m \in Range(queued) :
        \/ m \in {p.msg : p \in Range(wpending)}
        \/ m \in dropped
        \/ OnWire(m)

\* Bytes go out in message order and in order within a message; only a
\* message that was discarded may be cut short or missing.
WireInOrder ==
    \A j \in 1 .. Len(wire) :
        LET b == wire[j] IN
        IF b[2] > 1 THEN j > 1 /\ wire[j - 1] = <<b[1], b[2] - 1>>
        ELSE \E q \in DOMAIN queued :
               /\ queued[q] = b[1]
               /\ \A i \in 1 .. (q - 1) :
                    queued[i] \in dropped
                        \/ \E h \in 1 .. (j - 1) : wire[h] = <<queued[i], MsgLen(queued[i])>>

\* whdrs_ holds the header of each request that was queued and whose response
\* was not processed yet, once, and no other: also when the request was sent and
\* popped, or discarded by a reset ("in-case we need to deal with a RESPONSE",
\* TCPSession.cc:523-526; "we specifically do *not* clear whdrs_", 1083, 1261).
ResponseMatchable ==
    /\ Range(whdrs) = (Range(queued) \cap Requests) \ answered
    /\ IsInjective(whdrs)

\* The queue is given up only when the call that does it failed: not because
\* some other call, of this session or of another, set the shared event ("any
\* instance ... can process multiple incoming or outgoing messages in parallel",
\* TCPSession.h:37-39).
ResetOnOwnError == ~stray

\* The event loop's two questions agree: when nothing of the queue is pending
\* the front message is ready to be popped, and not before.
ChecksAgree ==
    /\ wpending # <<>> /\ ~IsOutgoingDataPending => IsOutgoingMsgSent
    /\ IsOutgoingMsgSent => OnWire(NextOut.msg)

\* Every message that was queued is some day on the wire, or discarded.
QueuedSettles ==
    \A m \in Msgs :
        m \in Range(queued) ~> OnWire(m) \/ m \in dropped

\* The abstract queue, seen through the meta-data.
Fifo == [i \in DOMAIN wpending |-> wpending[i].msg]

SentOfFront == IF wpending = <<>> THEN 0 ELSE NextOut.buf_offset + NextOut.file_offset

Abstract == INSTANCE MsgQueue WITH
    Length <- [m \in Msgs |-> MsgLen(m)], fifo <- Fifo, sent <- SentOfFront, out <- wire

\* Messages go out whole, once and in order: MsgQueue's specification.
ImplementsMsgQueue == Abstract!Spec
=============================================================================

# IP-Utils in TLA+

IP-Utils is a C++ library for message-based network programs: sockets
(`IPComm`, `TCPConn`, `SSLConn`), sessions that queue whole messages
(`TCPSession`), message framings (`MsgHdr`, `HTTPFraming`, ...), and utilities
(`File`, `ErrorHandler`, `Logger`, `URL`, `Base64`). This directory holds TLA+
modules translated from its code, the TLC configurations that check them, and
TLAPS proofs. `PROJECT.json` is the index: components, runs, the lines of code
each definition stands for, findings, hazards and theorems.

## The system

| part | state | operations | what is hard | what makes it correct |
|---|---|---|---|---|
| `TCPSession`, outgoing half | `wbuf_` with its size and length, `wpending_`, `wfiles_`, `whdrs_`, `outgoing_mtx` | `AddMsgBuf`, `AddMsgFile`, `Write`, `IsOutgoingMsgSent`, `IsOutgoingDataPending`, `PopOutgoingMsgQueue`, `delete_whdr` | checks made before the lock; failures in the middle of a message; containers that nothing links; short sends | messages leave whole, once, in order, or are discarded together after an error; the containers stay aligned |
| `TCPSession`, incoming half | `rbuf_`, `rpending_`, `rhdr_`, `rfile_`, `rtid_`, `incoming_mtx` | `Read`, `InitIncomingMsg`, `StreamIncomingMsg`, `ClearIncomingMsg`, `set_rfile`, `set_storage`, `set_rtid` | bytes come in arbitrary pieces; several messages in one buffer; a thread per message | each message is handed over once, with its own body |
| `TCPSession`, whole object | both halves, `handle_`, `connected_` | constructors, `Init`, `set_connected` | two locks; a copy constructor that may fail half-way | no deadlock; a copy equals its source |
| `SSLConn` on `TCPConn` on `IPComm` | `connected_`, `listening_`, `blocking_flag_`, `ssl_`, `peer_x509_`, the shared `Descriptor` | copy, assignment, `clear`, `Socket`, `Connect`, `Accept`, `Shutdown`, `Close` | `SSL*` and `X509*` go by the Descriptor's count; flags are per object, the socket is shared | one close and one `SSL_free` for each open; who says connected is |
| loops over system calls | the locals of one call | `Write`, `Sendto`, `Sendmsg`, `Read`, `Recvfrom`, `Recvmsg`, `ReadExhaustive`, `ReadLine`, `File::Copy`, `Init`, `ResolveDNSName`, `get_reverse_dns` | short counts, `EAGAIN`, the end of the stream, retries | what is reported is what was done, and the loop ends |
| `File`, `Descriptor` | `fd_`/`fp_`, reference count, name | copy, assignment, `Open`, `Fopen`, `Close`, `Fclose`, `clear`, `Unlink`, `Rename`, `set_fd`, `set_fp` | counting by hand in every owner; who closes depends on the name | a descriptor is closed once, by its last owner |
| `HTTPFraming`, `URL` | the header's parts | building, printing, `InitFromBuf`, `ParseChunkedMsgBody` | parsing starts again when more bytes arrive; chunked bodies | the outcome does not depend on where the pieces are cut |
| `MsgHdr`, `BasicFraming` | type, message id, the parsed header | `InitFromBuf`, `clear`, `IsMsgRequest` | the type decides how the next header is parsed | as for the incoming half |
| `ErrorHandler` | one global event, no lock | `Init`, `AppendMsg`, `clear`, `Event` | every call of every thread reports through it | a caller sees the failures of its own calls |
| `Logger`, `Base64`, `SSLContext`, `MIMEFraming` | little or none | formatting, parsing, set-up | | |

The application calls a session from its event loop and its worker threads. A
session calls down to `SSLConn`, which defers to `TCPConn` when it has no `SSL*`.
All of them report failures only by setting the one global `error`; a caller
tests `error.Event()` after the call and clears it.

## Modules

* `TCPSessionOut`: the outgoing half. One variable per data member. The bytes
  of a message are pairs `<<message, position>>`, header first, so that the
  model can say which bytes are where; a file's content is the body of the
  message. Each call is split where another thread can get in between: the
  checks before the lock (`WriteCall`, `PopCall`, `AddCall`), then the locked
  part, in several steps where it reads the global event more than once
  (`WriteHdr`, `WriteOpen`, `WriteChunk`) or can be seen half done (`AddLock`,
  `AddMsgBuf`). The early returns are `AddReject`, `WriteReject`, `AddNoMemory`
  and `WriteReadFails`. `SSLConn_Write` is the set of results that
  `SSLConn::Write` or `TCPConn::Write` can have. The histories `wire`,
  `queued`, `answered` (the requests whose response was processed), `dropped`,
  `stray` and `ub` record what the properties talk about; no guard reads them,
  except that a message is queued at most once and that `DeleteWhdr`, the
  processing of a response, needs the request to have reached the peer.
* `MsgQueue`: what the outgoing half promises. A FIFO queue from which bytes
  are sent in order, and which can only be given up as a whole.
* `TCPSessionIn`: the incoming half. A byte is its position in what the peer
  sends, so that `rbuf` is right exactly if it is an interval of numbers ending
  at `got`. `Read`, `InitIncomingMsg`, `SetRfile`, `StreamIncomingMsg`,
  `ClearIncomingMsg` and `ReleaseMsg` (`set_rtid`) are the locked parts, one
  step each; `ReadCall`, `InitCall`, ..., `Dispatch` are what the event loop
  tests before it makes the call; `TakeBuf` and `UseBuf` are a worker (or the
  loop) that calls `rbuf()` and copies the body. The outcomes of
  `InitIncomingMsg` have definitions of their own: `InitNothing`,
  `InitNoMemory`, `InitHTTP`, `InitBasic`, `InitUnknown`. What the HTTP parser
  does to the buffer is `InFront` and `HdrInBuf`: whether a header is in front
  of it and all there. `ReparsesHdr` and `ClosesOnEvent` choose the event loop:
  README.txt's, or one that tests `IsIncomingMsgInitialized` first and may go on
  after an event. The histories `taken`, `reset`, `leaked` and `ub` guard nothing.
* `Descriptor`: the counted object, as a heap of addresses; count 0 is an
  address without an object, and `Shared` and `Dropped` are what each owner does
  by hand when it joins and when it leaves.
* `FileRef`: `File` on `Descriptor`, one action per constructor, operator and
  method that changes the name, the Descriptor or what is open. A call that
  returns early is `Reported` (with an event) or `Done`. `LetGo` is
  what an owner does that leaves: if it is the last, it closes what is open
  (`LastCloses`), which its name decides, since a File without a name, or named
  `stdin`, closes nothing. What a File without a name leaves open (`LastLoses`)
  is recorded in the history `lost`. `File::clear` takes the name away first.
* `SharedHandle`: what copying a File or a connection promises. Owners, handles
  and what is open, without a count. `FileRef` and `SSLConn` both implement it.
* `SSLConn`: connection objects of all three classes (`ssl` is `NULL` in a
  `TCPConn`), the kernel's sockets, OpenSSL's objects, and `x509`, the references
  to certificates that were taken and not given back. A handshake ends up, failed
  or wanting to be called again; `KernelConnects` finishes a nonblocking
  connect(2), `HandshakeInIO` a handshake that SSL_read or SSL_write goes on with. A socket from
  accept(2) may have its listener's mode or block, as BSD's and Linux's do.
* `SyscallLoops`: one call at a time, one step per system call or query of the
  resolver, with every result it may have. `call` is the routine's locals;
  `arrived`, `got` and `closed` are the stream from the peer. `File::Copy` starts
  where the file is positioned (`from`), and goes on after a failed open(2).
* `TokenScan`, `URL`, `HTTPScan`, `HTTPFraming`: parsing as functions of what has
  arrived. A token is a character that a parser looks for, or the run between two
  of them. `HTTPScan` has the lines of a header, in which a loop of the code over
  fields or parameters is `Many`, a function on the places of the buffer.
  The actions build a header with `InitRequest` or `InitResponse` and
  `AppendMsgHdr`, print and send it, deliver the tokens in pieces, and parse what
  is there from the start, as `TCPSession::InitIncomingMsg` does; each header is
  parsed with the type HTTP (that a session forgets the type is in
  `TCPSessionIn`). What was
  printed must come out again, so that the printer is the parser's reference.
* `MCTCPSessionOut`, `MCTCPSessionIn`, `MCFileRef`, `MCSSLConn`,
  `MCSyscallLoops`, `MCHTTPFraming`: values of the constants for TLC.
* `TCPSessionOutProofs`, `TCPSessionOutLoopProofs`, `TCPSessionInProofs`,
  `TCPSessionInLoopProofs`, `FileRefProofs`, `SSLConnProofs`,
  `SyscallLoopsProofs`, `HTTPScanProofs`: the theorems.

`FileRef`, `SSLConn` and `HTTPFraming` have constants that name uses the classes
do not provide for (`Risky`), or ways of arriving that go wrong (`Whole`,
`Bare`). A passing run has them all off, and so states what callers must avoid;
with one of them on, TLC shows what happens. What the library does itself is not
among them: `FileRef` has `File::clear` of an open File, and `Conn`
`set_socket_blocking` (of an object without copies).

## Runs

The runs of the outgoing half have two or three messages: `m1` and `m3` in
files, `m2` in memory; headers of 1 or 2 bytes, bodies of 2 or 3;
`kDefaultBufSize` 3 and `kFileChunkSize` 2, so that the buffer has to grow,
bodies need more than one chunk, and `wbuf_` and `wfiles_` have different
lengths. Messages are queued at most once, which is the only bound on the length
of a behaviour.

| run | threads, transport | result |
|---|---|---|
| `OutLoop` | one thread; blocking TCP | all nine properties hold: in particular the refinement of `MsgQueue`, that every message settles, and that the header of a request is in `whdrs_` from the moment it is queued until its response is processed |
| `OutEventLoop` | two producers, one event loop; nonblocking TCP | `front()` is never taken of an empty queue |
| `OutThreads` | one producer, two event loops; SSL | alignment, buffer bound and mutual exclusion hold although `front()` of an empty queue can happen; a thread to which it happens stops there, so deadlock is not checked |

Blocking TCP sends a chunk whole or fails, so that `OutLoop` says nothing of a
chunk that is sent in part, nor of the -1 of SSL_write: `OutShortWrite` and
`OutSslWant`, below, are about those.

The runs of the incoming half have two messages of 5 bytes, whose headers have 2
or 3, taken off the socket in any pieces. `kDefaultBufSize` 3 makes a message
span a buffer that grows. In `InThreads` it is 8: the buffer may grow before a
message is complete and not after, when workers have pointers into it;
`InStaleBuffer` has a buffer of 6, which grows then too.

| run | threads, framing | result |
|---|---|---|
| `InFile` | one thread; HTTP, the first message into a file; any failure, short writes | what is taken is what was sent, in place and whole; a message that arrived is taken unless an event ended the session |
| `InThreads` | an event loop, two workers; HTTP; no failure | the same for workers; nothing is discarded |
| `InAnyFault` | an event loop that goes on after events, two workers; BASIC; any failure | `Read` always has room; a message has one worker |
| `InNextMsg` | one thread | finding: after one message the session cannot parse another (`NextMsgParsable`) |

`TakenExact` is about the first message of a session, and is checked with failures
or with workers; with both it fails (`InLostMsg`, below).

`InNextMsg` limits what the others can show: since `ClearIncomingMsg` leaves
`rhdr_` without a type, the second message of a session is never parsed as what
it is; the runs reach it, and the event that ends the session there. `InAnyFault`
bounds what is taken by `MC_FewTaken` (two messages, none of them right) and
treats the workers as symmetric. A session that was closed stops, so that
deadlock is not checked.

The runs of the other parts:

| run | instance | result |
|---|---|---|
| `FileRef` | 3 Files, 3 Descriptors, 2 descriptors, 2 names and `stdin` | counts are exact, what is open is what some File has open or a last owner without a name left open, and `SharedHandle` is implemented |
| `Conn` | 3 objects, 2 Descriptors, 2 sockets, 2 SSL objects | no SSL, certificate or socket leaks or is freed twice; who says connected is |
| `Loops` | buffers of 0 to 3 bytes (7 for `ReadExhaustive`), a stream of 6 bytes with two line ends, a file of 3 bytes in chunks of 2, datagrams, 1 to 3 tries | what is reported was sent or read, once and in order; every call returns, `File::Copy` if write(2) to a file takes all it is given |
| `Http` | 2 messages with 2 fields in all, URLs with and without host, query and fragment, bodies of no, one and two chunks | what was built comes out, as soon as it is there, wherever it is cut (but see `Whole`) |
| `HttpCutKey` | the same, cut inside a query's key too | finding: `URL::set_query` sets an event over a request that is on its way (`NoFalseAlarm`) |

Three Files (or connections) are what counting needs: two that share and one
that is assigned from, with a Descriptor for each. For connections two
Descriptors are enough to have both a shared one and one to change to, and keep
the run short; `MC_NoEvent` leaves out the event of the last call, which no guard
and no property of the run reads, and `MC_OneNonblocking` leaves out two sockets
that do not block at the same time, as no property of the run relates the modes
of two sockets. Objects and addresses are symmetric. `Loops`
counts the tries of a look-up round `MaxTries` 6, above any count that `Retries`
allows. `Http` needs two messages because the second one starts in what the
first left, and two fields because a field is looked for by name and the first
of that name counts; it ends when everything is delivered, so that deadlock is
not checked. `Whole = {"key", "chunks"}` makes the keys of a query and the chunks
of a body arrive in one piece: else the parsers report what is not wrong.

The other configurations are counterexamples to keep, one property each, of
which TLC finds a violation; the hazards of `PROJECT.json` refer to them.

| configuration | property | what happens |
|---|---|---|
| `OutRace` | `NothingLost` | `IsOutgoingMsgSent` reads `wpending_` without the lock while a producer pushes to it (`TCPSession.h:233`): an unsent message is popped |
| `OutStray` | `ResetOnOwnError` | another call's event makes `Write` discard everything (`TCPSession.cc:773`) |
| `OutShortWrite` | `WireInOrder` | a chunk that is sent in part skips bytes of the file (`TCPSession.cc:894`) |
| `OutSslWant` | `OffsetsAreSent` | the -1 of `WANT_WRITE` is added to an offset |
| `OutSharedFile` | `PositionIsOffset` | a file sent twice is not sought to its start (`TCPSession.cc:835`) |
| `InReadme` | `NeverReset` | with the loop of README.txt the body is parsed as a header and everything is discarded |
| `InSslWant` | `BufferIsStream` | the -1 of `WANT_READ` is added to `rbuf_len_` (`TCPSession.cc:668`) |
| `InBareRequest` | `HdrRecognised` | a request without a body is not recognised until a byte follows it (`HTTPFraming.cc:896`) |
| `InNoMemory` | `LockReleased` | `calloc(3)` fails and `incoming_mtx` stays locked (`TCPSession.cc:370`) |
| `InFileLeak` | `NoDescriptorLeak` | `File::clear` deletes an open descriptor (`File.cc:285`) |
| `InStaleBuffer` | `NoStaleBuffer` | `Read` moves `rbuf_` under a worker's pointer (`TCPSession.cc:676`) |
| `InLostMsg` | `TakenExact` | a failed `Read` discards the message a worker has (`TCPSession.cc:655`) |
| `InBasic` | `BodyInPlace` | a BASIC header is copied from the address of the pointer (`MsgHdr.cc:396`) |
| `FileUnnamed` | `LastOwnerCloses` | `clear`, or an assignment from a File without a name, deletes a Descriptor and leaves what it had open (`File.cc:285`); `ResetRbuf` does so (`TCPSession.cc:1252`) |
| `ConnAgain` | `SSLOwned` | `Socket` or `Accept` of an object that has an SSL drops that one |
| `ConnClosedCopy` | `ConnectedIsOpen` | `Close` of one object leaves its copies connected to a descriptor that is closed (`TCPConn.cc:417`) |
| `ConnUnblock` | `ModeMatches` | `set_socket_blocking` does not clear `O_NONBLOCK`, and the flag and the socket disagree (`IPComm.cc:431`) |
| `LoopsCopy` | `CopyExact` | `File::Copy` forgets all but the last count of write(2), writes bytes again, and may do so for ever (`File.cc:600`), which is why `CallReturns` is checked with `ShortWrites = FALSE` |
| `ConnCert` | `CertObtained` | `Accept` asks the listener's SSL for the client's certificate |
| `HttpCutChunk` | `NoFalseAlarm` | a chunked body that is cut is refused (`HTTPFraming.cc:1154`) |

Others are a run's configuration with another invariant, or with one constant
changed:

| configuration and change | invariant checked | what happens |
|---|---|---|
| `OutThreads` | `NeverFrontOfEmpty` | two event loops see one message, and the second takes `front()` of an empty queue (`TCPSession.cc:729`) |
| `InNextMsg` with `ClosesOnEvent = FALSE` | `TakenExact` | `InitFromBuf` with an unknown type returns true (`MsgHdr.cc:425`) |
| `InFile` | `CompleteIsWhole` | the next message's bytes make a streamed one look complete (`TCPSession.h:229`) |
| `Loops` | `FamilyAsAsked` | `Init` asks the resolver for any family and takes the first |
| `FileRef` with `Risky <- MC_Self` | `CountIsOwners` | a File assigned to itself deletes the Descriptor it then points to |
| `FileRef` with `Risky <- MC_Name` | `NothingLeaks` | a File that is open is named `stdin`, which nobody closes |
| `FileRef` with `Risky <- MC_Adopt` | `HeldOnce` | two Descriptors hold one descriptor |
| `Conn` with `Risky <- MC_Self` | `SSLOwned` | a connection assigned to itself frees its SSL and keeps the pointer |
| `Conn` with `Risky <- MC_CopiedFirst` | `SSLOwned` | an SSL made after the object was copied is not the copy's, which may be the last to leave |
| `Loops` with `Datagram = FALSE` | `SentIsReported` | on a stream socket `Sendto` sends from the start of the buffer again |
| `Loops` with `ExhaustiveLens = {2}` | `ReadsExact` | `ReadExhaustive` with a full buffer reads 0 bytes and reports the end |
| `Loops` with `Retries = {0}` | `TriesBounded` | a count of 0 is decremented first and never reaches 0 again (`IPComm.cc:602`) |
| `Http` with `Bodies <- MC_ThreeChunks` | `NoFalseAlarm` | the length of the header is what the chunks' parser looks at |
| `Http` with `Bodies <- MC_LongBody` | `Recognised` | the same, with a body longer than the header |
| `Http` with `Bare = TRUE` | `Recognised` | a request with no field and nothing after it waits |
| `Http` with `Fields <- MC_EmptyValue` | `RoundTrip` | a field without a value takes the next line for it |
| `Http` with `URIs <- MC_QueryOnly` | `RoundTrip` | a query without a path is printed so that it is parsed as the host |
| `Http` with `URIs <- MC_EmptyPath` | `NoFalseAlarm` | what is printed of a URL without a path is refused |

`OutThreads` looks at states through `MC_NoHistory`, which leaves out the order
of the bytes sent and of the messages queued (no guard and none of the run's
invariants depend on them), treats the two event loops as symmetric, and does
not go on from states in which an offset is below -1, which could only repeat
what one -1 does.

Fairness for `TCPSessionOut` (`FairSpec`, for `QueuedSettles`): a thread inside a call is
scheduled until it returns and gets the mutex if it keeps asking (strong
fairness: the mutex may be taken and released in between), callers clear the
event they found, and the event loop calls `Write` while there is something to
send. Nothing makes an application queue messages.

For `TCPSessionIn` (`FairSpec`, for `ArrivedIsTaken`): a call that was started
ends and a message that was given out is processed, as threads are scheduled;
the event loop makes each of its tests in every round, so that a call it keeps
finding due is made although others come in between (strong fairness); events
are cleared; and bytes on their way arrive, that is `Read` does not for ever
return nothing while there is something to come.

For `SyscallLoops` (`FairSpec`, for `CallReturns`): the kernel and the resolver
answer, which is what a system call does, and the peer sends what it has to send
and closes. Nothing is assumed of what they answer: that a loop which is told to
wait, or to try again, ends, is up to the code. A blocking read(2) waits, but not
for ever, since the peer closes at last.

## Proofs

What each theorem says, and for which uses of the library. Where a hypothesis is
named, the configurations show that the property is false without it.

| theorem's module | proved | for |
|---|---|---|
| `TCPSessionOutProofs` | `TypeOK`, `BufferLinked`, `FilesLinked`, `BufferFits`, `LockedParts`, `ResponseMatchable` | any threads, messages and transport |
| | `NeverFrontOfEmpty` | at most one consumer (`OutThreads` has two) |
| `TCPSessionOutLoopProofs` | `OffsetsAreSent`, `PositionIsOffset`, `NothingLost`, `WireInOrder`, `ChecksAgree`, and the refinement of `MsgQueue` | `OneLoop`, below |
| `TCPSessionInProofs` | `TypeOK`, `RoomToRead`, `OneAtATime` | any threads, messages and transport |
| | `BufferIsStream` | TCP (`InSslWant`) |
| `TCPSessionInLoopProofs` | `BodyInPlace` | TCP, HTTP (`InBasic`), a loop that tests `IsIncomingMsgInitialized` (`InReadme`); any threads and failures |
| | `HdrRecognised` | TCP, HTTP, the same loop, responses (`InBareRequest`) |
| | `TakenExact` | `CarefulLoop`, below (`InLostMsg`, `InNextMsg`) |
| | `NeverReset`, `NoDescriptorLeak` | `CarefulLoop`, and nothing fails that ends in a reset (`InReadme`, `InFileLeak`) |
| `FileRefProofs` | `FileInv`, `CountIsOwners`, `NothingLeaks`, and the refinement of `SharedHandle` | `Risky = {}`, which includes clearing an open File |
| `SSLConnProofs` | `TypeOK`, `SSLOwned`, `ConnectedIsOpen`, and the refinement of `SharedHandle` | `Risky = {}` |
| `SyscallLoopsProofs` | `SentIsReported` | `Datagram`: `Sendto` is for sockets that take a buffer as a whole |
| | `ReadsExact` | `ReadExhaustive` gets more room than the stream has bytes |
| `HTTPScanProofs` | a response's header is understood alike however it is cut (`ResponseStands`) | any tokens |

**Outgoing half.** The assumptions are those of `TCPSessionOut`: lengths are
naturals, headers are not empty, `None` is not a thread. `TypeOK` is not
inductive: the file part of `Write` takes `Head(wfiles)`, which has a type only
because the front message is kept in a file and `wfiles` is aligned with the
queue. The inductive invariant `IInv` is `TypeOK` with the two alignments, the
buffer bound and the mutual exclusion; `Concatenated(parts, s)` (s is the parts,
one after the other) is stated with an explicit function of positions so that
appending a part and dropping the first are lemmas without recursion
(`ConcatenatedAppend`, `ConcatenatedTail`). There is one lemma per action, and one
for the steps that leave the queue alone. `OneConsumerIsSafe` adds that a
consumer that has seen a non-empty queue will find it so: only consumers make it
shorter. `RequestsStayMatchable` says exactly which headers `whdrs_` has at any
time, the requests that were queued less those that were answered, each once: so
that neither popping a request nor `ResetWbuf` takes its header away, whose
response is yet to come, and `delete_whdr` takes the right one. Its proof is that
`whdrs_` stays without duplicates under appending a message that was never queued
and under removing one.

**One loop.** `OneLoop` is the use that README.txt describes, as far as it is
right: one thread adds, writes and pops (with two, `IsOutgoingMsgSent` may answer
from a queue that is being changed, `OutRace`); the connection is TCP (over SSL -1
gets into the offsets, `OutSslWant`) and blocks, or else no message has its body in a file (a short send
skips bytes of it, `OutShortWrite`); and a file is the body of one message only
(`OutSharedFile`). To `IInv` the proof adds `LoopInv`: the front message's two
offsets are those of one position (`FrontInv`), the others are at 0 (`RestInv`), a
body that is open is the front message's and at its offset (`DescInv`), and at
each point of a call what is known of the front message there (`ControlInv`). The
history is one predicate of the queue, the bytes of its front that are out, the
wire, what was queued and what was dropped (`History`), and each step does one of
five things to it, lemmas of their own: nothing, it queues, it sends some bytes of
the front, it finishes the front, or it gives everything up. The refinement maps
the queue to the messages in `wpending_` (`Fifo`) and what was sent to the sum of
the front's offsets (`SentOfFront`); the same five effects are the actions of
`MsgQueue`.

**Incoming half.** Besides the assumptions on lengths the proofs use that `None`
and the event loop are not workers. The inductive invariant has three parts that
most actions touch one of: `MemOK` (buffer and meta-data), `ControlOK` (who is
where) and `SeenOK` (what the application got). To the types `MemOK` adds
`file_offset <= body_len`, without which `StreamIncomingMsg` might take a negative
number of bytes off, and `ControlOK` that only workers release a message, without
which `rtid_` could be cleared under one. For `BufferStaysStream` the buffer is an
interval of the stream; `BytesConcat` and `ShiftTypes` say that appending the next
interval and dropping a prefix leave one.

**Incoming half, one message.** What `InNextMsg` shows bounds what can be true: the
first message that is cleared takes the type of `rhdr_` with it, so that a
session parses one message and no more, and `TakenExact` says that this one is
given out once, as it was sent, and that nothing else ever is. The proof adds to
the invariant above, one after the other:

* `PlaceInv` (with `TypeInv`): as long as `rhdr_` has its type, either no header is
  off the buffer yet, or the first message is in place: `rbuf_` starts with its
  body, or with what is left of it after `StreamIncomingMsg`, and the file has the
  rest. What the loop found before a call still holds when the call is made,
  although a worker may have got in between. This needs that the loop tests
  `IsIncomingMsgInitialized` (`~ReparsesHdr`), that -1 does not get into
  `rbuf_len_` (TCP), and that the header is copied from the buffer (HTTP).
* `GivenInv`: only the first message is ever given out, and no message without a
  type is taken for one.
* `TakenInv`: it is taken once, as it was sent.
* `KeptInv`: nothing was discarded, and no descriptor was left open.

`CarefulLoop` is TCP, HTTP, a loop that tests `IsIncomingMsgInitialized` and stops
after an event, and either no workers or no failure of read(2), realloc(3) or of
another call (with workers, such a failure discards the message one of them has,
`InLostMsg`). `NeverReset` and `NoDescriptorLeak` need that no call
fails that `Read` or `StreamIncomingMsg` answers by a reset (`NothingResets`). That a
response is recognised needs 1 not to be in `Requests`; the same property of a
request is false (`InBareRequest`).

**Files.** Each of the three uses that `Risky` can hold makes one of the
properties false. Besides, Files are finitely many, descriptors are positive, -1
is not the address of a Descriptor, and `NoFile` is not a File's record.
`CountIsOwners` alone is not inductive: that a new Descriptor is counted rightly
needs the addresses without an object to be clean, and that the last owner closes
what is open needs the Files of a Descriptor to agree on being named `stdin` and
every descriptor to be held once. `FileInv` is their conjunction with
`NothingLeaks`, which says of the descriptors in `lost` that they are open and that
no Descriptor holds them, so that nothing else is open without an owner. That
nothing is lost from a File that has a name is not true (`FileUnnamed`). An operation does
at most four things to it: a File leaves a Descriptor (`OneLeaves`, `LastLeaves`),
joins one (`Joins`), opens (`Opens`), closes (`Closes`) or is named (`IsNamed`), each
a lemma about functions and not about the specification, so that an assignment is
a leave and then a join. The refinement maps the handle of a File to the address
of its Descriptor and what a handle has open to the one descriptor the Descriptor
holds. `FileInv` makes that mapping a function of two kinds of changes, a File that
points elsewhere (`HandleChanges`) and a Descriptor that holds something else
(`OpenChanges`), and `LettingGo` turns the code's test of the count into what
`SharedHandle` asks: whether another owner has the handle.

**Connections.** The four theorems of `SSLConnProofs` come from one invariant,
`ConnInv`: counts are exact (`Counted`), a socket is held by one Descriptor
(`OneHolder`), the SSL objects that exist are those that connections have
(`SSLsHeld`), connections that share a Descriptor share their SSL, and no others
do (`SharedTogether`), each connection agrees with its socket and its
SSL (`Members`), and the references to certificates are those that connections
hold. `SharedTogether` is what lets one count stand for two objects: the last owner
of the Descriptor is the last owner of the SSL, which is how `SSLConn::clear`
decides. `Risky = {}` leaves out what breaks it: an SSL made after the object was
copied or made twice (`MC_CopiedFirst`, `ConnAgain`), an assignment to itself
(`MC_Self`), a `Close` under a copy (`ConnClosedCopy`), a socket opened over another,
and a flag that is set without its socket, or while there is a copy. As
for Files there is a lemma for each thing an operation can do (leave, leave last,
join, get a socket, change its state), and the refinement goes by the same two
kinds of changes. That connections are finitely many, that `DESCRIPTOR_NULL` is no
address and `NoConn` no object are assumptions of `SSLConn`.

**Loops.** `Typed` is what every call keeps. For each of the two properties an
invariant says what an unfinished call has done so far: `SendInv` (the bytes sent
are the buffer up to the offset) and `ReadInv` (the bytes read are all that was
taken off the stream since the call was made). `File::Copy` is in it only for the
types (`CopyTyped`): what it copies is right only as long as no count is short. A byte is its
position, so that what was sent is an `Interval`, and `IntervalsJoin` is all the
arithmetic there is. A lemma per routine says what one system call changes
(`SendsDo`, `ReadLineDoes`, `CopyWriteDoes`, ...), without the invariants.

**Headers.** `InitFromBuf` parses from the start of what has arrived, each time
more has. `ResponseStands` says of `ParseResponseHdr` up to the body, and for any
tokens and any cut, that unless it asks for more it has decided: with more data it
finds the same fields, ends at the same place, or sets the same event. `Stands`
relates the parser on the data so far to the one on all the data, `Within` says that
a parser that goes on is at a place of the data; each operator of `TokenScan` and
`HTTPScan` has a lemma for either, and they are composed as the code composes the
calls. There is no induction over data in this: `Least` takes the least
element of a set of numbers, and `Downwards` goes from the end of the data back,
which gives that `Many`'s function exists (a parser of one field goes on by a token
at least, `GoesOn`) and that what it finds stands. `TurnsStand` is where a field that
needs more data stops the fields before it from being believed. Requests are not
covered: `URL` looks for the ":" of a scheme in all that has arrived, so that what it
says of a cut request may be taken back (`HttpCutKey` is a case of it). Nor is the
chunked body, which is parsed with the wrong length (`HttpCutChunk`).

Only model-checked: `RoundTrip` and `Recognised` of `HTTPFraming` and `URL`, which
relate printers and parsers that go through data by recursive operators, beyond the
prover; and liveness (`QueuedSettles`, `ArrivedIsTaken`, `CallReturns`), which
needs ENABLED.

## Not modelled

* All parts: texts of events and log messages; allocation of anything but
  `wbuf_`, `rbuf_` and the one `calloc` of `InitIncomingMsg`; the data race itself
  in the unlocked reads, which is modelled by its outcome (an arbitrary answer).
* `TCPSession`: the copy constructor and `set_connected`, which takes both locks;
  the two calls of SSL_shutdown with which a close notify is answered, of which
  only the end is there (`Sent`);
  `set_storage`, white space before a header, bodies that look like headers. A
  chunked body is parsed in `HTTPFraming`, its copying back into `rbuf_` is not.
* `File`, `Descriptor`: threads that change one count (`Descriptor.h:100` has no
  lock: one thread is what the code provides for); `RefCount`, which nothing
  uses; the checks of names for taint, except that a name may be refused.
* `IPComm`, `TCPConn`, `SSLConn`: the close-on-exec flag, socket options, failures
  of fcntl(2), cached DNS names, printing; which of OpenSSL's errors a handshake
  ended with.
* `HTTPScan`, `HTTPFraming`, `URL`: names longer than `SCRATCH_BUF_SIZE`; the 16 bytes below
  which a request is not looked at; words cut in the middle (see `TokenScan`); the
  ":" that `URL` looks for beyond the data, up to a NUL (`URL.cc:384`).
* `MIMEFraming`, `RFC822MsgHdr`, `SOAPFraming`, `Base64`, `SSLContext`, `Logger`,
  `Template`: formatting and set-up without state that others depend on.
* `ErrorHandler`: its flag is a variable of the modules that use it; its lists
  of texts and severities are not there.

## Plan

1. `TCPSessionOut`, `MsgQueue`, `TCPSessionIn` and their proofs: done.
2. `FileRef`, `Descriptor`, `SharedHandle` and their proofs; `SSLConn`,
   `SyscallLoops`, `URL`, `HTTPFraming`: done.
3. Proofs of the outgoing half in one loop with the refinement of `MsgQueue`, of
   `SSLConn` and `SyscallLoops`: done.
4. Proofs of the incoming half for one message, and of the parsers of a
   response's header: done.
5. `TCPSessionLocks`: `set_connected`, both locks, the copy constructor; message
   ids, which wrap round, and the responses matched by them.

---------------------------- MODULE SyscallLoops ----------------------------
(* The routines of IPComm, TCPConn and File that call the kernel, or the     *)
(* resolver, in a loop.  One call at a time; each step is one system call,   *)
(* with any result it may have.  A byte is its position in the buffer, the   *)
(* file or the stream it comes from.                                         *)
EXTENDS Integers, Sequences

CONSTANTS
  Text,            \* what the peer sends: "x", "NUL", "CR" or the delimiter "LF"
  Lens,            \* sizes of buffers
  ExhaustiveLens,  \* those given to ReadExhaustive
  FileLen,         \* length of a file that is copied
  FILE_CHUNK_SIZE,
  Retries,         \* retry counts given to the look-ups
  MaxTries,        \* bound: tries are counted below it
  Families,        \* address families
  AF_UNSPEC,
  Datagram,        \* the socket of Sendto sends a buffer as a whole
  ShortWrites      \* write(2) to a file may take less than it was given

ASSUME LoopsAssumption ==
  /\ Text \in Seq({"x", "NUL", "CR", "LF"}) /\ AF_UNSPEC \notin Families
  /\ FileLen \in Nat /\ MaxTries \in Nat \ {0} /\ FILE_CHUNK_SIZE \in Nat \ {0}
  /\ Lens \subseteq Nat /\ ExhaustiveLens \subseteq Nat /\ Retries \subseteq Int
  /\ {Datagram, ShortWrites} \subseteq BOOLEAN

VARIABLES
  call,            \* the locals and the outcome of the current or last call
  arrived,         \* bytes of Text that the kernel has received
  got,             \* those of them that were read
  closed           \* the peer has closed its end

vars == <<call, arrived, got, closed>>

(* off is offset or bytes_read; bytes are those the kernel took, or those in *)
(* the caller's buffer; from is where the call found the stream, which is    *)
(* got, or the file it copies; n and m are those of File::Copy; wanted and   *)
(* family are the ones Init is asked for and finds.  The socket follows      *)
(* blocking_flag_.                                                           *)
NewCall(op, blocking, len, retry) ==
  [op |-> op, blocking |-> blocking, len |-> len, off |-> 0, n |-> 0, m |-> 0, retry |-> retry, tries |-> 0,
   asked |-> retry, family |-> AF_UNSPEC, wanted |-> AF_UNSPEC, bytes |-> <<>>, from |-> got,
   done |-> FALSE, result |-> 0, event |-> FALSE, eof |-> FALSE]

Return(c, result) == [c EXCEPT !.done = TRUE, !.result = result]
Fail(c, result) == [Return(c, result) EXCEPT !.event = TRUE]

Interval(a, b) == [i \in 1 .. b - a |-> a + i]

Smaller(a, b) == IF a < b THEN a ELSE b

-----------------------------------------------------------------------------
(* Sending *)

(* What a system call may take of count bytes. *)
Taken(count, whole) == IF count = 0 \/ whole THEN {count} ELSE 1 .. count

\* Mutant: every call takes from the start of the buffer.
Sent_FromStart(c, n) == [c EXCEPT !.off = @ + n, !.bytes = @ \o Interval(0, n)]

Sent(c, n) == [c EXCEPT !.off = @ + n, !.bytes = @ \o Interval(c.off, c.off + n)]

(* The loop of Write and Sendto; count is what they ask the kernel to take.  *)
Sends(count, whole) ==
  \/ \E n \in Taken(count, whole) :
       LET c == Sent(call, n) IN call' = IF c.off >= c.len THEN Return(c, c.off) ELSE c
  \/ ~call.blocking /\ call' = Return(call, call.off)
  \/ call' = Fail(call, 0)

WriteStep == call.op = "Write" /\ Sends(call.len - call.off, FALSE)

(* Sendto gives all of len to the kernel, whatever it sent before. *)
SendtoStep == call.op = "Sendto" /\ Sends(call.len, Datagram)

(* Sendmsg starts with bytes_left 0, and so ends with the first sendmsg(2). *)
SendmsgStep ==
  /\ call.op = "Sendmsg"
  /\ \/ \E n \in Taken(call.len, FALSE) : call' = Return(Sent(call, n), n)
     \/ ~call.blocking /\ call' = Return(call, 0)
     \/ call' = Fail(call, 0)

-----------------------------------------------------------------------------
(* Receiving *)

Stored(c, n) == [c EXCEPT !.off = @ + n, !.bytes = @ \o Interval(got, got + n)]

(* The results of read(2) of count bytes: some bytes, or none at the end of  *)
(* the stream (or if none were asked for), EAGAIN, or another error.         *)
ReadsBytes(count, n) == n \in 1 .. Smaller(count, arrived - got)

\* Mutant: a socket with nothing to read is taken for the end.
ReadsNone_Empty(count) == got = arrived

ReadsNone(count) == count = 0 \/ (closed /\ got = Len(Text))

ReadsLater == ~call.blocking /\ got = arrived /\ ~(closed /\ got = Len(Text))

Counts == 1 .. Len(Text)

ReadStep ==
  /\ call.op = "Read"
  /\ \/ \E n \in Counts : ReadsBytes(call.len, n) /\ call' = Return(Stored(call, n), n) /\ got' = got + n
     \/ ReadsNone(call.len) /\ call' = Return([call EXCEPT !.eof = TRUE], 0) /\ got' = got
     \/ ReadsLater /\ call' = Return(call, 0) /\ got' = got
     \/ call' = Fail(call, -1) /\ got' = got

(* Recvfrom and Recvmsg; they return EAGAIN's -1 without an event. *)
RecvStep ==
  /\ call.op = "Recv"
  /\ \/ \E n \in Counts : ReadsBytes(call.len, n) /\ call' = Return(Stored(call, n), n) /\ got' = got + n
     \/ ReadsNone(call.len) /\ call' = Return(call, 0) /\ got' = got
     \/ ReadsLater /\ call' = Return(call, -1) /\ got' = got
     \/ call' = Fail(call, 0) /\ got' = got

ReadExhaustiveStep ==
  LET left == call.len - call.off IN
  /\ call.op = "ReadExhaustive"
  /\ \/ call.blocking /\ call' = Fail(call, 0) /\ got' = got
     \/ /\ ~call.blocking
        /\ \/ \E n \in Counts : ReadsBytes(left, n) /\ call' = Stored(call, n) /\ got' = got + n
           \/ ReadsNone(left) /\ call' = Return([call EXCEPT !.eof = TRUE], call.off) /\ got' = got
           \/ left > 0 /\ ReadsLater /\ call' = Return(call, call.off) /\ got' = got
           \/ call' = Fail(call, call.off) /\ got' = got

Terminators == {"NUL", "CR", "LF"}

(* ReadLine reads byte by byte; any error, EAGAIN too, is the end of it.     *)
ReadLineStep ==
  /\ call.op = "ReadLine"
  /\ IF call.off >= call.len - 1 THEN call' = Return(call, call.off) /\ got' = got
     ELSE \/ /\ ReadsBytes(1, 1)
             /\ got' = got + 1
             /\ call' = IF Text[got + 1] \in Terminators THEN Return(call, call.off) ELSE Stored(call, 1)
          \/ ReadsNone(1) /\ call' = Return([call EXCEPT !.eof = TRUE], call.off) /\ got' = got
          \/ call' = Fail(call, 0) /\ got' = got

-----------------------------------------------------------------------------
(* File::Copy *)

Copying == {"CopyOpen", "CopyRead", "CopyWrite"}

(* There is nothing to copy or no name for it; or the new file is opened, or *)
(* fails to be, which is an event and does not keep Copy from going on.      *)
CopyOpen ==
  /\ call.op = "CopyOpen"
  /\ \/ call' = Fail(call, 0)
     \/ \E failed \in BOOLEAN : call' = [call EXCEPT !.op = "CopyRead", !.event = failed]

(* read(2) of the next chunk, or the end of the file: nothing seeks it, and  *)
(* so it is read from where it was.                                          *)
CopyRead ==
  LET left == FileLen - call.from - call.off IN
  /\ call.op = "CopyRead"
  /\ \/ \E n \in 1 .. Smaller(FILE_CHUNK_SIZE, left) :
          call' = [call EXCEPT !.op = "CopyWrite", !.off = @ + n, !.n = n, !.m = 0]
     \/ left = 0 /\ call' = Return(call, 0)
     \/ call' = Fail(call, 0)

(* m = write(fd, tmp_buf + m, n - m): until it takes nothing.  It takes      *)
(* nothing of a file that was not opened.                                    *)
CopyWrite ==
  LET start == call.from + call.off - call.n + call.m IN
  /\ call.op = "CopyWrite"
  /\ \/ \E m \in Taken(call.n - call.m, ~ShortWrites) :
          /\ ~call.event
          /\ call' = [call EXCEPT !.m = m, !.bytes = @ \o Interval(start, start + m),
                                  !.op = IF m = 0 THEN "CopyRead" ELSE @]
     \/ call' = Fail(call, 0)

-----------------------------------------------------------------------------
(* Look-ups *)

(* Counted round MaxTries, so that a loop without end is a cycle of states. *)
Tried(c) == [c EXCEPT !.tries = (@ + 1) % MaxTries]

\* Mutant: a try is not counted.
Again_Forever(c, final) == IF final THEN Fail(Tried(c), 0) ELSE Tried(c)

(* A look-up that failed, for now or for good: whether to try again. *)
Again(c, final) ==
  LET d == [Tried(c) EXCEPT !.retry = @ - 1] IN
  IF d.retry = 0 \/ final THEN Fail(d, 0) ELSE d

(* Init: whatever family was asked for, the hints are PF_UNSPEC.  The name   *)
(* is looked up next, with the tries that are left.                          *)
InitStep ==
  /\ call.op = "Init"
  /\ \/ \E f \in Families :
          call' = [Tried(call) EXCEPT !.op = "ResolveDNSName", !.family = f, !.tries = 0, !.asked = call.retry]
     \/ \E final \in BOOLEAN : call' = Again(call, final)

ResolveDNSNameStep ==
  /\ call.op = "ResolveDNSName"
  /\ \/ call.family = AF_UNSPEC /\ call' = Fail(call, 0)
     \/ call.family # AF_UNSPEC /\ call' = Return(Tried(call), 0)
     \/ call.family # AF_UNSPEC /\ \E final \in BOOLEAN : call' = Again(call, final)

(* get_reverse_dns counts the tries that failed; a dotted address needs none. *)
ReverseDNSStep ==
  /\ call.op = "get_reverse_dns"
  /\ \/ call.tries = 0 /\ call' = Return(call, 0)
     \/ call' = Return(Tried(call), 0)
     \/ /\ call.retry > 0
        /\ call' = [Tried(call) EXCEPT !.retry = @ - 1]
     \/ call' = Return(Tried(call), -1)

-----------------------------------------------------------------------------

(* The caller makes the next call.  ReadLine is for blocking sockets, and    *)
(* who reads has room for a byte.                                            *)
Calls ==
  LET Filled == Lens \ {0} IN
  {NewCall(op, b, len, 0) : op \in {"Write", "Sendto", "Sendmsg"}, b \in BOOLEAN, len \in Lens}
  \cup {NewCall(op, b, len, 0) : op \in {"Read", "Recv"}, b \in BOOLEAN, len \in Filled}
  \cup {NewCall("ReadExhaustive", b, len, 0) : b \in BOOLEAN, len \in ExhaustiveLens}
  \cup {NewCall("ReadLine", TRUE, len, 0) : len \in Filled}
  \cup {[NewCall("CopyOpen", TRUE, 0, 0) EXCEPT !.from = position] : position \in 0 .. FileLen}
  \cup {NewCall("get_reverse_dns", TRUE, 0, retry) : retry \in Retries}
  \cup {[NewCall("ResolveDNSName", TRUE, 0, retry) EXCEPT !.family = f] :
           retry \in Retries, f \in Families \cup {AF_UNSPEC}}
  \cup {[NewCall("Init", TRUE, 0, retry) EXCEPT !.wanted = f] :
           retry \in Retries, f \in Families \cup {AF_UNSPEC}}

Init ==
  /\ arrived = 0 /\ got = 0 /\ closed = FALSE
  /\ call \in Calls

Call ==
  /\ call.done
  /\ call' \in Calls
  /\ UNCHANGED <<arrived, got, closed>>

Step ==
  /\ ~call.done
  /\ \/ /\ \/ WriteStep \/ SendtoStep \/ SendmsgStep
           \/ CopyOpen \/ CopyRead \/ CopyWrite
           \/ InitStep \/ ResolveDNSNameStep \/ ReverseDNSStep
        /\ UNCHANGED got
     \/ ReadStep \/ RecvStep \/ ReadExhaustiveStep \/ ReadLineStep
  /\ UNCHANGED <<arrived, closed>>

PeerSends ==
  /\ arrived < Len(Text)
  /\ arrived' \in arrived + 1 .. Len(Text)
  /\ UNCHANGED <<call, got, closed>>

PeerCloses ==
  /\ arrived = Len(Text) /\ ~closed
  /\ closed' = TRUE
  /\ UNCHANGED <<call, arrived, got>>

Next == Call \/ Step \/ PeerSends \/ PeerCloses

Spec == Init /\ [][Next]_vars

(* The kernel and the resolver answer, and the peer sends and closes.        *)
FairSpec == Spec /\ WF_vars(Step) /\ WF_vars(PeerSends) /\ WF_vars(PeerCloses)

-----------------------------------------------------------------------------
(* Properties *)

Returned(ops) == call.done /\ ~call.event /\ call.op \in ops

(* What Write, Sendto and Sendmsg report as sent are bytes of the buffer     *)
(* from its start, in order and once; bytes that were sent before an error   *)
(* are, too.                                                                 *)
SentIsReported ==
  call.op \in {"Write", "Sendto", "Sendmsg"} =>
    /\ call.bytes = Interval(0, Len(call.bytes)) /\ Len(call.bytes) <= call.len
    /\ Returned({"Write", "Sendto", "Sendmsg"}) => call.result = Len(call.bytes)

(* What was read are the next bytes of the stream and nothing is lost        *)
(* between two calls; the end is reported only when the peer closed and      *)
(* everything was read; a line has no terminator in it and is not cut short. *)
ReadsExact ==
  Returned({"Read", "Recv", "ReadExhaustive", "ReadLine"}) =>
    LET ended == got > call.from + Len(call.bytes) IN
    /\ call.bytes = Interval(call.from, call.from + Len(call.bytes))
    /\ call.result \in {Len(call.bytes), -1}
    /\ got = call.from + Len(call.bytes) + (IF ended THEN 1 ELSE 0)
    /\ ended => call.op = "ReadLine" /\ Text[got] \in Terminators
    /\ call.eof => closed /\ got = Len(Text)
    /\ call.op = "ReadLine" =>
         /\ \A i \in 1 .. Len(call.bytes) : Text[call.bytes[i]] \notin Terminators
         /\ ended \/ call.eof \/ call.result = call.len - 1

(* What Copy wrote so far is the file from where it stood, every byte once,  *)
(* and all the rest of it when Copy returns without an event: "Routine to    *)
(* make a low-level copy of the contents of a File object" (File.cc:566).    *)
CopyExact ==
  call.op \in Copying =>
    /\ call.bytes = Interval(call.from, call.from + Len(call.bytes))
    /\ call.from + Len(call.bytes) <= FileLen
    /\ Returned(Copying) => call.from + Len(call.bytes) = FileLen

(* A look-up is tried as often as was asked for, get_reverse_dns once more.  *)
TriesBounded == call.tries <= call.asked + (IF call.op = "get_reverse_dns" THEN 1 ELSE 0)

(* Init finds an address of the family it was asked for. *)
FamilyAsAsked == call.family # AF_UNSPEC /\ call.wanted # AF_UNSPEC => call.family = call.wanted

(* Every call returns: the loops end, whatever the kernel answers. *)
CallReturns == []<>call.done
=============================================================================

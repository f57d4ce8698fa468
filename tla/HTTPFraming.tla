----------------------------- MODULE HTTPFraming ----------------------------
(* HTTPFraming: headers are built, printed and sent, and the peer recognises *)
(* them in what it has received so far, each time from the start.  Tokens    *)
(* are those of TokenScan; letters of either case are the same.              *)
EXTENDS URL, HTTPScan, FiniteSets

CONSTANTS
  Methods,          \* "GET", "POST", ...
  URIs,             \* the parts given to URL::Init
  Codes,            \* status codes
  Fields,           \* what an application appends, [name, value, parameters]
  Bodies,           \* message bodies: sequences of chunks, one if not chunked
  Number,           \* the number of a word of Digits
  Phrase,           \* what status_code_phrase returns for a code
  AbsPath,          \* the values of abs_path
  Stale,            \* what is in rbuf_ after the data
  Whole,            \* "key", "chunks": these arrive in one piece
  Bare,             \* whether there are requests without any field
  MaxFields,        \* bound: fields appended in all
  MaxMsgs           \* bound: messages sent

CONTENT_LENGTH == <<"Content-Length">>
TRANSFER_ENCODING == <<"Transfer-Encoding">>
CONNECTION == <<"Connection">>
CHUNKED == <<"chunked">>

ASSUME HTTPAssumption ==
  /\ Whole \subseteq {"key", "chunks"} /\ AbsPath \subseteq BOOLEAN /\ Bare \in BOOLEAN
  /\ Number \in [Digits -> Nat] /\ Stale \notin Digits
  /\ MaxFields \in Nat /\ MaxMsgs \in Nat

VARIABLES
  draft,            \* the header that is being built
  fields,           \* how many fields were appended
  sent,             \* messages sent: header as it should arrive, body, end in wire
  wire,             \* all tokens sent
  glued,            \* places of wire after which no piece of data ends
  arrived,          \* how many of them were received
  start,            \* how many of those were taken out of rbuf_
  taken,            \* headers and de-chunked bodies that were initialised
  fresh,            \* data was received since InitFromBuf was last called
  event             \* InitFromBuf set an ErrorHandler event

vars == <<draft, fields, sent, wire, glued, arrived, start, taken, fresh, event>>

NOT_READY == "NOT_READY"

NullHdr ==
  [msg_type |-> NOT_READY, method |-> "NONE", uri |-> NullURL, code |-> "0",
   version |-> <<"1", "1">>, msg_hdrs |-> <<>>]

-----------------------------------------------------------------------------
(* Accessors and mutators *)

Named(h, name) == {i \in DOMAIN h.msg_hdrs : h.msg_hdrs[i].name = name}

(* The value of the first field of that name. *)
field_value(h, name) ==
  IF Named(h, name) = {} THEN <<>>
  ELSE h.msg_hdrs[CHOOSE i \in Named(h, name) : \A j \in Named(h, name) : i <= j].value

msg_len(h) ==
  LET v == field_value(h, CONTENT_LENGTH) IN
  IF v # <<>> /\ v[1] \in Digits THEN Number[v[1]] ELSE 0

IsChunked(h) == field_value(h, TRANSFER_ENCODING) = CHUNKED

InitRequest(method, uri) == [NullHdr EXCEPT !.msg_type = "REQUEST", !.method = method, !.uri = uri]

set_connection(h, value) ==
  LET f == [name |-> CONNECTION, value |-> value, parameters |-> <<>>] IN
  IF Named(h, CONNECTION) = {} THEN [h EXCEPT !.msg_hdrs = Append(@, f)]
  ELSE [h EXCEPT !.msg_hdrs = [i \in DOMAIN @ |->
          IF i \in Named(h, CONNECTION) THEN [@[i] EXCEPT !.value = value] ELSE @[i]]]

InitResponse(code, connection) ==
  set_connection([NullHdr EXCEPT !.msg_type = "RESPONSE", !.code = code], connection)

(* A field that is there is an event, and is not appended. *)
AppendMsgHdr(h, f) == IF Named(h, f.name) = {} THEN [h EXCEPT !.msg_hdrs = Append(@, f)] ELSE h

-----------------------------------------------------------------------------
(* Printing *)

CRLF == <<"CR", "LF">>

print_start_line(h, abs_path) ==
  LET version == <<kHTTPSlash, h.version[1], ".", h.version[2]>> IN
  IF h.method # "NONE"
  THEN <<h.method, "SP">> \o (IF abs_path THEN print_abs_path(h.uri) ELSE print_absoluteURI(h.uri))
       \o <<"SP">> \o version
  ELSE version \o <<"SP", h.code, "SP">> \o Phrase[h.code]

RECURSIVE PrintParameters(_)
PrintParameters(params) ==
  IF params = <<>> THEN <<>>
  ELSE <<";", "SP">> \o Head(params).key \o <<"=">> \o Head(params).value \o PrintParameters(Tail(params))

RECURSIVE print_msg_hdrs(_)
print_msg_hdrs(msg_hdrs) ==
  IF msg_hdrs = <<>> THEN <<>>
  ELSE LET f == Head(msg_hdrs) IN
       f.name \o <<":", "SP">> \o f.value \o PrintParameters(f.parameters) \o CRLF
       \o print_msg_hdrs(Tail(msg_hdrs))

print_hdr(h, abs_path) == print_start_line(h, abs_path) \o CRLF \o print_msg_hdrs(h.msg_hdrs) \o CRLF

-----------------------------------------------------------------------------
(* Parsing *)

(* The end of a request's header needs a token after it; p.at is then the    *)
(* place after the header.                                                   *)
ParseRequestHdr(s, i, default_port) ==
  LET method == Eat(s, Skip(s, Parser(i, [NullHdr EXCEPT !.method = s[i]])), "SP")
      url == URLFromBuf(s, method.at, Digits, default_port)
      uri == IF Going(method) THEN [method EXCEPT !.at = url.at, !.st = url.st, !.h.uri = url.h] ELSE method
      version == ParseVersion(s, Eat(s, uri, "SP"))
      hdrs == ParseMsgHdrs(s, Eat(s, Eat(s, version, "CR"), "LF"))
      end == Eat(s, Eat(s, hdrs, "CR"), "LF")
  IN Ended([end EXCEPT !.h.msg_type = "REQUEST"], "done")

-----------------------------------------------------------------------------
(* ParseChunkedMsgBody *)

(* n tokens of rbuf_ from place i on, with those after the data. *)
Window(s, i, n) == [k \in 1 .. n |-> IF i + k - 1 <= Len(s) THEN s[i + k - 1] ELSE Stale]

(* From place i on, n tokens are left: more than there are, by one for each  *)
(* chunk, whose last LF is not counted.  used counts what was.  A chunk is   *)
(* what is before the next CR; its size only tells the last one.             *)
RECURSIVE Chunks(_, _, _, _, _)
Chunks(s, i, n, used, body) ==
  LET t == Window(s, i, n)
      size == Word(t, Parser(1, NullHdr), {"CR"})
      data_at == Eat(t, Eat(t, size, "CR"), "LF")
      data == Word(t, data_at, {"CR"})
      cr == Eat(t, data, "CR")
      end == Expect(t, cr, "LF")
  IN CASE n <= 0 -> [st |-> "more", used |-> used, body |-> body]
       [] n > 0 /\ ~Going(data_at) -> [st |-> data_at.st, used |-> used, body |-> body]
       [] n > 0 /\ Going(data_at) /\ size.text \in {<<>>, <<"0">>} ->
            [st |-> "done", used |-> used + data_at.at - 1, body |-> body]
       [] OTHER ->
            IF ~Going(end) THEN [st |-> end.st, used |-> used, body |-> body]
            ELSE Chunks(s, i + end.at, n - (end.at - 1), used + end.at - 1, body \o data.text)

ParseChunkedMsgBody(s, i, n) ==
  LET first == SkipSpace(Window(s, i, n), 1)
  IN Chunks(s, i + first - 1, n - (first - 1), first - 1, <<>>)

(* A response whose header ends at p, and what follows of a chunked one.     *)
WithBody(s, p, chunks) ==
  CASE ~Going(p) \/ ~IsChunked(p.h) -> Ended(p, "done")
    [] p.at > Len(s) -> Ended(p, "more")
    [] OTHER -> [p EXCEPT !.st = chunks.st, !.at = @ + chunks.used, !.text = chunks.body]

(* len - n is the header's length: the chunks' parser takes it for what is   *)
(* left.                                                                     *)
ResponseBody(s, i, p) == WithBody(s, p, ParseChunkedMsgBody(s, p.at, p.at - i))

ParseResponseHdr(s, i) == ResponseBody(s, i, ResponseHdr(s, ParseStatusLine(s, Parser(i, NullHdr))))

(* InitFromBuf: what it finds first decides. *)
InitFromBuf(s, default_port) ==
  LET i == SkipSpace(s, 1)
      p == Parser(i, NullHdr)
  IN CASE i > Len(s) -> Ended(p, "more")
       [] i <= Len(s) /\ s[i] \in Methods -> ParseRequestHdr(s, i, default_port)
       [] i <= Len(s) /\ s[i] = kHTTPSlash -> ParseResponseHdr(s, i)
       [] OTHER -> Ended(p, IF Len(s) - i + 1 >= Len("DELETE") THEN "event" ELSE "more")

-----------------------------------------------------------------------------
(* Sending *)

Init ==
  /\ draft = NullHdr /\ fields = 0
  /\ sent = <<>> /\ wire = <<>> /\ glued = {} /\ arrived = 0
  /\ start = 0 /\ taken = <<>> /\ fresh = FALSE /\ event = FALSE

Received == UNCHANGED <<arrived, start, taken, fresh, event>>

(* An application builds a request with a URL that could be made, ... *)
NewRequest ==
  /\ draft = NullHdr /\ Len(sent) < MaxMsgs
  /\ \E method \in Methods, a \in URIs :
       Going(InitURL(a)) /\ draft' = InitRequest(method, InitURL(a).h)
  /\ UNCHANGED <<fields, sent, wire, glued>> /\ Received

(* ... or a response, ... *)
NewResponse ==
  /\ draft = NullHdr /\ Len(sent) < MaxMsgs
  /\ \E code \in Codes, connection \in {<<"open">>, <<"close">>} : draft' = InitResponse(code, connection)
  /\ UNCHANGED <<fields, sent, wire, glued>> /\ Received

(* ... appends fields, ... *)
AppendField ==
  /\ draft # NullHdr /\ fields < MaxFields
  /\ \E f \in Fields : draft' = AppendMsgHdr(draft, f)
  /\ fields' = fields + 1
  /\ UNCHANGED <<sent, wire, glued>> /\ Received

(* ... and sends it with a body whose length or encoding it tells.           *)
RECURSIVE Encoded(_)
Encoded(chunks) ==
  IF chunks = <<>> THEN <<"0">> \o CRLF \o CRLF
  ELSE <<"size">> \o CRLF \o Head(chunks) \o CRLF \o Encoded(Tail(chunks))

(* A body as the application has it, without the coding. *)
RECURSIVE Flat(_)
Flat(chunks) == IF chunks = <<>> THEN <<>> ELSE Head(chunks) \o Flat(Tail(chunks))

(* What of a header the peer should find: no more of its URL than is sent.   *)
Printed(h, abs_path) ==
  IF abs_path THEN [h EXCEPT !.uri.scheme = <<>>, !.uri.host = <<>>, !.uri.port = URL_PORT_NULL] ELSE h

Keys(h) == {h.uri.query[i].key[1] : i \in DOMAIN h.uri.query}

Send ==
  /\ draft # NullHdr
  /\ draft.msg_type = "REQUEST" => Bare \/ draft.msg_hdrs # <<>>
  /\ \E abs_path \in AbsPath, body \in Bodies :
       LET hdr == print_hdr(draft, abs_path)
           at == Len(wire) + Len(hdr)
           data == IF IsChunked(draft) THEN Encoded(body) ELSE Flat(body)
           keys == {k \in DOMAIN hdr : hdr[k] \in Keys(draft)}
       IN /\ IF IsChunked(draft) THEN draft.msg_type = "RESPONSE" /\ msg_len(draft) = 0
             ELSE msg_len(draft) = Len(data)
          /\ wire' = wire \o hdr \o data
          /\ sent' = Append(sent, [hdr |-> Printed(draft, abs_path), body |-> Flat(body), hdr_end |-> at,
                                   end |-> at + Len(data)])
          /\ glued' = glued \cup (IF "key" \in Whole THEN {Len(wire) + k : k \in keys} ELSE {})
                        \cup (IF "chunks" \in Whole /\ IsChunked(draft) THEN at + 1 .. at + Len(data) - 1 ELSE {})
  /\ draft' = NullHdr
  /\ UNCHANGED fields /\ Received

-----------------------------------------------------------------------------
(* Receiving *)

Deliver ==
  /\ arrived' \in (arrived + 1 .. Len(wire)) \ glued
  /\ fresh' = TRUE
  /\ UNCHANGED <<draft, fields, sent, wire, glued, start, taken, event>>

(* MsgHdr::InitFromBuf with the type TYPE_HTTP, which each header is given    *)
(* anew here (a session does so once, see NextMsgParsable of TCPSessionIn).  *)
(* The session takes a header that is complete out of rbuf_; its body        *)
(* follows, once it has arrived.                                             *)
TakeOrWait(p) ==
  IF p.st = "done"
  THEN /\ start' = start + p.at - 1 + (IF IsChunked(p.h) THEN 0 ELSE msg_len(p.h))
       /\ taken' = Append(taken, [hdr |-> p.h, body |-> p.text])
       /\ UNCHANGED <<fresh, event>>
  ELSE fresh' = FALSE /\ event' = (p.st = "event") /\ UNCHANGED <<start, taken>>

Parse ==
  /\ fresh /\ ~event /\ start < arrived
  /\ TakeOrWait(InitFromBuf(SubSeq(wire, start + 1, arrived), URL_PORT_NULL))
  /\ UNCHANGED <<draft, fields, sent, wire, glued, arrived>>

Next == NewRequest \/ NewResponse \/ AppendField \/ Send \/ Deliver \/ Parse

Spec == Init /\ [][Next]_vars

-----------------------------------------------------------------------------
(* Properties *)

(* What is taken out of the stream are the headers that were sent, in order  *)
(* and with every part, and the bodies of chunked ones, however it arrived.  *)
RoundTrip ==
  /\ Len(taken) <= Len(sent)
  /\ \A i \in DOMAIN taken :
       /\ taken[i].hdr = sent[i].hdr
       /\ IsChunked(sent[i].hdr) => taken[i].body = sent[i].body

(* A header is taken as soon as it has arrived, a request's with a token     *)
(* after it, a chunked response's with its body, and none is refused.        *)
Recognised ==
  /\ ~event
  /\ ~fresh =>
       \A i \in DOMAIN sent :
         LET h == sent[i].hdr
             needed == CASE h.msg_type = "REQUEST" -> sent[i].hdr_end + 1
                         [] IsChunked(h) -> sent[i].end
                         [] OTHER -> sent[i].hdr_end
         IN needed <= arrived => i <= Len(taken)

(* No part of a message is refused. *)
NoFalseAlarm == ~event
=============================================================================

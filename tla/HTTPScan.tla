------------------------------ MODULE HTTPScan ------------------------------
(* The lines of an HTTP header, as HTTPFraming parses them.  A parser begins *)
(* at a place of the data, and ends "more" where the code returns without an *)
(* event.                                                                    *)
EXTENDS TokenScan

CONSTANT Digits     \* words that are numbers

kHTTPSlash == "HTTP/"
Versions == {<<"1", "1">>, <<"1", "0">>, <<"0", "9">>}

-----------------------------------------------------------------------------
(* Message headers *)

(* What is parsed again and again until a CR is there: one[i] is the parser  *)
(* after one of them that begins at place i, and what it found.              *)
Many(s, p, one) ==
  LET from[i \in 1 .. Len(s)] ==
        IF s[i] = "CR" THEN [p |-> [p EXCEPT !.at = i], found |-> <<>>]
        ELSE IF ~Going(one[i].p) THEN [p |-> one[i].p, found |-> <<one[i].found>>]
        ELSE [from[one[i].p.at] EXCEPT !.found = <<one[i].found>> \o @]
  IN IF Going(p) THEN from[p.at] ELSE [p |-> p, found |-> <<>>]

(* A parameter of a field, with the ";" before it. *)
ParseParameter(s, p) ==
  LET skip == Skip(s, p)
      key == Word(s, SkipSpaces(s, skip), {"="})
      equals == Skip(s, key)
      value == Word(s, SkipSpaces(s, equals), {";", "CR"})
  IN [p |-> value, found |-> [key |-> key.text, value |-> value.text]]

ParseParameters(s, p) == Many(s, p, [i \in 1 .. Len(s) |-> ParseParameter(s, [p EXCEPT !.at = i])])

(* The rest of a field, whose name and value were found. *)
FieldEnd(s, name, value) ==
  LET rest == ParseParameters(s, value) IN
  [p |-> Eat(s, Eat(s, rest.p, "CR"), "LF"),
   found |-> [name |-> name.text, value |-> value.text, parameters |-> rest.found]]

FieldName(s, p) == Word(s, IF s[p.at] \in Space THEN Ended(p, "event") ELSE p, {":"})

\* Mutant: the space after the colon is taken for part of the value.
ParseMsgHdr_KeepsSpace(s, p) ==
  LET name == FieldName(s, p) IN FieldEnd(s, name, Word(s, Skip(s, name), {";", "CR"}))

(* A field. *)
ParseMsgHdr(s, p) ==
  LET name == FieldName(s, p)
      colon == Skip(s, name)
  IN FieldEnd(s, name, Word(s, SkipSpaces(s, colon), {";", "CR"}))

(* All fields are added to p.h. *)
ParseMsgHdrs(s, p) ==
  LET all == Many(s, p, [i \in 1 .. Len(s) |-> ParseMsgHdr(s, [p EXCEPT !.at = i])])
  IN [all.p EXCEPT !.h.msg_hdrs = @ \o all.found]

-----------------------------------------------------------------------------
(* The other lines of a response *)

NotDigits(s) == {s[i] : i \in DOMAIN s} \ Digits

(* HTTP/major.minor: what is not "HTTP/" counts as not enough data. *)
ParseVersion(s, p) ==
  LET slash == IF Going(p) /\ s[p.at] # kHTTPSlash THEN Ended(p, "more") ELSE Skip(s, p)
      major == Word(s, slash, NotDigits(s))
      point == Eat(s, major, ".")
      minor == Word(s, point, NotDigits(s))
      version == major.text \o minor.text
  IN IF version \in Versions THEN [minor EXCEPT !.h.version = version] ELSE Ended(minor, "event")

(* The status line: version, code and phrase.  The code is in p.text. *)
ParseStatusLine(s, p) ==
  LET version == ParseVersion(s, p)
      code == Word(s, Eat(s, version, "SP"), NotDigits(s))
      phrase == Word(s, Eat(s, code, "SP"), {"CR"})
  IN [Eat(s, Eat(s, phrase, "CR"), "LF") EXCEPT !.text = code.text]

\* Mutant: a response, too, needs a token after its header.
ParseResponseEnd_One(s, p) ==
  LET end == Eat(s, Eat(s, p, "CR"), "LF") IN [end EXCEPT !.at = IF Going(end) THEN @ ELSE @ + 1]

(* The end of a response's header; p.at is then the place after it. *)
ParseResponseEnd(s, p) ==
  LET lf == Expect(s, Eat(s, p, "CR"), "LF") IN [lf EXCEPT !.at = @ + 1]

(* All of it. *)
ResponseHdr(s, line) ==
  [ParseResponseEnd(s, ParseMsgHdrs(s, line)) EXCEPT
     !.text = <<>>, !.h.msg_type = "RESPONSE",
     !.h.code = IF line.text = <<>> THEN "0" ELSE line.text[1]]
=============================================================================

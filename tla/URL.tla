--------------------------------- MODULE URL --------------------------------
(* URL: what it prints, and what it makes of a buffer.  Tainted strings are  *)
(* left out.                                                                 *)
EXTENDS TokenScan

CONSTANT URL_PORT_NULL

NullURL ==
  [scheme |-> <<>>, host |-> <<>>, port |-> URL_PORT_NULL, path |-> <<>>, query |-> <<>>, fragment |-> <<>>]

-----------------------------------------------------------------------------
(* Mutators; a query is a sequence of keys with values. *)

(* The pairs in t, as far as they go: the first key without "=" is an event. *)
RECURSIVE Pairs(_)
Pairs(t) ==
  IF t = <<>> THEN [ok |-> TRUE, query |-> <<>>]
  ELSE LET e == Find(t, 1, {"="} \cup Space) IN
    IF e > Len(t) \/ t[e] # "=" THEN [ok |-> FALSE, query |-> <<>>]
    ELSE LET v == Find(t, e + 1, {"&"} \cup Space)
             rest == Pairs(SubSeq(t, IF v <= Len(t) /\ t[v] = "&" THEN v + 1 ELSE v, Len(t)))
         IN [rest EXCEPT !.query =
               <<[key |-> SubSeq(t, 1, e - 1), value |-> SubSeq(t, e + 1, v - 1)]>> \o @]

(* p.h is the URL. *)
SetQuery(p, t) ==
  LET pairs == Pairs(t)
      q == [p EXCEPT !.h.query = @ \o pairs.query]
  IN IF pairs.ok THEN q ELSE Ended(q, "event")

(* A path with a query in it is an event: set_path leaves one character of   *)
(* the query out, and set_query then finds no end of string.                 *)
SetPath(p, t) ==
  LET j == Find(t, 1, {"?", "#"})
      q == [p EXCEPT !.h.path = SubSeq(t, 1, j - 1)]
  IN CASE j > Len(t) -> q
       [] t[j] = "?" -> Ended(q, "event")
       [] OTHER -> [q EXCEPT !.h.fragment = SubSeq(t, j, Len(t))]

(* URL::Init, of the parts a. *)
InitURL(a) ==
  LET p == Parser(1, [NullURL EXCEPT !.scheme = a.scheme, !.host = a.host, !.port = a.port])
      q == IF a.path = <<>> THEN p ELSE SetPath(p, a.path)
      r == IF a.query = <<>> THEN q ELSE SetQuery(q, a.query)
  IN IF a.fragment = <<>> THEN r ELSE [r EXCEPT !.h.fragment = a.fragment]

-----------------------------------------------------------------------------
(* Printing *)

RECURSIVE PrintPairs(_)
PrintPairs(query) ==
  IF query = <<>> THEN <<>>
  ELSE Head(query).key \o <<"=">> \o Head(query).value
       \o (IF Len(query) > 1 THEN <<"&">> ELSE <<>>) \o PrintPairs(Tail(query))

If(cond, s) == IF cond THEN s ELSE <<>>

print_abs_path(u) ==
  If(u.path # <<>>, <<"/">> \o u.path)
  \o If(u.query # <<>>, <<"?">> \o PrintPairs(u.query))
  \o If(u.fragment # <<>>, <<"#">> \o u.fragment)

print_absoluteURI(u) ==
  If(u.scheme # <<>>, u.scheme \o <<":", "/", "/">>)
  \o u.host \o If(u.port # URL_PORT_NULL, <<":", u.port>>) \o print_abs_path(u)

-----------------------------------------------------------------------------
(* URL::InitFromBuf(buf, len, default_port); what it returns is p.at. *)

(* strchr looks for the ":" to the end of the buffer and, as nothing stops it *)
(* there, on to the next NUL; a ":" behind the data is left out.             *)
Scheme(s, p) ==
  LET c == Find(s, p.at, {":"}) IN
  IF ~Going(p) \/ c + 2 > Len(s) \/ s[c + 1] # "/" \/ s[c + 2] # "/" THEN p
  ELSE To(s, [p EXCEPT !.h.scheme = SubSeq(s, p.at, c - 1)], c + 3)

Host(s, p) == LET q == Word(s, p, {":", "/"} \cup Space) IN [q EXCEPT !.h.host = q.text]

(* A port without digits is 0. *)
Port(s, p, digits, default) ==
  IF ~Going(p) \/ s[p.at] # ":" THEN [p EXCEPT !.h.port = default]
  ELSE LET q == Skip(s, p) IN
       IF ~Going(q) THEN q
       ELSE IF s[q.at] \in digits THEN To(s, [q EXCEPT !.h.port = s[q.at]], q.at + 1)
       ELSE [q EXCEPT !.h.port = "0"]

Path(s, p) ==
  IF ~Going(p) \/ s[p.at] # "/" THEN p
  ELSE LET q == Word(s, Skip(s, p), {"?", "#"} \cup Space) IN IF Going(q) THEN SetPath(q, q.text) ELSE q

(* The query is looked at though the data may end in it. *)
Query(s, p) ==
  IF ~Going(p) \/ s[p.at] # "?" THEN p
  ELSE LET q == Skip(s, p)
           j == Find(s, q.at, {"#"} \cup Space)
       IN IF Going(q) THEN To(s, SetQuery(q, SubSeq(s, q.at, j - 1)), j) ELSE q

Fragment(s, p) ==
  IF ~Going(p) \/ s[p.at] # "#" THEN p
  ELSE LET q == Word(s, Skip(s, p), Space) IN [q EXCEPT !.h.fragment = q.text]

URLFromBuf(s, i, digits, default) ==
  LET start == SkipSpaces(s, Parser(i, NullURL))
  IN Fragment(s, Query(s, Path(s, Port(s, Host(s, Scheme(s, start)), digits, default))))
=============================================================================

------------------------------ MODULE TokenScan -----------------------------
(* How the parsers of HTTPFraming and URL go through a buffer.  A buffer is  *)
(* a sequence of tokens: a token is a character that a parser looks for, or  *)
(* a word, a run of characters that none looks for.  A scan that runs out of *)
(* its buffer within a word runs out of it after the word, too, and so a     *)
(* buffer ends between tokens.                                               *)
EXTENDS Integers, Sequences

Space == {"SP", "CR", "LF"}

(* The first place from i on with a token of stops, or past the end of s. *)
Find(s, i, stops) ==
  CHOOSE j \in i .. Len(s) + 1 :
    /\ j > Len(s) \/ s[j] \in stops
    /\ \A k \in i .. j - 1 : s[k] \notin stops

SkipSpace(s, i) ==
  CHOOSE j \in i .. Len(s) + 1 :
    /\ j > Len(s) \/ s[j] \notin Space
    /\ \A k \in i .. j - 1 : s[k] \in Space

(* A parser: where buf_ptr is, "go" or how it ended ("more" for not enough   *)
(* data yet, "event", or "done"), the word in scratch_buffer, and the object *)
(* it fills in.  One that has ended goes no further.                         *)
Parser(i, h) == [at |-> i, st |-> "go", text |-> <<>>, h |-> h]

Going(p) == p.st = "go"
Ended(p, st) == IF Going(p) THEN [p EXCEPT !.st = st] ELSE p

(* buf_ptr moves on to place j; the data may end there. *)
To(s, p, j) ==
  IF Going(p) THEN IF j > Len(s) THEN Ended(p, "more") ELSE [p EXCEPT !.at = j] ELSE p

Skip(s, p) == To(s, p, p.at + 1)
SkipSpaces(s, p) == IF Going(p) THEN To(s, p, SkipSpace(s, p.at)) ELSE p

(* The next token must be t. *)
Expect(s, p, t) == IF Going(p) /\ s[p.at] # t THEN Ended(p, "event") ELSE p
Eat(s, p, t) == LET q == Expect(s, p, t) IN Skip(s, q)

(* The text up to one of stops. *)
Word(s, p, stops) ==
  IF Going(p) THEN LET j == Find(s, p.at, stops) IN To(s, [p EXCEPT !.text = SubSeq(s, p.at, j - 1)], j)
  ELSE p
=============================================================================

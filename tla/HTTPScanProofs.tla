--------------------------- MODULE HTTPScanProofs ---------------------------
(***************************************************************************)
(* Proofs about HTTPScan: what the parser of a response's header makes of  *)
(* the data that has arrived, unless it is that more is needed, is what it *)
(* makes of the data when more has arrived.                                *)
(***************************************************************************)
EXTENDS HTTPScan, WellFoundedInduction, TLAPS

-----------------------------------------------------------------------------
(* Least elements *)

\* A set of numbers has a least one.
LEMMA Least ==
    ASSUME NEW S, S \subseteq Nat, S # {}
    PROVE  \E x \in S : \A y \in S : x <= y
<1> DEFINE R == {ss \in Nat \X Nat : ss[1] < ss[2]}
<1>1. IsWellFoundedOn(R, Nat)
  BY NatLessThanWellFounded DEF OpToRel
<1>2. PICK x \in S : \A y \in S : <<y, x>> \notin R
  BY <1>1, WFMin
<1>3. \A y \in S : x <= y
  <2>1. TAKE y \in S
  <2>2. <<y, x>> \in Nat \X Nat /\ x \in Nat /\ y \in Nat
    OBVIOUS
  <2>3. ~(y < x)
    BY <1>2, <2>2
  <2>4. QED
    BY <2>2, <2>3
<1>4. QED
  BY <1>3

\* The first place from i to n that is in S, or n + 1.
LEMMA FirstPlace ==
    ASSUME NEW n \in Nat, NEW i \in 1 .. n + 1, NEW S
    PROVE  \E j \in i .. n + 1 : /\ j > n \/ j \in S
                                 /\ \A k \in i .. j - 1 : k \notin S
<1> DEFINE C == {j \in i .. n + 1 : j > n \/ j \in S}
<1>1. n + 1 \in C /\ C \subseteq Nat
  OBVIOUS
<1>2. PICK j \in C : \A k \in C : j <= k
  BY <1>1, Least
<1>3. \A k \in i .. j - 1 : k \notin S
  <2>1. TAKE k \in i .. j - 1
  <2>2. k \in i .. n + 1 /\ ~(j <= k)
    OBVIOUS
  <2>3. k \notin C
    BY <1>2, <2>2
  <2>4. QED
    BY <2>2, <2>3
<1>4. QED
  BY <1>3

\* A set with the places from n down, one by one, has all of 1 .. n.
LEMMA Downwards ==
    ASSUME NEW n \in Nat, NEW S,
           \A i \in 1 .. n : (\A j \in i + 1 .. n : j \in S) => i \in S
    PROVE  1 .. n \subseteq S
<1> SUFFICES ASSUME ~(1 .. n \subseteq S)
             PROVE  FALSE
  OBVIOUS
<1> DEFINE C == {m \in Nat : \E i \in 1 .. n : i \notin S /\ m = n - i}
<1>1. C \subseteq Nat /\ C # {}
  <2>1. PICK i \in 1 .. n : i \notin S
    OBVIOUS
  <2>2. n - i \in C
    BY <2>1
  <2>3. QED
    BY <2>2
<1>2. PICK m \in C : \A k \in C : m <= k
  BY <1>1, Least
<1>3. PICK i \in 1 .. n : i \notin S /\ m = n - i
  OBVIOUS
<1>4. \A j \in i + 1 .. n : j \in S
  <2>1. SUFFICES ASSUME NEW j \in i + 1 .. n, j \notin S
                 PROVE  FALSE
    OBVIOUS
  <2>2. n - j \in C /\ ~(m <= n - j)
    BY <1>3, <2>1
  <2>3. QED
    BY <1>2, <2>2
<1>5. QED
  BY <1>3, <1>4

-----------------------------------------------------------------------------
(* TokenScan's operators *)

\* What Find and SkipSpace find.
LEMMA FindIs ==
    ASSUME NEW Token, NEW s \in Seq(Token), NEW i \in 1 .. Len(s) + 1, NEW stops
    PROVE  /\ Find(s, i, stops) \in i .. Len(s) + 1
           /\ Find(s, i, stops) > Len(s) \/ s[Find(s, i, stops)] \in stops
           /\ \A k \in i .. Find(s, i, stops) - 1 : s[k] \notin stops
<1> DEFINE S == {k \in 1 .. Len(s) : s[k] \in stops}
<1>1. PICK j \in i .. Len(s) + 1 : /\ j > Len(s) \/ j \in S
                                   /\ \A k \in i .. j - 1 : k \notin S
  <2>1. Len(s) \in Nat
    OBVIOUS
  <2> HIDE DEF S
  <2>2. QED
    BY <2>1, FirstPlace
<1>2. \A k \in i .. j - 1 : s[k] \notin stops
  BY <1>1
<1>3. \E x \in i .. Len(s) + 1 : /\ x > Len(s) \/ s[x] \in stops
                                 /\ \A k \in i .. x - 1 : s[k] \notin stops
  BY <1>1, <1>2
<1>4. QED
  BY <1>3 DEF Find

LEMMA SkipSpaceIs ==
    ASSUME NEW Token, NEW s \in Seq(Token), NEW i \in 1 .. Len(s) + 1
    PROVE  /\ SkipSpace(s, i) \in i .. Len(s) + 1
           /\ SkipSpace(s, i) > Len(s) \/ s[SkipSpace(s, i)] \notin Space
           /\ \A k \in i .. SkipSpace(s, i) - 1 : s[k] \in Space
<1> DEFINE S == {k \in 1 .. Len(s) : s[k] \notin Space}
<1>1. PICK j \in i .. Len(s) + 1 : /\ j > Len(s) \/ j \in S
                                   /\ \A k \in i .. j - 1 : k \notin S
  <2>1. Len(s) \in Nat
    OBVIOUS
  <2> HIDE DEF S
  <2>2. QED
    BY <2>1, FirstPlace
<1>2. \A k \in i .. j - 1 : s[k] \in Space
  BY <1>1
<1>3. \E x \in i .. Len(s) + 1 : /\ x > Len(s) \/ s[x] \notin Space
                                 /\ \A k \in i .. x - 1 : s[k] \in Space
  BY <1>1, <1>2
<1>4. QED
  BY <1>3 DEF SkipSpace

\* u is s with more data, maybe, after it.
Extends(u, s) == Len(s) <= Len(u) /\ \A k \in 1 .. Len(s) : u[k] = s[k]

\* A place that they find is the same with more data.
LEMMA FindStands ==
    ASSUME NEW Token, NEW s \in Seq(Token), NEW u \in Seq(Token), Extends(u, s),
           NEW i \in 1 .. Len(s), NEW a, NEW b,
           \A k \in 1 .. Len(s) : s[k] \in a <=> s[k] \in b,
           Find(s, i, a) <= Len(s)
    PROVE  Find(u, i, b) = Find(s, i, a)
<1> DEFINE x == Find(s, i, a)
           y == Find(u, i, b)
<1>1. /\ x \in i .. Len(s) /\ s[x] \in a
      /\ \A k \in i .. x - 1 : s[k] \notin a
  BY FindIs
<1>2. /\ y \in i .. Len(u) + 1 /\ (y > Len(u) \/ u[y] \in b)
      /\ \A k \in i .. y - 1 : u[k] \notin b
  BY FindIs DEF Extends
<1>3. \A k \in 1 .. Len(s) : u[k] \in b <=> s[k] \in a
  BY DEF Extends
<1>4. ~(x < y)
  BY <1>1, <1>2, <1>3
<1>5. ~(y < x)
  <2>1. SUFFICES ASSUME y < x
                 PROVE  FALSE
    OBVIOUS
  <2>2. y \in i .. x - 1 /\ y \in 1 .. Len(s) /\ y <= Len(u)
    BY <1>1, <1>2, <2>1 DEF Extends
  <2>3. QED
    BY <1>1, <1>2, <1>3, <2>2
<1>6. QED
  BY <1>1, <1>2, <1>4, <1>5

LEMMA SkipSpaceStands ==
    ASSUME NEW Token, NEW s \in Seq(Token), NEW u \in Seq(Token), Extends(u, s),
           NEW i \in 1 .. Len(s), SkipSpace(s, i) <= Len(s)
    PROVE  SkipSpace(u, i) = SkipSpace(s, i)
<1> DEFINE x == SkipSpace(s, i)
           y == SkipSpace(u, i)
<1>1. /\ x \in i .. Len(s) /\ s[x] \notin Space
      /\ \A k \in i .. x - 1 : s[k] \in Space
  BY SkipSpaceIs
<1>2. /\ y \in i .. Len(u) + 1 /\ (y > Len(u) \/ u[y] \notin Space)
      /\ \A k \in i .. y - 1 : u[k] \in Space
  BY SkipSpaceIs DEF Extends
<1>3. \A k \in 1 .. Len(s) : u[k] \in Space <=> s[k] \in Space
  BY DEF Extends
<1>4. ~(x < y)
  BY <1>1, <1>2, <1>3
<1>5. ~(y < x)
  <2>1. SUFFICES ASSUME y < x
                 PROVE  FALSE
    OBVIOUS
  <2>2. y \in i .. x - 1 /\ y \in 1 .. Len(s) /\ y <= Len(u)
    BY <1>1, <1>2, <2>1 DEF Extends
  <2>3. QED
    BY <1>1, <1>2, <1>3, <2>2
<1>6. QED
  BY <1>1, <1>2, <1>4, <1>5

\* A parser; if it goes on it is at a place of s, not before i.
IsParser(p) == p = [at |-> p.at, st |-> p.st, text |-> p.text, h |-> p.h]

Within(s, p, i) == IsParser(p) /\ p.at \in Nat /\ (Going(p) => p.at \in i .. Len(s))

\* p is what the data so far gives, q what is given with more.
Stands(p, q) == p.st = "more" \/ q = p

\* To: it stays within s, and what it comes to stands.
LEMMA ToWithin ==
    ASSUME NEW Token, NEW s \in Seq(Token), NEW p, NEW i \in Nat, Within(s, p, i),
           NEW k \in Nat, NEW j, Going(p) => j \in Nat /\ k <= j
    PROVE  Within(s, To(s, p, j), k)
<1>1. IsParser(p) /\ p.at \in Nat
  BY DEF Within
<1>2. CASE ~Going(p)
  BY <1>1, <1>2 DEF To, Within
<1>3. CASE Going(p) /\ j > Len(s)
  <2>1. To(s, p, j) = [p EXCEPT !.st = "more"]
    BY <1>3 DEF To, Ended
  <2>2. /\ To(s, p, j).st = "more" /\ To(s, p, j).at = p.at
        /\ IsParser(To(s, p, j))
    BY <1>1, <2>1 DEF IsParser
  <2>3. QED
    BY <1>1, <2>2 DEF Within, Going
<1>4. CASE Going(p) /\ ~(j > Len(s))
  <2>1. To(s, p, j) = [p EXCEPT !.at = j]
    BY <1>4 DEF To
  <2>2. To(s, p, j).at = j /\ IsParser(To(s, p, j))
    BY <1>1, <2>1 DEF IsParser
  <2>3. j \in k .. Len(s)
    BY <1>4
  <2>4. QED
    BY <2>2, <2>3 DEF Within
<1>5. QED
  BY <1>2, <1>3, <1>4

LEMMA ToStands ==
    ASSUME NEW Token, NEW s \in Seq(Token), NEW u \in Seq(Token), Extends(u, s),
           NEW p, NEW q, NEW i \in Nat, Within(s, p, i), Stands(p, q),
           NEW j, NEW k, Going(p) => j \in Nat /\ (j <= Len(s) => k = j)
    PROVE  Stands(To(s, p, j), To(u, q, k))
<1>1. CASE p.st = "more"
  BY <1>1 DEF Stands, To, Going
<1>2. CASE p.st # "more" /\ ~Going(p)
  BY <1>2 DEF Stands, To
<1>3. CASE Going(p) /\ j > Len(s)
  BY <1>3 DEF Stands, To, Ended, Within, IsParser
<1>4. CASE Going(p) /\ p.st # "more" /\ ~(j > Len(s))
  <2>1. q = p /\ k = j /\ ~(k > Len(u))
    BY <1>4 DEF Stands, Extends
  <2>2. QED
    BY <1>4, <2>1 DEF Stands, To
<1>5. QED
  BY <1>1, <1>2, <1>3, <1>4 DEF Going

\* Skip goes on by a token at least.
LEMMA SkipWithin ==
    ASSUME NEW Token, NEW s \in Seq(Token), NEW p, NEW i \in Nat, Within(s, p, i)
    PROVE  Within(s, Skip(s, p), i + 1)
<1>1. Going(p) => p.at + 1 \in Nat /\ i + 1 <= p.at + 1
  BY DEF Within
<1>2. QED
  BY <1>1, ToWithin DEF Skip

LEMMA SkipStands ==
    ASSUME NEW Token, NEW s \in Seq(Token), NEW u \in Seq(Token), Extends(u, s),
           NEW p, NEW q, NEW i \in Nat, Within(s, p, i), Stands(p, q)
    PROVE  Stands(Skip(s, p), Skip(u, q))
<1>1. CASE p.st = "more"
  BY <1>1 DEF Stands, Skip, To, Going
<1>2. CASE p.st # "more"
  <2>1. q = p
    BY <1>2 DEF Stands
  <2>2. Going(p) => p.at + 1 \in Nat
    BY DEF Within
  <2>3. Stands(To(s, p, p.at + 1), To(u, q, p.at + 1))
    BY <2>2, ToStands
  <2>4. QED
    BY <2>1, <2>3 DEF Skip
<1>3. QED
  BY <1>1, <1>2

LEMMA SkipSpacesWithin ==
    ASSUME NEW Token, NEW s \in Seq(Token), NEW p, NEW i \in Nat \ {0}, Within(s, p, i)
    PROVE  Within(s, SkipSpaces(s, p), i)
<1>1. CASE ~Going(p)
  BY <1>1 DEF SkipSpaces
<1>2. CASE Going(p)
  <2>1. p.at \in i .. Len(s) /\ p.at \in 1 .. Len(s) + 1
    BY <1>2 DEF Within
  <2>2. SkipSpace(s, p.at) \in p.at .. Len(s) + 1
    BY <2>1, SkipSpaceIs
  <2>3. QED
    BY <1>2, <2>1, <2>2, ToWithin DEF SkipSpaces
<1>3. QED
  BY <1>1, <1>2

LEMMA SkipSpacesStands ==
    ASSUME NEW Token, NEW s \in Seq(Token), NEW u \in Seq(Token), Extends(u, s),
           NEW p, NEW q, NEW i \in Nat \ {0}, Within(s, p, i), Stands(p, q)
    PROVE  Stands(SkipSpaces(s, p), SkipSpaces(u, q))
<1>1. CASE p.st = "more"
  BY <1>1 DEF Stands, SkipSpaces, Going
<1>2. CASE p.st # "more" /\ ~Going(p)
  BY <1>2 DEF Stands, SkipSpaces
<1>3. CASE p.st # "more" /\ Going(p)
  <2>1. q = p
    BY <1>3 DEF Stands
  <2>2. p.at \in 1 .. Len(s)
    BY <1>3 DEF Within
  <2>3. SkipSpace(s, p.at) \in p.at .. Len(s) + 1
    BY <2>2, SkipSpaceIs
  <2>4. SkipSpace(s, p.at) <= Len(s) => SkipSpace(u, p.at) = SkipSpace(s, p.at)
    BY <2>2, SkipSpaceStands
  <2>5. Stands(To(s, p, SkipSpace(s, p.at)), To(u, q, SkipSpace(u, p.at)))
    BY <2>2, <2>3, <2>4, ToStands
  <2>6. QED
    BY <1>3, <2>1, <2>5 DEF SkipSpaces
<1>4. QED
  BY <1>1, <1>2, <1>3

LEMMA EndedWithin ==
    ASSUME NEW s, NEW p, NEW i, Within(s, p, i), NEW st, st # "go"
    PROVE  Within(s, Ended(p, st), i)
BY DEF Within, IsParser, Ended, Going

LEMMA ExpectWithin ==
    ASSUME NEW s, NEW p, NEW i, Within(s, p, i), NEW x
    PROVE  Within(s, Expect(s, p, x), i)
BY EndedWithin DEF Expect

LEMMA ExpectStands ==
    ASSUME NEW s, NEW u, Extends(u, s), NEW p, NEW q, NEW i \in Nat \ {0},
           Len(s) \in Nat, Within(s, p, i), Stands(p, q), NEW x
    PROVE  Stands(Expect(s, p, x), Expect(u, q, x))
<1>1. CASE p.st = "more"
  BY <1>1 DEF Stands, Expect, Going
<1>2. CASE p.st # "more" /\ ~Going(p)
  BY <1>2 DEF Stands, Expect
<1>3. CASE p.st # "more" /\ Going(p)
  <2>1. q = p /\ p.at \in 1 .. Len(s)
    BY <1>3 DEF Stands, Within
  <2>2. u[p.at] = s[p.at]
    BY <2>1 DEF Extends
  <2>3. QED
    BY <2>1, <2>2 DEF Stands, Expect
<1>4. QED
  BY <1>1, <1>2, <1>3

LEMMA EatWithin ==
    ASSUME NEW Token, NEW s \in Seq(Token), NEW p, NEW i \in Nat, Within(s, p, i), NEW x
    PROVE  Within(s, Eat(s, p, x), i)
<1>1. Within(s, Expect(s, p, x), i)
  BY ExpectWithin
<1>2. Within(s, Skip(s, Expect(s, p, x)), i + 1)
  BY <1>1, SkipWithin
<1>3. QED
  BY <1>2 DEF Eat, Within

LEMMA EatStands ==
    ASSUME NEW Token, NEW s \in Seq(Token), NEW u \in Seq(Token), Extends(u, s),
           NEW p, NEW q, NEW i \in Nat \ {0}, Within(s, p, i), Stands(p, q), NEW x
    PROVE  Stands(Eat(s, p, x), Eat(u, q, x))
<1>1. Within(s, Expect(s, p, x), i)
  BY ExpectWithin
<1>2. Stands(Expect(s, p, x), Expect(u, q, x))
  BY ExpectStands
<1>3. QED
  BY <1>1, <1>2, SkipStands DEF Eat

\* The text says nothing of where a parser is.
LEMMA TextSet ==
    ASSUME NEW s, NEW p, NEW i, Within(s, p, i), NEW text
    PROVE  /\ Within(s, [p EXCEPT !.text = text], i)
           /\ [p EXCEPT !.text = text].st = p.st
BY DEF Within, IsParser, Going

LEMMA WordWithin ==
    ASSUME NEW Token, NEW s \in Seq(Token), NEW p, NEW i \in Nat \ {0},
           Within(s, p, i), NEW stops
    PROVE  Within(s, Word(s, p, stops), i)
<1>1. CASE ~Going(p)
  BY <1>1 DEF Word
<1>2. CASE Going(p)
  <2> DEFINE j == Find(s, p.at, stops)
             r == [p EXCEPT !.text = SubSeq(s, p.at, j - 1)]
  <2>1. p.at \in i .. Len(s) /\ p.at \in 1 .. Len(s) + 1
    BY <1>2 DEF Within
  <2>2. j \in p.at .. Len(s) + 1
    BY <2>1, FindIs
  <2>3. Within(s, r, i)
    BY TextSet
  <2>4. Within(s, To(s, r, j), i)
    <3>1. j \in Nat /\ i <= j
      BY <2>1, <2>2
    <3> HIDE DEF j, r
    <3>2. QED
      BY <2>3, <3>1, ToWithin
  <2>5. QED
    BY <1>2, <2>4 DEF Word
<1>3. QED
  BY <1>1, <1>2

\* The same text, as long as its end is there.
LEMMA TextStands ==
    ASSUME NEW Token, NEW s \in Seq(Token), NEW u \in Seq(Token), Extends(u, s),
           NEW i \in 1 .. Len(s), NEW j \in i .. Len(s)
    PROVE  SubSeq(u, i, j - 1) = SubSeq(s, i, j - 1)
<1>1. \A k \in i .. j - 1 : u[k] = s[k]
  BY DEF Extends
<1>2. Len(u) \in Nat /\ Len(s) \in Nat /\ Len(s) <= Len(u)
  BY DEF Extends
<1>3. SubSeq(u, i, j - 1) = [k \in 1 .. j - i |-> u[i + k - 1]]
  BY <1>2
<1>4. SubSeq(s, i, j - 1) = [k \in 1 .. j - i |-> s[i + k - 1]]
  BY <1>2
<1>5. \A k \in 1 .. j - i : u[i + k - 1] = s[i + k - 1]
  BY <1>1
<1>6. QED
  BY <1>3, <1>4, <1>5

LEMMA WordStands ==
    ASSUME NEW Token, NEW s \in Seq(Token), NEW u \in Seq(Token), Extends(u, s),
           NEW p, NEW q, NEW i \in Nat \ {0}, Within(s, p, i), Stands(p, q),
           NEW a, NEW b, \A k \in 1 .. Len(s) : s[k] \in a <=> s[k] \in b
    PROVE  Stands(Word(s, p, a), Word(u, q, b))
<1>1. CASE p.st = "more"
  BY <1>1 DEF Stands, Word, Going
<1>2. CASE p.st # "more" /\ ~Going(p)
  BY <1>2 DEF Stands, Word
<1>3. CASE p.st # "more" /\ Going(p)
  <2> DEFINE j == Find(s, p.at, a)
             k == Find(u, p.at, b)
             r == [p EXCEPT !.text = SubSeq(s, p.at, j - 1)]
             t == [p EXCEPT !.text = SubSeq(u, p.at, k - 1)]
  <2>1. q = p /\ p.at \in i .. Len(s) /\ p.at \in 1 .. Len(s)
    BY <1>3 DEF Stands, Within
  <2>2. j \in p.at .. Len(s) + 1
    BY <2>1, FindIs
  <2>3. Within(s, r, i) /\ r.st = p.st
    BY TextSet
  <2>4. CASE j <= Len(s)
    <3>1. k = j
      BY <2>1, <2>4, FindStands
    <3>2. SubSeq(u, p.at, j - 1) = SubSeq(s, p.at, j - 1)
      <4>1. j \in p.at .. Len(s)
        BY <2>1, <2>2, <2>4
      <4> HIDE DEF j
      <4>2. QED
        BY <2>1, <4>1, TextStands
    <3>3. r = t
      BY <3>1, <3>2
    <3>4. Stands(To(s, r, j), To(u, t, k))
      <4>1. j \in Nat
        BY <2>1, <2>2
      <4>2. Stands(r, t)
        BY <3>3 DEF Stands
      <4> HIDE DEF j, k, r, t
      <4>3. QED
        BY <2>3, <3>1, <4>1, <4>2, ToStands
    <3>5. QED
      BY <1>3, <2>1, <3>4 DEF Word
  <2>5. CASE ~(j <= Len(s))
    <3>1. j > Len(s)
      BY <2>1, <2>2, <2>5
    <3>2. To(s, r, j).st = "more"
      <4>1. Going(r)
        BY <1>3, <2>3 DEF Going
      <4> HIDE DEF j, r
      <4>2. QED
        BY <2>3, <3>1, <4>1 DEF To, Ended, Within, IsParser
    <3>3. Word(s, p, a) = To(s, r, j)
      BY <1>3 DEF Word
    <3>4. QED
      BY <3>2, <3>3 DEF Stands
  <2>6. QED
    BY <2>4, <2>5
<1>4. QED
  BY <1>1, <1>2, <1>3

-----------------------------------------------------------------------------
(* Many *)

\* One turn at place i, if from says what those after it find.
Turn(s, p, one, from, i) ==
    IF s[i] = "CR" THEN [p |-> [p EXCEPT !.at = i], found |-> <<>>]
    ELSE IF ~Going(one[i].p) THEN [p |-> one[i].p, found |-> <<one[i].found>>]
    ELSE [from[one[i].p.at] EXCEPT !.found = <<one[i].found>> \o @]

Turns(s, p, one, from) == from = [i \in 1 .. Len(s) |-> Turn(s, p, one, from, i)]

\* Each turn goes on by a token at least.
GoesOn(s, one) ==
    \A i \in 1 .. Len(s) : s[i] # "CR" => Within(s, one[i].p, i + 1)

\* A turn looks at later ones only.
LEMMA TurnSame ==
    ASSUME NEW Token, NEW s \in Seq(Token), NEW p, NEW one, GoesOn(s, one),
           NEW i \in 1 .. Len(s), NEW f, NEW g,
           \A k \in i + 1 .. Len(s) : f[k] = g[k]
    PROVE  Turn(s, p, one, f, i) = Turn(s, p, one, g, i)
<1>1. s[i] # "CR" /\ Going(one[i].p) => f[one[i].p.at] = g[one[i].p.at]
  BY DEF GoesOn, Within
<1>2. QED
  BY <1>1 DEF Turn

\* The function that Many is defined by exists.
LEMMA TurnsExist ==
    ASSUME NEW Token, NEW s \in Seq(Token), NEW p, NEW one, GoesOn(s, one)
    PROVE  \E f : Turns(s, p, one, f)
<1> DEFINE n == Len(s)
           From(f, i) == f = [k \in i .. n |-> Turn(s, p, one, f, k)]
           S == {i \in 1 .. n : \E f : From(f, i)}
<1>1. n \in Nat
  OBVIOUS
<1>2. \A i \in 1 .. n : (\A j \in i + 1 .. n : j \in S) => i \in S
  <2>1. SUFFICES ASSUME NEW i \in 1 .. n, \A j \in i + 1 .. n : j \in S
                 PROVE  \E f : From(f, i)
    OBVIOUS
  <2>2. \E f : From(f, i + 1)
    <3>1. CASE i < n
      <4>1. i + 1 \in S
        BY <1>1, <2>1, <3>1
      <4>2. QED
        BY <4>1
    <3>2. CASE i = n
      <4>1. i + 1 .. n = {}
        BY <1>1, <3>2
      <4>2. From([k \in i + 1 .. n |-> 0], i + 1)
        BY <4>1
      <4>3. QED
        BY <4>2
    <3>3. QED
      BY <1>1, <3>1, <3>2
  <2>3. PICK f : From(f, i + 1)
    BY <2>2
  <2> DEFINE g == [k \in i .. n |-> IF k = i THEN Turn(s, p, one, f, i) ELSE f[k]]
  <2>4. \A k \in i + 1 .. n : g[k] = f[k]
    BY <1>1
  <2>5. \A k \in i .. n : g[k] = Turn(s, p, one, g, k)
    <3>1. TAKE k \in i .. n
    <3>2. \A x \in k + 1 .. n : f[x] = g[x]
      BY <1>1, <2>4
    <3>3. Turn(s, p, one, f, k) = Turn(s, p, one, g, k)
      <4>1. k \in 1 .. Len(s)
        BY <1>1
      <4> HIDE DEF g
      <4>2. QED
        BY <3>2, <4>1, TurnSame
    <3>4. CASE k = i
      BY <3>3, <3>4
    <3>5. CASE k # i
      <4>1. k \in i + 1 .. n
        BY <1>1, <3>5
      <4>2. f[k] = Turn(s, p, one, f, k)
        BY <2>3, <4>1
      <4>3. QED
        BY <2>4, <3>3, <4>1, <4>2
    <3>6. QED
      BY <3>4, <3>5
  <2>6. g = [k \in i .. n |-> Turn(s, p, one, g, k)]
    BY <2>5
  <2>7. QED
    BY <2>6
<1>3. 1 .. n \subseteq S
  <2> HIDE DEF S, n
  <2>1. QED
    BY <1>1, <1>2, Downwards
<1>4. CASE n = 0
  <2>1. 1 .. n = {}
    BY <1>4
  <2>2. Turns(s, p, one, [k \in 1 .. n |-> 0])
    BY <2>1 DEF Turns
  <2>3. QED
    BY <2>2
<1>5. CASE n # 0
  <2>1. 1 \in S
    BY <1>1, <1>3, <1>5
  <2>2. QED
    BY <2>1 DEF Turns
<1>6. QED
  BY <1>4, <1>5

\* What Many is.
LEMMA ManyIs ==
    ASSUME NEW Token, NEW s \in Seq(Token), NEW p, NEW one, GoesOn(s, one)
    PROVE  \E f : /\ Turns(s, p, one, f)
                  /\ Many(s, p, one) = IF Going(p) THEN f[p.at]
                                       ELSE [p |-> p, found |-> <<>>]
<1> DEFINE f == CHOOSE g : Turns(s, p, one, g)
<1>1. Turns(s, p, one, f)
  BY TurnsExist
<1>2. Many(s, p, one) = IF Going(p) THEN f[p.at] ELSE [p |-> p, found |-> <<>>]
  BY DEF Many, Turns, Turn
<1>3. QED
  BY <1>1, <1>2

\* What a turn gives is within s, and the turns end before a CR.
LEMMA TurnsWithin ==
    ASSUME NEW Token, NEW s \in Seq(Token), NEW p, NEW i0 \in Nat,
           Within(s, p, i0), Going(p),
           NEW one, GoesOn(s, one), NEW f, Turns(s, p, one, f)
    PROVE  \A i \in 1 .. Len(s) : /\ Within(s, f[i].p, i)
                                  /\ f[i] = [p |-> f[i].p, found |-> f[i].found]
<1> DEFINE n == Len(s)
           Ok(i) == /\ Within(s, f[i].p, i)
                    /\ f[i] = [p |-> f[i].p, found |-> f[i].found]
           S == {i \in 1 .. n : Ok(i)}
<1>1. n \in Nat
  OBVIOUS
<1>2. \A i \in 1 .. n : (\A j \in i + 1 .. n : j \in S) => i \in S
  <2>1. SUFFICES ASSUME NEW i \in 1 .. n, \A j \in i + 1 .. n : j \in S
                 PROVE  Ok(i)
    OBVIOUS
  <2>2. f[i] = Turn(s, p, one, f, i)
    BY DEF Turns
  <2>3. CASE s[i] = "CR"
    <3>1. f[i] = [p |-> [p EXCEPT !.at = i], found |-> <<>>]
      BY <2>2, <2>3 DEF Turn
    <3>2. Within(s, [p EXCEPT !.at = i], i)
      BY <1>1 DEF Within, IsParser, Going
    <3>3. QED
      BY <3>1, <3>2
  <2>4. CASE s[i] # "CR" /\ ~Going(one[i].p)
    <3>1. f[i] = [p |-> one[i].p, found |-> <<one[i].found>>]
      BY <2>2, <2>4 DEF Turn
    <3>2. Within(s, one[i].p, i)
      BY <2>4 DEF GoesOn, Within
    <3>3. QED
      BY <3>1, <3>2
  <2>5. CASE s[i] # "CR" /\ Going(one[i].p)
    <3> DEFINE k == one[i].p.at
    <3>1. k \in i + 1 .. n
      BY <2>5 DEF GoesOn, Within
    <3>2. Ok(k)
      BY <2>1, <3>1
    <3>3. f[i] = [f[k] EXCEPT !.found = <<one[i].found>> \o @]
      BY <2>2, <2>5 DEF Turn
    <3>4. /\ f[i].p = f[k].p
          /\ f[i] = [p |-> f[i].p, found |-> f[i].found]
      BY <3>2, <3>3
    <3>5. Within(s, f[k].p, i)
      BY <1>1, <3>1, <3>2 DEF Within
    <3>6. QED
      BY <3>4, <3>5
  <2>6. QED
    BY <2>3, <2>4, <2>5
<1>3. 1 .. n \subseteq S
  <2> HIDE DEF S, n
  <2>1. QED
    BY <1>1, <1>2, Downwards
<1>4. QED
  BY <1>3

LEMMA ManyWithin ==
    ASSUME NEW Token, NEW s \in Seq(Token), NEW p, NEW i \in Nat \ {0},
           Within(s, p, i), NEW one, GoesOn(s, one)
    PROVE  Within(s, Many(s, p, one).p, i)
<1>1. PICK f : /\ Turns(s, p, one, f)
               /\ Many(s, p, one) = IF Going(p) THEN f[p.at]
                                    ELSE [p |-> p, found |-> <<>>]
  BY ManyIs
<1>2. CASE ~Going(p)
  BY <1>1, <1>2
<1>3. CASE Going(p)
  <2>1. p.at \in i .. Len(s) /\ p.at \in 1 .. Len(s)
    BY <1>3 DEF Within
  <2>2. Within(s, f[p.at].p, p.at)
    BY <1>1, <1>3, <2>1, TurnsWithin
  <2>3. QED
    BY <1>1, <1>3, <2>1, <2>2 DEF Within
<1>4. QED
  BY <1>2, <1>3

\* r is what a parser found in the data so far, t with more.
Found(r, t) == r.p.st = "more" \/ t = r

\* What the turns find stands, if what each of them finds does.
LEMMA TurnsStand ==
    ASSUME NEW Token, NEW s \in Seq(Token), NEW u \in Seq(Token), Extends(u, s),
           NEW p, NEW i0 \in Nat, Within(s, p, i0), Going(p),
           NEW one, GoesOn(s, one), NEW f, Turns(s, p, one, f),
           NEW two, NEW g, Turns(u, p, two, g),
           \A i \in 1 .. Len(s) : s[i] # "CR" => Found(one[i], two[i])
    PROVE  \A i \in 1 .. Len(s) : Found(f[i], g[i])
<1> DEFINE n == Len(s)
           S == {i \in 1 .. n : Found(f[i], g[i])}
<1>1. n \in Nat
  OBVIOUS
<1>2. \A i \in 1 .. n : (\A j \in i + 1 .. n : j \in S) => i \in S
  <2>1. SUFFICES ASSUME NEW i \in 1 .. n, \A j \in i + 1 .. n : j \in S
                 PROVE  Found(f[i], g[i])
    OBVIOUS
  <2>2. /\ f[i] = Turn(s, p, one, f, i)
        /\ g[i] = Turn(u, p, two, g, i)
        /\ u[i] = s[i]
    <3>1. i \in 1 .. Len(u)
      BY <1>1 DEF Extends
    <3>2. QED
      BY <3>1 DEF Turns, Extends
  <2>3. CASE s[i] = "CR"
    BY <2>2, <2>3 DEF Turn, Found
  <2>4. CASE s[i] # "CR" /\ ~Going(one[i].p)
    <3>1. f[i] = [p |-> one[i].p, found |-> <<one[i].found>>]
      BY <2>2, <2>4 DEF Turn
    <3>2. CASE one[i].p.st = "more"
      BY <3>1, <3>2 DEF Found
    <3>3. CASE two[i] = one[i]
      BY <2>2, <2>4, <3>1, <3>3 DEF Turn, Found
    <3>4. QED
      BY <2>4, <3>2, <3>3 DEF Found
  <2>5. CASE s[i] # "CR" /\ Going(one[i].p)
    <3> DEFINE k == one[i].p.at
    <3>1. k \in i + 1 .. n /\ k \in 1 .. n
      BY <1>1, <2>5 DEF GoesOn, Within
    <3>2. two[i] = one[i]
      BY <2>5 DEF Found, Going
    <3>3. /\ f[i] = [f[k] EXCEPT !.found = <<one[i].found>> \o @]
          /\ g[i] = [g[k] EXCEPT !.found = <<one[i].found>> \o @]
      BY <2>2, <2>5, <3>2 DEF Turn
    <3>4. CASE f[k].p.st = "more"
      <4>1. f[k] = [p |-> f[k].p, found |-> f[k].found]
        BY <3>1, TurnsWithin
      <4>2. f[i].p = f[k].p
        BY <3>3, <4>1
      <4>3. QED
        BY <3>4, <4>2 DEF Found
    <3>5. CASE g[k] = f[k]
      BY <3>3, <3>5 DEF Found
    <3>6. QED
      BY <2>1, <3>1, <3>4, <3>5 DEF Found
  <2>6. QED
    BY <2>3, <2>4, <2>5
<1>3. 1 .. n \subseteq S
  <2> HIDE DEF S, n
  <2>1. QED
    BY <1>1, <1>2, Downwards
<1>4. QED
  BY <1>3

LEMMA ManyStands ==
    ASSUME NEW Token, NEW s \in Seq(Token), NEW u \in Seq(Token), Extends(u, s),
           NEW p, NEW i0 \in Nat \ {0}, Within(s, p, i0),
           NEW one, GoesOn(s, one), NEW two, GoesOn(u, two),
           \A i \in 1 .. Len(s) : s[i] # "CR" => Found(one[i], two[i])
    PROVE  Found(Many(s, p, one), Many(u, p, two))
<1>1. PICK f : /\ Turns(s, p, one, f)
               /\ Many(s, p, one) = IF Going(p) THEN f[p.at]
                                    ELSE [p |-> p, found |-> <<>>]
  BY ManyIs
<1>2. PICK g : /\ Turns(u, p, two, g)
               /\ Many(u, p, two) = IF Going(p) THEN g[p.at]
                                    ELSE [p |-> p, found |-> <<>>]
  BY ManyIs
<1>3. CASE ~Going(p)
  BY <1>1, <1>2, <1>3 DEF Found
<1>4. CASE Going(p)
  <2>1. p.at \in 1 .. Len(s)
    BY <1>4 DEF Within
  <2>2. \A i \in 1 .. Len(s) : Found(f[i], g[i])
    BY <1>1, <1>2, <1>4, TurnsStand
  <2>3. QED
    BY <1>1, <1>2, <1>4, <2>1, <2>2
<1>5. QED
  BY <1>3, <1>4

-----------------------------------------------------------------------------
(* Fields *)

\* A parser that needs more data does nothing more.
LEMMA MoreStays ==
    ASSUME NEW s, NEW p, p.st = "more"
    PROVE  Skip(s, p) = p /\ SkipSpaces(s, p) = p
BY DEF Going, Skip, SkipSpaces, To

LEMMA MoreEats ==
    ASSUME NEW s, NEW p, p.st = "more", NEW x
    PROVE  Ended(p, x) = p /\ Eat(s, p, x) = p /\ Expect(s, p, x) = p
<1>1. Expect(s, p, x) = p /\ Ended(p, x) = p
  BY DEF Going, Expect, Ended
<1>2. QED
  BY <1>1, MoreStays DEF Eat

LEMMA MoreWord ==
    ASSUME NEW s, NEW p, p.st = "more", NEW stops
    PROVE  Word(s, p, stops) = p
BY DEF Going, Word

LEMMA MoreMany ==
    ASSUME NEW s, NEW p, p.st = "more", NEW one
    PROVE  Many(s, p, one) = [p |-> p, found |-> <<>>]
BY DEF Going, Many

\* A parser within s is within any data that extend it.
LEMMA WithinMore ==
    ASSUME NEW s, NEW u, Len(s) \in Nat, Len(u) \in Nat, Extends(u, s),
           NEW p, NEW i \in Nat, Within(s, p, i)
    PROVE  Within(u, p, i)
BY DEF Within, Extends

\* A parser that goes on may be put at any place.
LEMMA PutWithin ==
    ASSUME NEW s, Len(s) \in Nat, NEW p, NEW i \in Nat, Within(s, p, i),
           NEW j \in 1 .. Len(s)
    PROVE  Within(s, [p EXCEPT !.at = j], j)
BY DEF Within, IsParser, Going

LEMMA ParameterWithin ==
    ASSUME NEW Token, NEW s \in Seq(Token), NEW p, NEW i \in Nat \ {0}, Within(s, p, i)
    PROVE  Within(s, ParseParameter(s, p).p, i + 1)
<1> DEFINE skip == Skip(s, p)
           spaces == SkipSpaces(s, skip)
           key == Word(s, spaces, {"="})
           equals == Skip(s, key)
           after == SkipSpaces(s, equals)
           value == Word(s, after, {";", "CR"})
<1>0. i + 1 \in Nat \ {0}
  OBVIOUS
<1>1. Within(s, skip, i + 1)
  BY SkipWithin
<1>2. Within(s, spaces, i + 1)
  BY <1>0, <1>1, SkipSpacesWithin
<1>3. Within(s, key, i + 1)
  BY <1>0, <1>2, WordWithin
<1>4. Within(s, equals, i + 1)
  <2>1. Within(s, equals, i + 1 + 1)
    BY <1>0, <1>3, SkipWithin
  <2>2. QED
    BY <1>0, <2>1 DEF Within
<1>5. Within(s, after, i + 1)
  BY <1>0, <1>4, SkipSpacesWithin
<1>6. Within(s, value, i + 1)
  BY <1>0, <1>5, WordWithin
<1>7. ParseParameter(s, p).p = value
  BY DEF ParseParameter
<1>8. QED
  BY <1>6, <1>7

LEMMA ParameterStands ==
    ASSUME NEW Token, NEW s \in Seq(Token), NEW u \in Seq(Token), Extends(u, s),
           NEW p, NEW i \in Nat \ {0}, Within(s, p, i)
    PROVE  Found(ParseParameter(s, p), ParseParameter(u, p))
<1> DEFINE skip(x) == Skip(x, p)
           spaces(x) == SkipSpaces(x, skip(x))
           key(x) == Word(x, spaces(x), {"="})
           equals(x) == Skip(x, key(x))
           after(x) == SkipSpaces(x, equals(x))
           value(x) == Word(x, after(x), {";", "CR"})
<1>0. i + 1 \in Nat \ {0} /\ i + 2 \in Nat \ {0} /\ i + 2 = i + 1 + 1
  OBVIOUS
<1>1. Within(s, skip(s), i + 1) /\ Stands(skip(s), skip(u))
  BY SkipWithin, SkipStands DEF Stands
<1>2. Within(s, spaces(s), i + 1) /\ Stands(spaces(s), spaces(u))
  BY <1>0, <1>1, SkipSpacesWithin, SkipSpacesStands
<1>3. Within(s, key(s), i + 1) /\ Stands(key(s), key(u))
  BY <1>0, <1>2, WordWithin, WordStands
<1>4. Within(s, equals(s), i + 2) /\ Stands(equals(s), equals(u))
  BY <1>0, <1>3, SkipWithin, SkipStands
<1>5. Within(s, after(s), i + 2) /\ Stands(after(s), after(u))
  BY <1>0, <1>4, SkipSpacesWithin, SkipSpacesStands
<1>6. Stands(value(s), value(u))
  BY <1>0, <1>5, WordStands
<1>7. ASSUME key(s).st = "more"
      PROVE  value(s).st = "more"
  <2>1. equals(s) = key(s)
    BY <1>7, MoreStays
  <2>2. after(s) = equals(s)
    BY <1>7, <2>1, MoreStays
  <2>3. after(s).st = "more"
    BY <1>7, <2>1, <2>2
  <2>4. Word(s, after(s), {";", "CR"}) = after(s)
    <3> HIDE DEF after
    <3>1. QED
      BY <2>3, MoreWord
  <2>5. QED
    BY <2>3, <2>4
<1>8. \A x : ParseParameter(x, p) =
             [p |-> value(x), found |-> [key |-> key(x).text, value |-> value(x).text]]
  BY DEF ParseParameter
<1>9. CASE value(s).st = "more"
  <2> HIDE DEF value, key
  <2>1. ParseParameter(s, p).p = value(s)
    BY <1>8
  <2>2. QED
    BY <1>9, <2>1 DEF Found
<1>10. CASE value(s).st # "more"
  <2>1. value(u) = value(s) /\ key(u) = key(s)
    BY <1>3, <1>6, <1>7, <1>10 DEF Stands
  <2> HIDE DEF value, key
  <2>2. ParseParameter(u, p) = ParseParameter(s, p)
    BY <1>8, <2>1
  <2>3. QED
    BY <2>2 DEF Found
<1>11. QED
  BY <1>9, <1>10

LEMMA ParametersGoOn ==
    ASSUME NEW Token, NEW s \in Seq(Token), NEW p, NEW i \in Nat, Within(s, p, i)
    PROVE  GoesOn(s, [k \in 1 .. Len(s) |-> ParseParameter(s, [p EXCEPT !.at = k])])
<1>1. ASSUME NEW k \in 1 .. Len(s)
      PROVE  Within(s, ParseParameter(s, [p EXCEPT !.at = k]).p, k + 1)
  <2>1. Len(s) \in Nat /\ k \in Nat \ {0}
    OBVIOUS
  <2>2. Within(s, [p EXCEPT !.at = k], k)
    BY <2>1, PutWithin
  <2>3. QED
    BY <2>1, <2>2, ParameterWithin
<1>2. QED
  BY <1>1 DEF GoesOn

LEMMA ParametersStand ==
    ASSUME NEW Token, NEW s \in Seq(Token), NEW u \in Seq(Token), Extends(u, s),
           NEW p, NEW q, NEW i \in Nat \ {0}, Within(s, p, i), Stands(p, q)
    PROVE  Found(ParseParameters(s, p), ParseParameters(u, q))
<1> DEFINE one(x) == [k \in 1 .. Len(x) |-> ParseParameter(x, [p EXCEPT !.at = k])]
<1>1. CASE p.st = "more"
  <2>1. Many(s, p, one(s)) = [p |-> p, found |-> <<>>]
    <3> HIDE DEF one
    <3>1. QED
      BY <1>1, MoreMany
  <2>2. QED
    BY <1>1, <2>1 DEF ParseParameters, Found
<1>2. CASE q = p
  <2>1. Within(u, p, i)
    BY WithinMore
  <2>2. GoesOn(s, one(s)) /\ GoesOn(u, one(u))
    BY <2>1, ParametersGoOn
  <2>3. \A k \in 1 .. Len(s) : Found(one(s)[k], one(u)[k])
    <3>1. TAKE k \in 1 .. Len(s)
    <3>2. Len(s) \in Nat /\ k \in Nat \ {0} /\ k \in 1 .. Len(u)
      BY DEF Extends
    <3>3. Within(s, [p EXCEPT !.at = k], k)
      BY <3>2, PutWithin
    <3>4. Found(ParseParameter(s, [p EXCEPT !.at = k]),
                ParseParameter(u, [p EXCEPT !.at = k]))
      BY <3>2, <3>3, ParameterStands
    <3>5. QED
      BY <3>2, <3>4
  <2> HIDE DEF one
  <2>4. Found(Many(s, p, one(s)), Many(u, p, one(u)))
    BY <2>2, <2>3, ManyStands
  <2>5. QED
    BY <1>2, <2>4 DEF one, ParseParameters
<1>3. QED
  BY <1>1, <1>2 DEF Stands

LEMMA ParametersWithin ==
    ASSUME NEW Token, NEW s \in Seq(Token), NEW p, NEW i \in Nat \ {0}, Within(s, p, i)
    PROVE  Within(s, ParseParameters(s, p).p, i)
<1> DEFINE one == [k \in 1 .. Len(s) |-> ParseParameter(s, [p EXCEPT !.at = k])]
<1>1. GoesOn(s, one)
  BY ParametersGoOn
<1> HIDE DEF one
<1>2. Within(s, Many(s, p, one).p, i)
  BY <1>1, ManyWithin
<1>3. QED
  BY <1>2 DEF one, ParseParameters

\* The end of a field.
LEMMA FieldEndWithin ==
    ASSUME NEW Token, NEW s \in Seq(Token), NEW name, NEW value,
           NEW i \in Nat \ {0}, Within(s, value, i)
    PROVE  Within(s, FieldEnd(s, name, value).p, i)
<1> DEFINE rest == ParseParameters(s, value)
<1>1. Within(s, rest.p, i)
  BY ParametersWithin
<1>2. Within(s, Eat(s, rest.p, "CR"), i)
  BY <1>1, EatWithin
<1>3. Within(s, Eat(s, Eat(s, rest.p, "CR"), "LF"), i)
  BY <1>2, EatWithin
<1>4. QED
  BY <1>3 DEF FieldEnd

LEMMA FieldEndStands ==
    ASSUME NEW Token, NEW s \in Seq(Token), NEW u \in Seq(Token), Extends(u, s),
           NEW name, NEW name2, NEW value, NEW value2,
           NEW i \in Nat \ {0}, Within(s, value, i), Stands(value, value2),
           value.st = "more" \/ name2 = name
    PROVE  Found(FieldEnd(s, name, value), FieldEnd(u, name2, value2))
<1> DEFINE rest == ParseParameters(s, value)
           rest2 == ParseParameters(u, value2)
           end == Eat(s, Eat(s, rest.p, "CR"), "LF")
           end2 == Eat(u, Eat(u, rest2.p, "CR"), "LF")
<1>1. FieldEnd(s, name, value).p = end
  BY DEF FieldEnd
<1>2. ASSUME rest.p.st = "more"
      PROVE  end.st = "more"
  <2>1. Eat(s, rest.p, "CR") = rest.p
    BY <1>2, MoreEats
  <2>2. Eat(s, rest.p, "LF") = rest.p
    BY <1>2, MoreEats
  <2>3. QED
    BY <1>2, <2>1, <2>2
<1>3. ASSUME value.st = "more"
      PROVE  rest.p.st = "more"
  <2>1. \A one : Many(s, value, one).p = value
    BY <1>3, MoreMany
  <2>2. QED
    BY <1>3, <2>1 DEF ParseParameters
<1>4. Found(rest, rest2)
  BY ParametersStand
<1>5. CASE rest.p.st = "more"
  BY <1>1, <1>2, <1>5 DEF Found
<1>6. CASE rest.p.st # "more"
  <2>1. name2 = name /\ rest2 = rest
    BY <1>3, <1>4, <1>6 DEF Found
  <2>2. Within(s, rest.p, i)
    BY ParametersWithin
  <2>3. /\ Within(s, Eat(s, rest.p, "CR"), i)
        /\ Stands(Eat(s, rest.p, "CR"), Eat(u, rest.p, "CR"))
    BY <2>2, EatWithin, EatStands DEF Stands
  <2>4. Stands(end, end2)
    <3>1. Stands(Eat(s, Eat(s, rest.p, "CR"), "LF"), Eat(u, Eat(u, rest.p, "CR"), "LF"))
      BY <2>3, EatStands
    <3>2. QED
      BY <2>1, <3>1
  <2>5. CASE end.st = "more"
    BY <1>1, <2>5 DEF Found
  <2>6. CASE end2 = end
    <3> HIDE DEF end, end2, rest, rest2
    <3>1. FieldEnd(s, name, value) =
             [p |-> end, found |-> [name |-> name.text, value |-> value.text,
                                    parameters |-> rest.found]]
      BY DEF FieldEnd, end, rest
    <3>2. FieldEnd(u, name2, value2) =
             [p |-> end2, found |-> [name |-> name2.text, value |-> value2.text,
                                     parameters |-> rest2.found]]
      BY DEF FieldEnd, end2, rest2
    <3>3. value2 = value
      BY <1>3, <1>6 DEF Stands
    <3>4. FieldEnd(u, name2, value2) = FieldEnd(s, name, value)
      BY <2>1, <2>6, <3>1, <3>2, <3>3
    <3>5. QED
      BY <3>4 DEF Found
  <2>7. QED
    BY <2>4, <2>5, <2>6 DEF Stands
<1>7. QED
  BY <1>5, <1>6

\* HTTPFraming::ParseMsgHdr.
LEMMA FieldNameStands ==
    ASSUME NEW Token, NEW s \in Seq(Token), NEW u \in Seq(Token), Extends(u, s),
           NEW p, NEW i \in Nat \ {0}, Within(s, p, i)
    PROVE  /\ Within(s, FieldName(s, p), i)
           /\ Stands(FieldName(s, p), FieldName(u, p))
<1> DEFINE q(x) == IF x[p.at] \in Space THEN Ended(p, "event") ELSE p
<1>1. Within(s, q(s), i)
  BY EndedWithin
<1>2. q(u) = q(s)
  <2>1. CASE ~Going(p)
    BY <2>1 DEF Ended
  <2>2. CASE Going(p)
    <3>1. p.at \in 1 .. Len(s)
      BY <2>2 DEF Within
    <3>2. QED
      BY <3>1 DEF Extends
  <2>3. QED
    BY <2>1, <2>2
<1>3. \A x : FieldName(x, p) = Word(x, q(x), {":"})
  BY DEF FieldName
<1> HIDE DEF q
<1>4. Within(s, Word(s, q(s), {":"}), i)
  BY <1>1, WordWithin
<1>5. Stands(Word(s, q(s), {":"}), Word(u, q(u), {":"}))
  <2>1. Stands(q(s), q(u))
    BY <1>2 DEF Stands
  <2>2. QED
    BY <1>1, <2>1, WordStands
<1>6. QED
  BY <1>3, <1>4, <1>5

LEMMA FieldWithin ==
    ASSUME NEW Token, NEW s \in Seq(Token), NEW p, NEW i \in Nat \ {0}, Within(s, p, i)
    PROVE  Within(s, ParseMsgHdr(s, p).p, i + 1)
<1> DEFINE name == FieldName(s, p)
           colon == Skip(s, name)
           spaces == SkipSpaces(s, colon)
           value == Word(s, spaces, {";", "CR"})
<1>0. i + 1 \in Nat \ {0}
  OBVIOUS
<1>1. Within(s, name, i)
  BY FieldNameStands DEF Extends
<1>2. Within(s, colon, i + 1)
  BY <1>1, SkipWithin
<1>3. Within(s, spaces, i + 1)
  BY <1>0, <1>2, SkipSpacesWithin
<1>4. Within(s, value, i + 1)
  BY <1>0, <1>3, WordWithin
<1>5. Within(s, FieldEnd(s, name, value).p, i + 1)
  BY <1>0, <1>4, FieldEndWithin
<1>6. QED
  BY <1>5 DEF ParseMsgHdr

LEMMA FieldStands ==
    ASSUME NEW Token, NEW s \in Seq(Token), NEW u \in Seq(Token), Extends(u, s),
           NEW p, NEW i \in Nat \ {0}, Within(s, p, i)
    PROVE  Found(ParseMsgHdr(s, p), ParseMsgHdr(u, p))
<1> DEFINE name(x) == FieldName(x, p)
           colon(x) == Skip(x, name(x))
           spaces(x) == SkipSpaces(x, colon(x))
           value(x) == Word(x, spaces(x), {";", "CR"})
<1>0. i + 1 \in Nat \ {0}
  OBVIOUS
<1>1. Within(s, name(s), i) /\ Stands(name(s), name(u))
  BY FieldNameStands
<1>2. Within(s, colon(s), i + 1) /\ Stands(colon(s), colon(u))
  BY <1>1, SkipWithin, SkipStands
<1>3. Within(s, spaces(s), i + 1) /\ Stands(spaces(s), spaces(u))
  BY <1>0, <1>2, SkipSpacesWithin, SkipSpacesStands
<1>4. Within(s, value(s), i + 1) /\ Stands(value(s), value(u))
  BY <1>0, <1>3, WordWithin, WordStands
<1>5. ASSUME name(s).st = "more"
      PROVE  value(s).st = "more"
  <2>1. colon(s) = name(s)
    BY <1>5, MoreStays
  <2>2. spaces(s) = colon(s)
    BY <1>5, <2>1, MoreStays
  <2>3. spaces(s).st = "more"
    BY <1>5, <2>1, <2>2
  <2>4. Word(s, spaces(s), {";", "CR"}) = spaces(s)
    <3> HIDE DEF spaces
    <3>1. QED
      BY <2>3, MoreWord
  <2>5. QED
    BY <2>3, <2>4
<1>6. value(s).st = "more" \/ name(u) = name(s)
  BY <1>1, <1>5 DEF Stands
<1>7. \A x : ParseMsgHdr(x, p) = FieldEnd(x, name(x), value(x))
  BY DEF ParseMsgHdr
<1> HIDE DEF name, value
<1>8. Found(FieldEnd(s, name(s), value(s)), FieldEnd(u, name(u), value(u)))
  BY <1>0, <1>4, <1>6, FieldEndStands
<1>9. QED
  BY <1>7, <1>8

LEMMA FieldsGoOn ==
    ASSUME NEW Token, NEW s \in Seq(Token), NEW p, NEW i \in Nat, Within(s, p, i)
    PROVE  GoesOn(s, [k \in 1 .. Len(s) |-> ParseMsgHdr(s, [p EXCEPT !.at = k])])
<1>1. ASSUME NEW k \in 1 .. Len(s)
      PROVE  Within(s, ParseMsgHdr(s, [p EXCEPT !.at = k]).p, k + 1)
  <2>1. Len(s) \in Nat /\ k \in Nat \ {0}
    OBVIOUS
  <2>2. Within(s, [p EXCEPT !.at = k], k)
    BY <2>1, PutWithin
  <2>3. QED
    BY <2>1, <2>2, FieldWithin
<1>2. QED
  BY <1>1 DEF GoesOn

\* What is added to the header says nothing of where a parser is.
LEMMA HdrSet ==
    ASSUME NEW s, NEW p, NEW i, Within(s, p, i), NEW h
    PROVE  /\ Within(s, [p EXCEPT !.h = h], i)
           /\ [p EXCEPT !.h = h].st = p.st
BY DEF Within, IsParser, Going

\* All fields of a header.
LEMMA FieldsStand ==
    ASSUME NEW Token, NEW s \in Seq(Token), NEW u \in Seq(Token), Extends(u, s),
           NEW p, NEW q, NEW i \in Nat \ {0}, Within(s, p, i), Stands(p, q)
    PROVE  /\ Within(s, ParseMsgHdrs(s, p), i)
           /\ Stands(ParseMsgHdrs(s, p), ParseMsgHdrs(u, q))
<1> DEFINE one(x, r) == [k \in 1 .. Len(x) |-> ParseMsgHdr(x, [r EXCEPT !.at = k])]
           all(x, r) == Many(x, r, one(x, r))
           added(a) == [a.p.h EXCEPT !.msg_hdrs = @ \o a.found]
<1>1. \A x, r : ParseMsgHdrs(x, r) = [all(x, r).p EXCEPT !.h = added(all(x, r))]
  BY DEF ParseMsgHdrs
<1>2. GoesOn(s, one(s, p))
  BY FieldsGoOn
<1>3. Within(s, all(s, p).p, i)
  <2> HIDE DEF one
  <2>1. QED
    BY <1>2, ManyWithin
<1>4. Found(all(s, p), all(u, q))
  <2>1. CASE p.st = "more"
    <3> HIDE DEF one
    <3>1. Many(s, p, one(s, p)).p = p
      BY <2>1, MoreMany
    <3>2. QED
      BY <2>1, <3>1 DEF Found
  <2>2. CASE q = p
    <3>1. Within(u, p, i)
      BY WithinMore
    <3>2. GoesOn(u, one(u, p))
      BY <3>1, FieldsGoOn
    <3>3. \A k \in 1 .. Len(s) : Found(one(s, p)[k], one(u, p)[k])
      <4>1. TAKE k \in 1 .. Len(s)
      <4>2. Len(s) \in Nat /\ k \in Nat \ {0} /\ k \in 1 .. Len(u)
        BY DEF Extends
      <4>3. Within(s, [p EXCEPT !.at = k], k)
        BY <4>2, PutWithin
      <4>4. Found(ParseMsgHdr(s, [p EXCEPT !.at = k]),
                  ParseMsgHdr(u, [p EXCEPT !.at = k]))
        BY <4>2, <4>3, FieldStands
      <4>5. QED
        BY <4>2, <4>4
    <3> HIDE DEF one
    <3>4. Found(Many(s, p, one(s, p)), Many(u, p, one(u, p)))
      BY <1>2, <3>2, <3>3, ManyStands
    <3>5. QED
      BY <2>2, <3>4
  <2>3. QED
    BY <2>1, <2>2 DEF Stands
<1> HIDE DEF all, added
<1>5. /\ Within(s, ParseMsgHdrs(s, p), i)
      /\ ParseMsgHdrs(s, p).st = all(s, p).p.st
  BY <1>1, <1>3, HdrSet
<1>6. all(u, q) = all(s, p) => ParseMsgHdrs(u, q) = ParseMsgHdrs(s, p)
  BY <1>1
<1>7. QED
  BY <1>4, <1>5, <1>6 DEF Found, Stands

-----------------------------------------------------------------------------
(* The other lines *)

\* More data make no token of the data so far a number, nor keep it from being one.
LEMMA NotDigitsSame ==
    ASSUME NEW s, NEW u, Len(s) \in Nat, Len(u) \in Nat,
           DOMAIN s = 1 .. Len(s), DOMAIN u = 1 .. Len(u), Extends(u, s)
    PROVE  \A k \in 1 .. Len(s) : s[k] \in NotDigits(s) <=> s[k] \in NotDigits(u)
<1>1. TAKE k \in 1 .. Len(s)
<1>2. k \in DOMAIN s /\ k \in DOMAIN u /\ u[k] = s[k]
  BY DEF Extends
<1>3. QED
  BY <1>2 DEF NotDigits

\* The line's beginning.
LEMMA VersionStands ==
    ASSUME NEW Token, NEW s \in Seq(Token), NEW u \in Seq(Token), Extends(u, s),
           NEW p, NEW i \in Nat \ {0}, Within(s, p, i)
    PROVE  /\ Within(s, ParseVersion(s, p), i)
           /\ Stands(ParseVersion(s, p), ParseVersion(u, p))
<1> DEFINE slash(x) == IF Going(p) /\ x[p.at] # kHTTPSlash THEN Ended(p, "more") ELSE Skip(x, p)
           major(x) == Word(x, slash(x), NotDigits(x))
           point(x) == Eat(x, major(x), ".")
           minor(x) == Word(x, point(x), NotDigits(x))
           version(x) == major(x).text \o minor(x).text
           hdr(x) == [minor(x).h EXCEPT !.version = version(x)]
<1>0. \A k \in 1 .. Len(s) : s[k] \in NotDigits(s) <=> s[k] \in NotDigits(u)
  BY NotDigitsSame
<1>1. Within(s, slash(s), i) /\ Stands(slash(s), slash(u))
  <2>1. Within(s, Skip(s, p), i) /\ Stands(Skip(s, p), Skip(u, p))
    <3>1. Within(s, Skip(s, p), i + 1)
      BY SkipWithin
    <3>2. QED
      BY <3>1, SkipStands DEF Within, Stands
  <2>2. Going(p) => u[p.at] = s[p.at]
    <3>1. Going(p) => p.at \in 1 .. Len(s)
      BY DEF Within
    <3>2. QED
      BY <3>1 DEF Extends
  <2>3. CASE Going(p) /\ s[p.at] # kHTTPSlash
    <3>1. Ended(p, "more").st = "more"
      BY <2>3 DEF Ended, Within, IsParser
    <3>2. QED
      BY <2>3, <3>1, EndedWithin DEF Stands
  <2>4. CASE ~(Going(p) /\ s[p.at] # kHTTPSlash)
    BY <2>1, <2>2, <2>4
  <2>5. QED
    BY <2>3, <2>4
<1>2. \A x : ParseVersion(x, p) =
               IF version(x) \in Versions THEN [minor(x) EXCEPT !.h = hdr(x)]
               ELSE Ended(minor(x), "event")
  BY DEF ParseVersion
<1> HIDE DEF slash
<1>3. Within(s, major(s), i) /\ Stands(major(s), major(u))
  BY <1>0, <1>1, WordWithin, WordStands
<1>4. ASSUME major(s).st = "more"
      PROVE  minor(s).st = "more"
  <2>1. point(s) = major(s)
    BY <1>4, MoreEats
  <2>2. QED
    BY <1>4, <2>1, MoreWord
<1> HIDE DEF major
<1>5. Within(s, point(s), i) /\ Stands(point(s), point(u))
  BY <1>3, EatWithin, EatStands
<1> HIDE DEF point
<1>6. Within(s, minor(s), i) /\ Stands(minor(s), minor(u))
  BY <1>0, <1>5, WordWithin, WordStands
<1> HIDE DEF minor
<1>7. Within(s, ParseVersion(s, p), i)
  <2>1. Within(s, [minor(s) EXCEPT !.h = hdr(s)], i)
    BY <1>6, HdrSet
  <2>2. Within(s, Ended(minor(s), "event"), i)
    BY <1>6, EndedWithin
  <2>3. QED
    BY <1>2, <2>1, <2>2
<1>8. CASE minor(s).st = "more"
  <2>1. [minor(s) EXCEPT !.h = hdr(s)].st = "more"
    BY <1>6, <1>8, HdrSet
  <2>2. Ended(minor(s), "event").st = "more"
    BY <1>8, MoreEats
  <2>3. QED
    BY <1>2, <1>7, <2>1, <2>2 DEF Stands
<1>9. CASE minor(s).st # "more"
  <2>1. major(u) = major(s) /\ minor(u) = minor(s)
    BY <1>3, <1>4, <1>6, <1>9 DEF Stands
  <2>2. version(u) = version(s) /\ hdr(u) = hdr(s)
    BY <2>1
  <2> HIDE DEF version, hdr
  <2>3. ParseVersion(u, p) = ParseVersion(s, p)
    BY <1>2, <2>1, <2>2
  <2>4. QED
    BY <1>7, <2>3 DEF Stands
<1>10. QED
  BY <1>8, <1>9

\* HTTPFraming::ParseStatusLine.
LEMMA StatusLineStands ==
    ASSUME NEW Token, NEW s \in Seq(Token), NEW u \in Seq(Token), Extends(u, s),
           NEW p, NEW i \in Nat \ {0}, Within(s, p, i)
    PROVE  /\ Within(s, ParseStatusLine(s, p), i)
           /\ Stands(ParseStatusLine(s, p), ParseStatusLine(u, p))
<1> DEFINE version(x) == ParseVersion(x, p)
           space(x) == Eat(x, version(x), "SP")
           code(x) == Word(x, space(x), NotDigits(x))
           after(x) == Eat(x, code(x), "SP")
           phrase(x) == Word(x, after(x), {"CR"})
           cr(x) == Eat(x, phrase(x), "CR")
           lf(x) == Eat(x, cr(x), "LF")
<1>0. \A k \in 1 .. Len(s) : s[k] \in NotDigits(s) <=> s[k] \in NotDigits(u)
  BY NotDigitsSame
<1>1. \A x : ParseStatusLine(x, p) = [lf(x) EXCEPT !.text = code(x).text]
  BY DEF ParseStatusLine
<1>2. Within(s, version(s), i) /\ Stands(version(s), version(u))
  BY VersionStands
<1> HIDE DEF version
<1>3. Within(s, space(s), i) /\ Stands(space(s), space(u))
  BY <1>2, EatWithin, EatStands
<1> HIDE DEF space
<1>4. Within(s, code(s), i) /\ Stands(code(s), code(u))
  BY <1>0, <1>3, WordWithin, WordStands
<1> HIDE DEF code
<1>5. ASSUME code(s).st = "more"
      PROVE  lf(s).st = "more"
  <2>1. after(s) = code(s)
    BY <1>5, MoreEats
  <2>2. phrase(s) = code(s)
    BY <1>5, <2>1, MoreWord
  <2>3. cr(s) = code(s)
    BY <1>5, <2>2, MoreEats
  <2>4. QED
    BY <1>5, <2>3, MoreEats
<1>6. Within(s, after(s), i) /\ Stands(after(s), after(u))
  BY <1>4, EatWithin, EatStands
<1> HIDE DEF after
<1>7. Within(s, phrase(s), i) /\ Stands(phrase(s), phrase(u))
  BY <1>6, WordWithin, WordStands
<1> HIDE DEF phrase
<1>8. Within(s, cr(s), i) /\ Stands(cr(s), cr(u))
  BY <1>7, EatWithin, EatStands
<1> HIDE DEF cr
<1>9. Within(s, lf(s), i) /\ Stands(lf(s), lf(u))
  BY <1>8, EatWithin, EatStands
<1> HIDE DEF lf
<1>10. Within(s, ParseStatusLine(s, p), i) /\ ParseStatusLine(s, p).st = lf(s).st
  <2>1. ParseStatusLine(s, p) = [lf(s) EXCEPT !.text = code(s).text]
    BY <1>1
  <2>2. /\ Within(s, [lf(s) EXCEPT !.text = code(s).text], i)
        /\ [lf(s) EXCEPT !.text = code(s).text].st = lf(s).st
    BY <1>9, TextSet
  <2>3. QED
    BY <2>1, <2>2
<1>11. lf(s).st # "more" => ParseStatusLine(u, p) = ParseStatusLine(s, p)
  BY <1>1, <1>4, <1>5, <1>9 DEF Stands
<1>12. QED
  BY <1>10, <1>11 DEF Stands

\* The empty line.
LEMMA ResponseEndStands ==
    ASSUME NEW Token, NEW s \in Seq(Token), NEW u \in Seq(Token), Extends(u, s),
           NEW p, NEW q, NEW i \in Nat \ {0}, Within(s, p, i), Stands(p, q)
    PROVE  /\ IsParser(ParseResponseEnd(s, p))
           /\ Stands(ParseResponseEnd(s, p), ParseResponseEnd(u, q))
           /\ p.st = "more" => ParseResponseEnd(s, p).st = "more"
<1> DEFINE cr(x, r) == Eat(x, r, "CR")
           lf(x, r) == Expect(x, cr(x, r), "LF")
<1>1. \A x, r : ParseResponseEnd(x, r) = [lf(x, r) EXCEPT !.at = @ + 1]
  BY DEF ParseResponseEnd
<1>2. p.st = "more" => lf(s, p).st = "more"
  BY MoreEats
<1>3. Within(s, cr(s, p), i) /\ Stands(cr(s, p), cr(u, q))
  BY EatWithin, EatStands
<1> HIDE DEF cr
<1>4. Within(s, lf(s, p), i) /\ Stands(lf(s, p), lf(u, q))
  <2>1. Len(s) \in Nat
    OBVIOUS
  <2>2. QED
    BY <1>3, <2>1, ExpectWithin, ExpectStands
<1> HIDE DEF lf
<1>5. IsParser(ParseResponseEnd(s, p)) /\ ParseResponseEnd(s, p).st = lf(s, p).st
  BY <1>1, <1>4 DEF Within, IsParser
<1>6. lf(u, q) = lf(s, p) => ParseResponseEnd(u, q) = ParseResponseEnd(s, p)
  BY <1>1
<1>7. QED
  BY <1>2, <1>4, <1>5, <1>6 DEF Stands

LEMMA ResponseHdrStands ==
    ASSUME NEW Token, NEW s \in Seq(Token), NEW u \in Seq(Token), Extends(u, s),
           NEW line, NEW line2, NEW i \in Nat \ {0}, Within(s, line, i), Stands(line, line2)
    PROVE  Stands(ResponseHdr(s, line), ResponseHdr(u, line2))
<1> DEFINE fields(x, l) == ParseMsgHdrs(x, l)
           end(x, l) == ParseResponseEnd(x, fields(x, l))
           code(l) == IF l.text = <<>> THEN "0" ELSE l.text[1]
           hdr(x, l) == [end(x, l).h EXCEPT !.msg_type = "RESPONSE", !.code = code(l)]
<1>1. \A x, l : ResponseHdr(x, l) = [end(x, l) EXCEPT !.text = <<>>, !.h = hdr(x, l)]
  BY DEF ResponseHdr
<1>2. Within(s, fields(s, line), i) /\ Stands(fields(s, line), fields(u, line2))
  BY FieldsStand
<1>3. line.st = "more" => fields(s, line).st = "more"
  BY MoreMany DEF ParseMsgHdrs
<1> HIDE DEF fields
<1>4. /\ IsParser(end(s, line))
      /\ Stands(end(s, line), end(u, line2))
      /\ fields(s, line).st = "more" => end(s, line).st = "more"
  BY <1>2, ResponseEndStands
<1> HIDE DEF end
<1>5. ResponseHdr(s, line).st = end(s, line).st
  BY <1>1, <1>4 DEF IsParser
<1>6. CASE end(s, line).st = "more"
  BY <1>5, <1>6 DEF Stands
<1>7. CASE end(s, line).st # "more"
  <2>1. line2 = line /\ end(u, line2) = end(s, line)
    BY <1>3, <1>4, <1>7 DEF Stands
  <2>2. hdr(u, line2) = hdr(s, line)
    BY <2>1
  <2> HIDE DEF hdr
  <2>3. QED
    BY <1>1, <2>1, <2>2 DEF Stands
<1>8. QED
  BY <1>6, <1>7

-----------------------------------------------------------------------------
(* HTTPFraming::ParseResponseHdr is called again each time data arrive,    *)
(* with what has arrived so far: a header that it parsed, or refused, when *)
(* the first n tokens were there, it would parse, or refuse, the same way  *)
(* whenever it had been called later.  Hence how the peer's response is    *)
(* cut into reads says nothing about how its header is understood.         *)
THEOREM ResponseStands ==
    ASSUME NEW Token, NEW u \in Seq(Token), NEW n \in 0 .. Len(u),
           NEW i \in 1 .. n, NEW h
    PROVE  LET Hdr(s) == ResponseHdr(s, ParseStatusLine(s, Parser(i, h))) IN
           Hdr(SubSeq(u, 1, n)).st = "more" \/ Hdr(u) = Hdr(SubSeq(u, 1, n))
<1> DEFINE s == SubSeq(u, 1, n)
           p == Parser(i, h)
<1>1. s \in Seq(Token) /\ Len(s) = n /\ Extends(u, s) /\ i \in Nat \ {0}
  <2>1. n \in Nat /\ n <= Len(u) /\ Len(u) \in Nat /\ i \in Nat \ {0}
    OBVIOUS
  <2>2. s = [k \in 1 .. n |-> u[k]]
    BY <2>1
  <2>3. s \in Seq(Token) /\ Len(s) = n
    BY <2>1
  <2>4. QED
    BY <2>1, <2>2, <2>3 DEF Extends
<1> HIDE DEF s
<1>2. Within(s, p, i)
  BY <1>1 DEF Within, IsParser, Parser
<1> HIDE DEF p
<1>3. /\ Within(s, ParseStatusLine(s, p), i)
      /\ Stands(ParseStatusLine(s, p), ParseStatusLine(u, p))
  BY <1>1, <1>2, StatusLineStands
<1>4. Stands(ResponseHdr(s, ParseStatusLine(s, p)), ResponseHdr(u, ParseStatusLine(u, p)))
  BY <1>1, <1>3, ResponseHdrStands
<1>5. QED
  BY <1>4 DEF Stands, s, p
=============================================================================

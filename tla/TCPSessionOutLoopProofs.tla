---------------------- MODULE TCPSessionOutLoopProofs ----------------------
(***************************************************************************)
(* Proofs about TCPSessionOut where one thread adds, writes and pops, on a *)
(* transport whose Write sends what it was given or raises an event, for   *)
(* any messages, files and buffer sizes: the session is then a MsgQueue.   *)
(***************************************************************************)
EXTENDS TCPSessionOutProofs

\* One thread, so that no answer of a check is stale when it is used.  A body
\* is sent from a file only if Write takes all it was given: of a nonblocking
\* socket's short write the file position knows nothing.  And a file is the
\* body of one message: Write does not seek in one that it finds open.
OneLoop ==
    /\ \A t, u \in Threads : t = u
    /\ \/ Transport = "tcp_blocking"
       \/ Transport = "tcp_nonblocking" /\ \A m \in Msgs : storage[m] = "MEM"
    /\ \A m, n \in Msgs :
          storage[m] = "DISC" /\ storage[n] = "DISC" /\ file[m] = file[n] => m = n

-----------------------------------------------------------------------------
(* What was sent, as a matter of the queue f, how much s of its front is   *)
(* out, the wire w, the history q of what was queued, and what was dropped *)

\* The bytes of m that are on w.
PartOf(w, m) == {k \in 1 .. MsgLen(m) : <<m, k>> \in Range(w)}

Whole(w, m) == \A k \in 1 .. MsgLen(m) : <<m, k>> \in Range(w)

\* The messages in front of position n of q are out or dropped.
Settled(w, q, d, n) == \A i \in 1 .. n : q[i] \in d \/ Whole(w, q[i])

Injective(q) == \A i, j \in 1 .. Len(q) : q[i] = q[j] => i = j

\* The queue is what was queued last.
Newest(f, q) ==
    /\ Len(f) <= Len(q)
    /\ \A i \in 1 .. Len(f) : f[i] = q[Len(q) - Len(f) + i]

\* Of the front message the first s bytes are out, of the others none is.
FrontOut(f, s, w) ==
    /\ f = <<>> => s = 0
    /\ f # <<>> => s \in 0 .. MsgLen(f[1]) /\ PartOf(w, f[1]) = 1 .. s
    /\ \A i \in 2 .. Len(f) : PartOf(w, f[i]) = {}

NotQueuedNotOut(w, q) == \A m \in Msgs : m \notin Range(q) => PartOf(w, m) = {}

\* The next byte follows on the last one.
LastOut(f, s, w) == s > 0 => w # <<>> /\ w[Len(w)] = <<f[1], s>>

\* WireInOrder, said of w, q and d; w[j] is the first byte of q[r].
FirstOf(w, q, d, j, r) ==
    /\ q[r] = w[j][1]
    /\ \A i \in 1 .. (r - 1) :
          q[i] \in d \/ \E h \in 1 .. (j - 1) : w[h] = <<q[i], MsgLen(q[i])>>

InOrder(w, q, d) ==
    \A j \in 1 .. Len(w) :
        IF w[j][2] > 1 THEN j > 1 /\ w[j - 1] = <<w[j][1], w[j][2] - 1>>
        ELSE \E r \in 1 .. Len(q) : FirstOf(w, q, d, j, r)

History(f, s, w, q, d) ==
    /\ Injective(q)
    /\ Newest(f, q)
    /\ FrontOut(f, s, w)
    /\ NotQueuedNotOut(w, q)
    /\ Settled(w, q, d, Len(q) - Len(f))
    /\ LastOut(f, s, w)
    /\ InOrder(w, q, d)

\* n bytes of m from s on.
Piece(m, s, n) == [k \in 1 .. n |-> <<m, s + k>>]

LEMMA PieceSeq ==
    ASSUME NEW m \in Msgs, NEW s \in Nat, NEW n \in Nat
    PROVE  Piece(m, s, n) \in Seq(Bytes) /\ Len(Piece(m, s, n)) = n
<1>1. \A k \in 1 .. n : <<m, s + k>> \in Bytes
  BY DEF Bytes
<1>2. Piece(m, s, n) \in Seq(Bytes)
  BY <1>1 DEF Piece
<1>3. Len(Piece(m, s, n)) = n
  BY DEF Piece
<1>4. QED
  BY <1>2, <1>3

\* A piece put on the wire, position by position.
LEMMA Longer ==
    ASSUME NEW w \in Seq(Bytes), NEW m \in Msgs, NEW s \in Nat, NEW n \in Nat
    PROVE  LET w2 == w \o Piece(m, s, n) IN
           /\ w2 \in Seq(Bytes) /\ Len(w2) = Len(w) + n
           /\ \A j \in 1 .. Len(w) : w2[j] = w[j]
           /\ \A k \in 1 .. n : w2[Len(w) + k] = <<m, s + k>>
<1> DEFINE p == Piece(m, s, n)
<1>1. p \in Seq(Bytes) /\ Len(p) = n /\ \A k \in 1 .. n : p[k] = <<m, s + k>>
  BY PieceSeq DEF Piece
<1> HIDE DEF p
<1>2. /\ w \o p \in Seq(Bytes) /\ Len(w \o p) = Len(w) + n
      /\ \A i \in 1 .. Len(w) + n : (w \o p)[i] = IF i <= Len(w) THEN w[i] ELSE p[i - Len(w)]
  BY <1>1, ConcatProperties
<1>3. Len(w) \in Nat
  OBVIOUS
<1>4. \A j \in 1 .. Len(w) : (w \o p)[j] = w[j]
  BY <1>2, <1>3
<1>5. ASSUME NEW k \in 1 .. n PROVE (w \o p)[Len(w) + k] = <<m, s + k>>
  <2>1. Len(w) + k \in 1 .. Len(w) + n /\ ~(Len(w) + k <= Len(w)) /\ Len(w) + k - Len(w) = k
    BY <1>3
  <2>2. QED
    BY <1>1, <1>2, <2>1
<1>6. QED
  BY <1>2, <1>4, <1>5 DEF p

\* What is on the wire then.
LEMMA LongerRange ==
    ASSUME NEW w \in Seq(Bytes), NEW m \in Msgs, NEW s \in Nat, NEW n \in Nat
    PROVE  \A x \in Msgs, k \in Nat :
              <<x, k>> \in Range(w \o Piece(m, s, n))
                <=> <<x, k>> \in Range(w) \/ (x = m /\ k \in s + 1 .. s + n)
<1> DEFINE w2 == w \o Piece(m, s, n)
<1>1. /\ w2 \in Seq(Bytes) /\ Len(w2) = Len(w) + n
      /\ \A j \in 1 .. Len(w) : w2[j] = w[j]
      /\ \A k \in 1 .. n : w2[Len(w) + k] = <<m, s + k>>
  BY Longer
<1>2. Len(w) \in Nat /\ DOMAIN w = 1 .. Len(w) /\ DOMAIN w2 = 1 .. Len(w) + n
  BY <1>1
<1> HIDE DEF w2
<1> SUFFICES ASSUME NEW x \in Msgs, NEW k \in Nat
             PROVE  <<x, k>> \in Range(w2)
                      <=> <<x, k>> \in Range(w) \/ (x = m /\ k \in s + 1 .. s + n)
  BY DEF w2
<1>3. ASSUME <<x, k>> \in Range(w2), <<x, k>> \notin Range(w)
      PROVE  x = m /\ k \in s + 1 .. s + n
  <2>1. PICK j \in 1 .. Len(w) + n : w2[j] = <<x, k>>
    BY <1>2, <1>3 DEF Range
  <2>2. ~(j <= Len(w))
    BY <1>1, <1>2, <1>3, <2>1 DEF Range
  <2>3. j - Len(w) \in 1 .. n /\ Len(w) + (j - Len(w)) = j
    BY <1>2, <2>2
  <2>4. <<x, k>> = <<m, s + (j - Len(w))>>
    BY <1>1, <2>1, <2>3
  <2>5. x = m /\ k = s + (j - Len(w))
    BY <2>4
  <2>6. QED
    BY <1>2, <2>3, <2>5
<1>4. ASSUME <<x, k>> \in Range(w) PROVE <<x, k>> \in Range(w2)
  <2>1. PICK j \in 1 .. Len(w) : w[j] = <<x, k>>
    BY <1>2, <1>4 DEF Range
  <2>2. j \in 1 .. Len(w) + n /\ w2[j] = <<x, k>>
    BY <1>1, <1>2, <2>1
  <2>3. QED
    BY <1>2, <2>2 DEF Range
<1>5. ASSUME x = m, k \in s + 1 .. s + n PROVE <<x, k>> \in Range(w2)
  <2>1. k - s \in 1 .. n /\ s + (k - s) = k /\ Len(w) + (k - s) \in 1 .. Len(w) + n
    BY <1>2, <1>5
  <2>2. w2[Len(w) + (k - s)] = <<x, k>>
    BY <1>1, <1>5, <2>1
  <2>3. QED
    BY <1>2, <2>1, <2>2 DEF Range
<1>6. QED
  BY <1>3, <1>4, <1>5

\* What is on the wire of each message then.
LEMMA LongerParts ==
    ASSUME NEW w \in Seq(Bytes), NEW m \in Msgs, NEW s \in Nat, NEW n \in Nat,
           s + n <= MsgLen(m)
    PROVE  LET w2 == w \o Piece(m, s, n) IN
           /\ \A x \in Msgs : x # m => PartOf(w2, x) = PartOf(w, x)
           /\ PartOf(w, m) = 1 .. s => PartOf(w2, m) = 1 .. s + n
           /\ \A x \in Msgs : Whole(w, x) => Whole(w2, x)
<1> DEFINE w2 == w \o Piece(m, s, n)
<1>1. \A x \in Msgs, k \in Nat :
        <<x, k>> \in Range(w2) <=> <<x, k>> \in Range(w) \/ (x = m /\ k \in s + 1 .. s + n)
  BY LongerRange
<1>2. \A x \in Msgs : MsgLen(x) \in Nat
  BY MsgTypes
<1> HIDE DEF w2
<1>3. ASSUME NEW x \in Msgs, x # m PROVE PartOf(w2, x) = PartOf(w, x)
  <2>1. \A k \in 1 .. MsgLen(x) : <<x, k>> \in Range(w2) <=> <<x, k>> \in Range(w)
    BY <1>1, <1>2, <1>3
  <2>2. QED
    BY <2>1 DEF PartOf
<1>4. ASSUME PartOf(w, m) = 1 .. s PROVE PartOf(w2, m) = 1 .. s + n
  <2>1. \A k \in 1 .. MsgLen(m) : <<m, k>> \in Range(w) <=> k \in 1 .. s
    BY <1>4 DEF PartOf
  <2>2. \A k \in 1 .. MsgLen(m) : <<m, k>> \in Range(w2) <=> k \in 1 .. s + n
    BY <1>1, <1>2, <2>1
  <2>3. 1 .. s + n \subseteq 1 .. MsgLen(m)
    BY <1>2
  <2>4. QED
    BY <2>2, <2>3 DEF PartOf
<1>5. ASSUME NEW x \in Msgs, Whole(w, x) PROVE Whole(w2, x)
  <2>1. \A k \in 1 .. MsgLen(x) : <<x, k>> \in Range(w2)
    BY <1>1, <1>2, <1>5 DEF Whole
  <2>2. QED
    BY <2>1 DEF Whole
<1>6. QED
  BY <1>3, <1>4, <1>5 DEF w2

\* A message is out when as many bytes of it are as it has.
LEMMA WholePart ==
    ASSUME NEW w, NEW m, PartOf(w, m) = 1 .. MsgLen(m)
    PROVE  Whole(w, m)
BY DEF PartOf, Whole

\* What else is dropped does not take a message back.
LEMMA SettledGrows ==
    ASSUME NEW w, NEW q, NEW d, NEW n, NEW w2, NEW d2, Settled(w, q, d, n), d \subseteq d2,
           \A i \in 1 .. n : Whole(w, q[i]) => Whole(w2, q[i])
    PROVE  Settled(w2, q, d2, n)
BY DEF Settled

LEMMA FirstOfGrows ==
    ASSUME NEW w \in Seq(Bytes), NEW w2 \in Seq(Bytes), NEW q, NEW d, NEW d2, d \subseteq d2,
           NEW j \in 1 .. Len(w), NEW r, FirstOf(w, q, d, j, r),
           \A i \in 1 .. Len(w) : w2[i] = w[i]
    PROVE  FirstOf(w2, q, d2, j, r)
<1>1. w2[j] = w[j] /\ \A h \in 1 .. (j - 1) : w2[h] = w[h]
  OBVIOUS
<1>2. QED
  BY <1>1 DEF FirstOf

\* Bytes go out in order if the next piece is the next of the message last out,
\* or the first of one before which everything is settled.
LEMMA InOrderLonger ==
    ASSUME NEW w \in Seq(Bytes), NEW q, NEW d, NEW d2, d \subseteq d2, InOrder(w, q, d),
           NEW m \in Msgs, NEW s \in Nat, NEW n \in Nat,
           s > 0 => w # <<>> /\ w[Len(w)] = <<m, s>>,
           NEW r \in 1 .. Len(q), q[r] = m, \A i \in 1 .. (r - 1) : q[i] \in Msgs,
           Settled(w, q, d, r - 1)
    PROVE  InOrder(w \o Piece(m, s, n), q, d2)
<1> DEFINE w2 == w \o Piece(m, s, n)
           L == Len(w)
<1>1. /\ w2 \in Seq(Bytes) /\ Len(w2) = L + n
      /\ \A j \in 1 .. L : w2[j] = w[j]
      /\ \A k \in 1 .. n : w2[L + k] = <<m, s + k>>
  BY Longer
<1>2. L \in Nat
  OBVIOUS
<1>3. \A i \in 1 .. (r - 1) : q[i] \in d2 \/ \E h \in 1 .. L : w[h] = <<q[i], MsgLen(q[i])>>
  <2> SUFFICES ASSUME NEW i \in 1 .. (r - 1), q[i] \notin d
               PROVE  \E h \in 1 .. L : w[h] = <<q[i], MsgLen(q[i])>>
    OBVIOUS
  <2>1. Whole(w, q[i]) /\ MsgLen(q[i]) \in 1 .. MsgLen(q[i])
    BY MsgTypes DEF Settled
  <2>2. <<q[i], MsgLen(q[i])>> \in Range(w)
    BY <2>1 DEF Whole
  <2>3. QED
    BY <2>2 DEF Range
<1> HIDE DEF w2, L
<1> DEFINE Right(j) == IF w2[j][2] > 1 THEN j > 1 /\ w2[j - 1] = <<w2[j][1], w2[j][2] - 1>>
                       ELSE \E x \in 1 .. Len(q) : FirstOf(w2, q, d2, j, x)
<1>4. ASSUME NEW j \in 1 .. L PROVE Right(j)
  <2>1. w2[j] = w[j] /\ (j > 1 => w2[j - 1] = w[j - 1])
    BY <1>1, <1>2
  <2>2. IF w[j][2] > 1 THEN j > 1 /\ w[j - 1] = <<w[j][1], w[j][2] - 1>>
        ELSE \E x \in 1 .. Len(q) : FirstOf(w, q, d, j, x)
    BY DEF InOrder, L
  <2>3. \A x : FirstOf(w, q, d, j, x) => FirstOf(w2, q, d2, j, x)
    BY <1>1, FirstOfGrows DEF L
  <2>4. QED
    BY <2>1, <2>2, <2>3
<1>5. ASSUME NEW k \in 1 .. n PROVE Right(L + k)
  <2>1. w2[L + k] = <<m, s + k>> /\ w2[L + k][1] = m /\ w2[L + k][2] = s + k
    BY <1>1
  <2>2. CASE k > 1
    <3>1. k - 1 \in 1 .. n /\ L + (k - 1) = (L + k) - 1 /\ s + (k - 1) = (s + k) - 1
      BY <1>2, <2>2
    <3>2. w2[(L + k) - 1] = <<m, (s + k) - 1>>
      BY <1>1, <3>1
    <3>3. QED
      BY <1>2, <2>1, <2>2, <3>2
  <2>3. CASE k = 1 /\ s > 0
    <3>1. L > 0 /\ w[L] = <<m, s>>
      BY <2>3 DEF L
    <3>2. w2[L] = <<m, s>>
      BY <1>1, <1>2, <3>1
    <3>3. (L + k) - 1 = L /\ (s + k) - 1 = s /\ s + k > 1 /\ L + k > 1
      BY <1>2, <2>3, <3>1
    <3>4. w2[(L + k) - 1] = <<m, (s + k) - 1>>
      BY <3>2, <3>3
    <3>5. QED
      BY <2>1, <3>3, <3>4
  <2>4. CASE k = 1 /\ s = 0
    <3>1. ~(w2[L + k][2] > 1) /\ (L + k) - 1 = L
      BY <1>2, <2>1, <2>4
    <3>2. \A h \in 1 .. L : w2[h] = w[h]
      BY <1>1
    <3>3. \A i \in 1 .. (r - 1) :
            q[i] \in d2 \/ \E h \in 1 .. ((L + k) - 1) : w2[h] = <<q[i], MsgLen(q[i])>>
      <4>1. \A h \in 1 .. L : h \in 1 .. ((L + k) - 1) /\ w2[h] = w[h]
        BY <3>1, <3>2
      <4>2. QED
        BY <1>3, <4>1, Zenon
    <3>4. FirstOf(w2, q, d2, L + k, r)
      BY <2>1, <3>3, Zenon DEF FirstOf
    <3>5. QED
      BY <3>1, <3>4
  <2>5. QED
    BY <2>2, <2>3, <2>4
<1>6. \A j \in 1 .. L + n : j \in 1 .. L \/ (j - L \in 1 .. n /\ L + (j - L) = j)
  BY <1>2
<1>7. \A j \in 1 .. Len(w2) : Right(j)
  <2> HIDE DEF Right
  <2> TAKE j \in 1 .. Len(w2)
  <2>1. CASE j \in 1 .. L
    BY <1>4, <2>1
  <2>2. CASE j \notin 1 .. L
    <3>1. j - L \in 1 .. n /\ L + (j - L) = j
      BY <1>1, <1>6, <2>2
    <3>2. QED
      BY <1>5, <3>1
  <2>3. QED
    BY <2>1, <2>2
<1>8. QED
  BY <1>7 DEF InOrder, w2

\* Where the queue is in what was queued.
LEMMA NewestFacts ==
    ASSUME NEW f \in Seq(Msgs), NEW q \in Seq(Msgs), Newest(f, q)
    PROVE  /\ Len(q) - Len(f) \in Nat /\ Len(f) \in Nat /\ Len(q) \in Nat
           /\ \A i \in 1 .. Len(f) : /\ (Len(q) - Len(f)) + i \in 1 .. Len(q)
                                     /\ f[i] = q[(Len(q) - Len(f)) + i]
                                     /\ f[i] \in Msgs /\ f[i] \in Range(q)
<1>1. Len(q) - Len(f) \in Nat /\ Len(f) \in Nat /\ Len(q) \in Nat
  BY DEF Newest
<1>2. ASSUME NEW i \in 1 .. Len(f)
      PROVE  /\ (Len(q) - Len(f)) + i \in 1 .. Len(q) /\ f[i] = q[(Len(q) - Len(f)) + i]
             /\ f[i] \in Msgs
  BY <1>1 DEF Newest
<1>3. \A i \in 1 .. Len(f) : f[i] \in Range(q)
  BY <1>2 DEF Range
<1>4. QED
  BY <1>1, <1>2, <1>3

\* More of the front message goes out.
LEMMA HistorySend ==
    ASSUME NEW f \in Seq(Msgs), f # <<>>, NEW s \in Nat, NEW w \in Seq(Bytes),
           NEW q \in Seq(Msgs), NEW d, History(f, s, w, q, d),
           NEW n \in Nat, s + n <= MsgLen(f[1])
    PROVE  History(f, s + n, w \o Piece(f[1], s, n), q, d)
<1> DEFINE m == f[1]
           w2 == w \o Piece(m, s, n)
           g == Len(q) - Len(f)
<1>1. /\ Injective(q) /\ Newest(f, q) /\ FrontOut(f, s, w) /\ NotQueuedNotOut(w, q)
      /\ Settled(w, q, d, g) /\ LastOut(f, s, w) /\ InOrder(w, q, d)
  BY DEF History
<1>2. /\ g \in Nat /\ Len(f) \in Nat /\ Len(q) \in Nat
      /\ \A i \in 1 .. Len(f) : g + i \in 1 .. Len(q) /\ f[i] = q[g + i]
                                /\ f[i] \in Msgs /\ f[i] \in Range(q)
  BY <1>1, NewestFacts
<1>3. Len(f) >= 1 /\ 1 \in 1 .. Len(f)
  BY <1>2
<1>4. /\ g + 1 \in 1 .. Len(q) /\ m = q[g + 1] /\ m \in Msgs /\ m \in Range(q)
  BY <1>2, <1>3
<1>5. /\ \A x \in Msgs : x # m => PartOf(w2, x) = PartOf(w, x)
      /\ PartOf(w, m) = 1 .. s => PartOf(w2, m) = 1 .. s + n
      /\ \A x \in Msgs : Whole(w, x) => Whole(w2, x)
  BY <1>4, LongerParts
<1>6. /\ w2 \in Seq(Bytes) /\ Len(w2) = Len(w) + n
      /\ \A k \in 1 .. n : w2[Len(w) + k] = <<m, s + k>>
  <2>1. m \in Msgs
    BY <1>4
  <2> HIDE DEF m
  <2>2. QED
    BY <2>1, Longer
<1> HIDE DEF m, w2, g
<1>7. \A i \in 2 .. Len(f) : f[i] # m
  <2> SUFFICES ASSUME NEW i \in 2 .. Len(f), f[i] = m PROVE FALSE
    OBVIOUS
  <2>1. i \in 1 .. Len(f)
    BY <1>2
  <2>2. q[g + i] = q[g + 1] /\ g + i \in 1 .. Len(q) /\ g + i # g + 1
    BY <1>2, <1>4, <2>1
  <2>3. QED
    BY <1>1, <1>4, <2>1, <2>2 DEF Injective
<1>8. FrontOut(f, s + n, w2)
  <2>1. PartOf(w2, m) = 1 .. s + n /\ s + n \in 0 .. MsgLen(m)
    BY <1>1, <1>4, <1>5, MsgTypes DEF FrontOut, m
  <2>2. ASSUME NEW i \in 2 .. Len(f) PROVE PartOf(w2, f[i]) = {}
    <3>0. i \in 1 .. Len(f)
      BY <1>2
    <3>1. f[i] \in Msgs /\ f[i] # m /\ PartOf(w, f[i]) = {}
      BY <1>1, <1>2, <1>7, <3>0 DEF FrontOut
    <3>2. QED
      BY <1>5, <3>1
  <2>3. QED
    BY <2>1, <2>2 DEF FrontOut, m
<1>9. NotQueuedNotOut(w2, q)
  BY <1>1, <1>4, <1>5 DEF NotQueuedNotOut
<1>10. Settled(w2, q, d, g)
  <2>1. \A i \in 1 .. g : q[i] \in Msgs
    BY <1>2, <1>4
  <2>2. QED
    BY <1>1, <1>5, <2>1 DEF Settled
<1>11. LastOut(f, s + n, w2)
  <2>1. CASE n = 0
    <3>1. w2 = w
      BY <2>1, <1>4, PieceSeq, ConcatEmptySeq, EmptySeq DEF w2, Piece
    <3>2. s + n = s
      BY <2>1
    <3>3. QED
      BY <1>1, <3>1, <3>2
  <2>2. CASE n > 0
    <3>1. Len(w2) = Len(w) + n /\ w2[Len(w) + n] = <<m, s + n>> /\ w2 # <<>>
      BY <1>6, <2>2
    <3>2. QED
      BY <3>1 DEF LastOut, m
  <2>3. QED
    BY <2>1, <2>2
<1>12. InOrder(w2, q, d)
  <2>1. \A i \in 1 .. ((g + 1) - 1) : q[i] \in Msgs
    BY <1>2, <1>4
  <2>2. (g + 1) - 1 = g
    BY <1>2
  <2>3. s > 0 => w # <<>> /\ w[Len(w)] = <<m, s>>
    BY <1>1 DEF LastOut, m
  <2>4. QED
    BY <1>1, <1>4, <2>1, <2>2, <2>3, InOrderLonger DEF w2
<1>13. QED
  BY <1>1, <1>8, <1>9, <1>10, <1>11, <1>12 DEF History, w2, m, g

\* The front message leaves when all of it is out.
LEMMA HistoryDone ==
    ASSUME NEW f \in Seq(Msgs), f # <<>>, NEW s \in Nat, NEW w \in Seq(Bytes),
           NEW q \in Seq(Msgs), NEW d, History(f, s, w, q, d), s = MsgLen(f[1])
    PROVE  History(Tail(f), 0, w, q, d)
<1> DEFINE g == Len(q) - Len(f)
           t == Tail(f)
<1>1. /\ Injective(q) /\ Newest(f, q) /\ FrontOut(f, s, w) /\ NotQueuedNotOut(w, q)
      /\ Settled(w, q, d, g) /\ InOrder(w, q, d)
  BY DEF History
<1>2. /\ g \in Nat /\ Len(f) \in Nat /\ Len(q) \in Nat
      /\ \A i \in 1 .. Len(f) : g + i \in 1 .. Len(q) /\ f[i] = q[g + i] /\ f[i] \in Msgs
  BY <1>1, NewestFacts
<1>3. /\ t \in Seq(Msgs) /\ Len(t) = Len(f) - 1 /\ Len(f) >= 1
      /\ \A i \in 1 .. Len(f) - 1 : t[i] = f[i + 1]
  BY <1>2, HeadTailProperties
<1> HIDE DEF t
<1>4. Len(q) - Len(t) = g + 1
  BY <1>2, <1>3
<1>5. Newest(t, q)
  <2>1. ASSUME NEW i \in 1 .. Len(t) PROVE t[i] = q[Len(q) - Len(t) + i]
    <3>1. i \in 1 .. Len(f) - 1 /\ i + 1 \in 1 .. Len(f) /\ g + (i + 1) = (g + 1) + i
      BY <1>2, <1>3
    <3>2. t[i] = q[g + (i + 1)]
      BY <1>2, <1>3, <3>1
    <3>3. QED
      BY <1>4, <3>1, <3>2
  <2>2. Len(t) <= Len(q)
    BY <1>2, <1>3
  <2>3. QED
    BY <2>1, <2>2 DEF Newest
<1>6. \A i \in 1 .. Len(t) : PartOf(w, t[i]) = {}
  <2>1. \A i \in 1 .. Len(t) : t[i] = f[i + 1] /\ i + 1 \in 2 .. Len(f)
    BY <1>2, <1>3
  <2>2. QED
    BY <1>1, <2>1 DEF FrontOut
<1>7. FrontOut(t, 0, w)
  <2>1. t # <<>> => 1 \in 1 .. Len(t) /\ t[1] \in Msgs
    BY <1>3
  <2>2. \A x \in Msgs : 0 \in 0 .. MsgLen(x)
    BY MsgTypes
  <2>3. 1 .. 0 = {} /\ \A i \in 2 .. Len(t) : i \in 1 .. Len(t)
    OBVIOUS
  <2>4. t # <<>> => 0 \in 0 .. MsgLen(t[1]) /\ PartOf(w, t[1]) = 1 .. 0
    BY <1>6, <2>1, <2>2, <2>3
  <2>5. \A i \in 2 .. Len(t) : PartOf(w, t[i]) = {}
    BY <1>6, <2>3
  <2>6. QED
    BY <2>4, <2>5 DEF FrontOut
<1>8. Settled(w, q, d, g + 1)
  <2>1. Whole(w, f[1])
    BY <1>1, WholePart DEF FrontOut
  <2>2. f[1] = q[g + 1]
    BY <1>2, <1>3
  <2> HIDE DEF g
  <2>3. \A i \in 1 .. g + 1 : i \in 1 .. g \/ i = g + 1
    BY <1>2
  <2>4. QED
    BY <1>1, <2>1, <2>2, <2>3 DEF Settled
<1>9. LastOut(t, 0, w)
  BY DEF LastOut
<1>10. QED
  BY <1>1, <1>4, <1>5, <1>7, <1>8, <1>9 DEF History, t

\* All of the queue is dropped, after as much of the front message as may be.
LEMMA HistoryGiveUp ==
    ASSUME NEW f \in Seq(Msgs), f # <<>>, NEW s \in Nat, NEW w \in Seq(Bytes),
           NEW q \in Seq(Msgs), NEW d, History(f, s, w, q, d),
           NEW n \in Nat, s + n <= MsgLen(f[1])
    PROVE  History(<<>>, 0, w \o Piece(f[1], s, n), q, d \cup Range(f))
<1> DEFINE g == Len(q) - Len(f)
           w2 == w \o Piece(f[1], s, n)
           d2 == d \cup Range(f)
<1>1. History(f, s + n, w2, q, d)
  BY HistorySend
<1>2. /\ Injective(q) /\ Newest(f, q) /\ NotQueuedNotOut(w2, q)
      /\ Settled(w2, q, d, g) /\ InOrder(w2, q, d)
  BY <1>1 DEF History
<1>3. /\ g \in Nat /\ Len(f) \in Nat /\ Len(q) \in Nat
      /\ \A i \in 1 .. Len(f) : g + i \in 1 .. Len(q) /\ f[i] = q[g + i] /\ f[i] \in Msgs
  BY <1>2, NewestFacts
<1>4. w2 \in Seq(Bytes)
  <2>1. f[1] \in Msgs
    BY <1>3
  <2>2. QED
    BY <2>1, Longer
<1> HIDE DEF w2
<1>5. Settled(w2, q, d2, Len(q))
  <2>1. ASSUME NEW i \in 1 .. Len(q), ~(i <= g) PROVE q[i] \in d2
    <3>1. i - g \in 1 .. Len(f) /\ g + (i - g) = i
      BY <1>3, <2>1
    <3>2. q[i] = f[i - g]
      BY <1>3, <3>1
    <3>3. q[i] \in Range(f)
      BY <3>1, <3>2 DEF Range
    <3>4. QED
      BY <3>3
  <2>2. \A i \in 1 .. Len(q) : i <= g => i \in 1 .. g
    BY <1>3
  <2>3. QED
    BY <1>2, <2>1, <2>2 DEF Settled
<1>6. InOrder(w2, q, d2)
  <2>1. \A j \in 1 .. Len(w2) : \A r : FirstOf(w2, q, d, j, r) => FirstOf(w2, q, d2, j, r)
    BY DEF FirstOf
  <2>2. QED
    BY <1>2, <2>1 DEF InOrder
<1>7. Newest(<<>>, q) /\ FrontOut(<<>>, 0, w2) /\ LastOut(<<>>, 0, w2) /\ Len(q) - Len(<<>>) = Len(q)
  BY <1>3 DEF Newest, FrontOut, LastOut
<1>8. QED
  BY <1>2, <1>5, <1>6, <1>7 DEF History, w2

\* A message is queued that was not before.
LEMMA HistoryQueue ==
    ASSUME NEW f \in Seq(Msgs), NEW s \in Nat, NEW w \in Seq(Bytes),
           NEW q \in Seq(Msgs), NEW d, History(f, s, w, q, d),
           NEW m \in Msgs, m \notin Range(q)
    PROVE  History(Append(f, m), s, w, Append(q, m), d)
<1> DEFINE f2 == Append(f, m)
           q2 == Append(q, m)
           g == Len(q) - Len(f)
<1>1. /\ Injective(q) /\ Newest(f, q) /\ FrontOut(f, s, w) /\ NotQueuedNotOut(w, q)
      /\ Settled(w, q, d, g) /\ LastOut(f, s, w) /\ InOrder(w, q, d)
  BY DEF History
<1>2. /\ g \in Nat /\ Len(f) \in Nat /\ Len(q) \in Nat
      /\ \A i \in 1 .. Len(f) : g + i \in 1 .. Len(q) /\ f[i] = q[g + i] /\ f[i] \in Msgs
  BY <1>1, NewestFacts
<1>3. /\ f2 \in Seq(Msgs) /\ Len(f2) = Len(f) + 1 /\ f2[Len(f) + 1] = m
      /\ \A i \in 1 .. Len(f) : f2[i] = f[i]
      /\ q2 \in Seq(Msgs) /\ Len(q2) = Len(q) + 1 /\ q2[Len(q) + 1] = m
      /\ \A i \in 1 .. Len(q) : q2[i] = q[i]
  OBVIOUS
<1> HIDE DEF f2, q2
<1>4. Len(q2) - Len(f2) = g
  BY <1>2, <1>3
<1>5. Injective(q2)
  <2> SUFFICES ASSUME NEW i \in 1 .. Len(q2), NEW j \in 1 .. Len(q2), q2[i] = q2[j]
               PROVE  i = j
    BY DEF Injective
  <2>1. \A k \in 1 .. Len(q) : q[k] # m
    BY DEF Range
  <2>2. \A k \in 1 .. Len(q2) : k \in 1 .. Len(q) \/ k = Len(q) + 1
    BY <1>2, <1>3
  <2>3. CASE i \in 1 .. Len(q) /\ j \in 1 .. Len(q)
    BY <1>1, <1>3, <2>3 DEF Injective
  <2>4. CASE i = Len(q) + 1 \/ j = Len(q) + 1
    BY <1>3, <2>1, <2>2, <2>4
  <2>5. QED
    BY <2>2, <2>3, <2>4
<1>6. Newest(f2, q2)
  <2>1. ASSUME NEW i \in 1 .. Len(f2) PROVE f2[i] = q2[g + i]
    <3>1. CASE i \in 1 .. Len(f)
      BY <1>2, <1>3, <3>1
    <3>2. CASE i = Len(f) + 1
      BY <1>2, <1>3, <3>2
    <3>3. QED
      BY <1>2, <1>3, <3>1, <3>2
  <2>2. QED
    BY <1>2, <1>3, <1>4, <2>1 DEF Newest
<1>7. PartOf(w, m) = {}
  BY <1>1 DEF NotQueuedNotOut
<1>8. FrontOut(f2, s, w)
  <2>1. CASE f = <<>>
    <3>0. s = 0 /\ Len(f) = 0
      BY <1>1, <2>1 DEF FrontOut
    <3>1. /\ s = 0 /\ Len(f2) = 1 /\ f2[1] = m
          /\ f2 # <<>>
      <4>1. Len(f2) = 1 /\ f2[1] = m
        BY <1>3, <3>0
      <4>2. f2 # <<>>
        BY <1>3, <4>1
      <4>3. QED
        BY <3>0, <4>1, <4>2
    <3>2. PartOf(w, f2[1]) = 1 .. s /\ s \in 0 .. MsgLen(f2[1])
      BY <1>7, <3>1, MsgTypes
    <3>3. 2 .. Len(f2) = {}
      BY <3>1
    <3>4. QED
      BY <3>1, <3>2, <3>3 DEF FrontOut
  <2>2. CASE f # <<>>
    <3>1. Len(f) >= 1 /\ f2[1] = f[1] /\ f2 # <<>>
      BY <1>2, <1>3, <2>2
    <3>2. \A i \in 2 .. Len(f2) : i \in 2 .. Len(f) \/ i = Len(f) + 1
      BY <1>2, <1>3
    <3>3. \A i \in 2 .. Len(f2) : PartOf(w, f2[i]) = {}
      <4> TAKE i \in 2 .. Len(f2)
      <4>1. CASE i \in 2 .. Len(f)
        <5>1. f2[i] = f[i]
          BY <1>3, <4>1
        <5>2. QED
          BY <1>1, <4>1, <5>1 DEF FrontOut
      <4>2. CASE i = Len(f) + 1
        BY <1>3, <1>7, <4>2
      <4>3. QED
        BY <3>2, <4>1, <4>2
    <3>4. QED
      BY <1>1, <2>2, <3>1, <3>3 DEF FrontOut
  <2>3. QED
    BY <2>1, <2>2
<1>9. Range(q) \subseteq Range(q2)
  <2>1. \A i \in 1 .. Len(q) : i \in 1 .. Len(q2) /\ q2[i] = q[i]
    BY <1>2, <1>3
  <2>2. DOMAIN q = 1 .. Len(q) /\ DOMAIN q2 = 1 .. Len(q2)
    BY <1>3
  <2>3. QED
    BY <2>1, <2>2 DEF Range
<1>10. NotQueuedNotOut(w, q2)
  BY <1>1, <1>9 DEF NotQueuedNotOut
<1>11. Settled(w, q2, d, g)
  <2>1. \A i \in 1 .. g : q2[i] = q[i]
    BY <1>2, <1>3
  <2>2. QED
    BY <1>1, <2>1 DEF Settled
<1>12. LastOut(f2, s, w)
  <2>1. s > 0 => f # <<>>
    BY <1>1 DEF FrontOut
  <2>2. f # <<>> => f2[1] = f[1]
    BY <1>2, <1>3
  <2>3. QED
    BY <1>1, <2>1, <2>2 DEF LastOut
<1>13. InOrder(w, q2, d)
  <2>1. ASSUME NEW j \in 1 .. Len(w), NEW r \in 1 .. Len(q), FirstOf(w, q, d, j, r)
        PROVE  r \in 1 .. Len(q2) /\ FirstOf(w, q2, d, j, r)
    <3>1. r \in 1 .. Len(q2) /\ q2[r] = q[r] /\ \A i \in 1 .. (r - 1) : q2[i] = q[i]
      BY <1>2, <1>3
    <3>2. QED
      BY <2>1, <3>1 DEF FirstOf
  <2>2. QED
    BY <1>1, <2>1 DEF InOrder
<1>14. QED
  BY <1>1, <1>4, <1>5, <1>6, <1>8, <1>10, <1>11, <1>12, <1>13 DEF History, f2, q2

-----------------------------------------------------------------------------
(* The inductive invariant *)

\* The header goes out before the first byte of a file does.
FrontInv ==
    wpending # <<>> =>
        LET m == NextOut.msg IN
        /\ NextOut.buf_offset \in 0 .. BufLen(m)
        /\ NextOut.file_offset \in 0 .. MsgLen(m) - BufLen(m)
        /\ NextOut.buf_offset < BufLen(m) => NextOut.file_offset = 0

\* Only the front message is begun.
RestInv ==
    \A i \in 2 .. Len(wpending) : wpending[i].buf_offset = 0 /\ wpending[i].file_offset = 0

\* A file that is open was opened for its message, which is the front one if
\* it is still in the queue, and is read up to where it is sent.
DescInv ==
    \A m \in Msgs : storage[m] = "DISC" /\ desc[file[m]].open =>
        /\ m \in Range(queued)
        /\ m \in Range(Fifo) => /\ m = NextOut.msg
                                /\ NextOut.buf_offset = hdr_len[m]
                                /\ desc[file[m]].pos = NextOut.file_offset

\* What holds of the session when its thread is at `where': what was checked
\* without the lock is still so.
At(where) ==
    /\ where \notin {"idle", "check"} => ~error
    /\ where \in {"write", "popcall", "pop"} => wpending # <<>>
    /\ where \in {"popcall", "pop"} => SentOfFront = MsgLen(NextOut.msg)
    /\ where \in {"file", "chunk"} => NextOut.buf_offset = hdr_len[NextOut.msg]
    /\ where = "chunk" => desc[Head(wfiles)].open

ControlInv == ~ub /\ \A t \in Threads : At(pc[t])

LoopInv == FrontInv /\ RestInv /\ DescInv /\ ControlInv

Sofar == History(Fifo, SentOfFront, wire, queued, dropped)

\* What a step does to the queue, as MsgQueue sees it.
Still == UNCHANGED <<Fifo, SentOfFront, wire, queued, dropped>>

Queues(m) ==
    /\ m \notin Range(queued)
    /\ queued' = Append(queued, m)
    /\ Fifo' = Append(Fifo, m)
    /\ UNCHANGED <<SentOfFront, wire, dropped>>

Out(n) ==
    /\ SentOfFront + n <= MsgLen(Fifo[1])
    /\ wire' = wire \o Piece(Fifo[1], SentOfFront, n)
    /\ UNCHANGED queued

Sends(n) ==
    /\ Out(n)
    /\ SentOfFront' = SentOfFront + n
    /\ UNCHANGED <<Fifo, dropped>>

GivesUp(n) ==
    /\ Out(n)
    /\ Fifo' = <<>> /\ SentOfFront' = 0
    /\ dropped' = dropped \cup Range(Fifo)

Finishes ==
    /\ SentOfFront = MsgLen(Fifo[1])
    /\ Fifo' = Tail(Fifo) /\ SentOfFront' = 0
    /\ UNCHANGED <<wire, queued, dropped>>

Effect ==
    \/ Still
    \/ \E m \in Msgs : Queues(m)
    \/ Fifo # <<>> /\ ((\E n \in Nat : Sends(n) \/ GivesUp(n)) \/ Finishes)

LEMMA FifoTypes ==
    ASSUME TypeOK
    PROVE  /\ Fifo \in Seq(Msgs) /\ Len(Fifo) = Len(wpending)
           /\ \A i \in 1 .. Len(wpending) : Fifo[i] = wpending[i].msg
           /\ Fifo = <<>> <=> wpending = <<>>
           /\ wpending # <<>> => Fifo[1] = NextOut.msg /\ Head(Fifo) = NextOut.msg
<1>1. wpending \in Seq(MsgInfos)
  BY DEF TypeOK
<1>2. \A i \in 1 .. Len(wpending) : wpending[i].msg \in Msgs
  BY PendingMsgs
<1>3. Fifo = [i \in 1 .. Len(wpending) |-> wpending[i].msg]
  BY <1>1 DEF Fifo
<1>4. Fifo \in Seq(Msgs) /\ Len(Fifo) = Len(wpending)
  <2>1. Len(wpending) \in Nat
    BY <1>1
  <2>2. QED
    BY <1>2, <1>3, <2>1
<1>5. \A i \in 1 .. Len(wpending) : Fifo[i] = wpending[i].msg
  BY <1>3
<1>6. Fifo = <<>> <=> wpending = <<>>
  BY <1>1, <1>4
<1>7. ASSUME wpending # <<>> PROVE Fifo[1] = NextOut.msg /\ Head(Fifo) = NextOut.msg
  <2>1. 1 \in 1 .. Len(wpending) /\ NextOut = wpending[1]
    BY <1>1, <1>7 DEF NextOut
  <2>2. Fifo[1] = NextOut.msg
    BY <1>5, <2>1
  <2>3. Head(Fifo) = Fifo[1]
    BY <1>4, <1>6, <1>7
  <2>4. QED
    BY <2>2, <2>3
<1>8. QED
  BY <1>4, <1>5, <1>6, <1>7

\* How much of the front message is out.
LEMMA SentOfFrontTypes ==
    ASSUME TypeOK, FrontInv
    PROVE  /\ SentOfFront \in Nat
           /\ wpending # <<>> => /\ SentOfFront = NextOut.buf_offset + NextOut.file_offset
                                 /\ SentOfFront \in 0 .. MsgLen(NextOut.msg)
<1>1. CASE wpending = <<>>
  BY <1>1 DEF SentOfFront
<1>2. CASE wpending # <<>>
  <2>1. NextOut.msg \in Msgs /\ NextOut.buf_offset \in Int /\ NextOut.file_offset \in Int
    BY <1>2, FrontTypes
  <2>2. BufLen(NextOut.msg) \in Nat /\ MsgLen(NextOut.msg) \in Nat
    BY <2>1, MsgTypes
  <2>3. SentOfFront = NextOut.buf_offset + NextOut.file_offset
    BY <1>2 DEF SentOfFront
  <2>4. /\ NextOut.buf_offset \in 0 .. BufLen(NextOut.msg)
        /\ NextOut.file_offset \in 0 .. MsgLen(NextOut.msg) - BufLen(NextOut.msg)
    BY <1>2 DEF FrontInv
  <2>5. QED
    BY <1>2, <2>1, <2>2, <2>3, <2>4
<1>3. QED
  BY <1>1, <1>2

\* The queue is part of what was queued, and its messages differ.
LEMMA FifoQueued ==
    ASSUME TypeOK, Sofar
    PROVE  /\ Range(Fifo) \subseteq Range(queued)
           /\ \A i, j \in 1 .. Len(Fifo) : Fifo[i] = Fifo[j] => i = j
<1>1. Fifo \in Seq(Msgs) /\ queued \in Seq(Msgs) /\ Injective(queued) /\ Newest(Fifo, queued)
  BY FifoTypes DEF Sofar, History, TypeOK
<1> DEFINE f == Fifo
           q == queued
           g == Len(q) - Len(f)
<1>2. /\ g \in Nat /\ Len(f) \in Nat /\ Len(q) \in Nat
      /\ \A i \in 1 .. Len(f) : g + i \in 1 .. Len(q) /\ f[i] = q[g + i] /\ f[i] \in Range(q)
  BY <1>1, NewestFacts
<1>3. DOMAIN f = 1 .. Len(f)
  BY <1>1
<1> HIDE DEF f, q, g
<1>4. Range(f) \subseteq Range(q)
  <2>1. \A x \in Range(f) : \E i \in 1 .. Len(f) : x = f[i]
    BY <1>3 DEF Range
  <2>2. QED
    BY <1>2, <2>1
<1>5. ASSUME NEW i \in 1 .. Len(f), NEW j \in 1 .. Len(f), f[i] = f[j] PROVE i = j
  <2>1. q[g + i] = q[g + j] /\ g + i \in 1 .. Len(q) /\ g + j \in 1 .. Len(q)
    BY <1>2, <1>5
  <2>2. g + i = g + j
    BY <1>1, <2>1 DEF Injective, q
  <2>3. QED
    BY <1>2, <2>2
<1>6. QED
  BY <1>4, <1>5 DEF f, q

\* An effect keeps the history right.
LEMMA SofarStep ==
    ASSUME TypeOK, FrontInv, Sofar, Effect
    PROVE  Sofar'
<1> DEFINE f == Fifo
           s == SentOfFront
<1>1. /\ f \in Seq(Msgs) /\ s \in Nat /\ wire \in Seq(Bytes) /\ queued \in Seq(Msgs)
      /\ History(f, s, wire, queued, dropped)
  BY FifoTypes, SentOfFrontTypes DEF TypeOK, Sofar
<1> HIDE DEF f, s
<1>2. CASE Still
  BY <1>2 DEF Still, Sofar
<1>3. ASSUME NEW m \in Msgs, Queues(m) PROVE Sofar'
  <2>1. History(Append(f, m), s, wire, Append(queued, m), dropped)
    BY <1>1, <1>3, HistoryQueue DEF Queues
  <2>2. QED
    BY <1>3, <2>1 DEF Queues, Sofar, f, s
<1>4. ASSUME NEW n \in Nat, f # <<>>, Sends(n) PROVE Sofar'
  <2>1. s + n <= MsgLen(f[1])
    BY <1>4 DEF Sends, Out, f, s
  <2>2. History(f, s + n, wire \o Piece(f[1], s, n), queued, dropped)
    BY <1>1, <1>4, <2>1, HistorySend
  <2>3. QED
    BY <1>4, <2>2 DEF Sends, Out, Sofar, f, s
<1>5. ASSUME NEW n \in Nat, f # <<>>, GivesUp(n) PROVE Sofar'
  <2>1. s + n <= MsgLen(f[1])
    BY <1>5 DEF GivesUp, Out, f, s
  <2>2. History(<<>>, 0, wire \o Piece(f[1], s, n), queued, dropped \cup Range(f))
    BY <1>1, <1>5, <2>1, HistoryGiveUp
  <2>3. QED
    BY <1>5, <2>2 DEF GivesUp, Out, Sofar, f, s
<1>6. ASSUME f # <<>>, Finishes PROVE Sofar'
  <2>1. s = MsgLen(f[1])
    BY <1>6 DEF Finishes, f, s
  <2>2. History(Tail(f), 0, wire, queued, dropped)
    BY <1>1, <1>6, <2>1, HistoryDone
  <2>3. QED
    BY <1>6, <2>2 DEF Finishes, Sofar, f, s
<1>7. QED
  BY <1>2, <1>3, <1>4, <1>5, <1>6 DEF Effect, f

-----------------------------------------------------------------------------
(* The parts of the steps *)

\* What such a transport does: it sends all it was given, part of it if no
\* file is involved, or raises an event.
LEMMA ResultsHere ==
    ASSUME OneLoop, NEW len \in Nat, NEW r \in SSLConn_Write(len)
    PROVE  /\ r.sent \in 0 .. len /\ r.err \in BOOLEAN
           /\ ~r.err => r.n = r.sent
           /\ ~r.err /\ (\E m \in Msgs : storage[m] = "DISC") => r.n = len
<1>1. r \in TCPConn_Write(len) /\ Transport \in {"tcp_blocking", "tcp_nonblocking"}
  BY DEF OneLoop, SSLConn_Write
<1>2. (\E m \in Msgs : storage[m] = "DISC") => Transport = "tcp_blocking"
  BY DEF OneLoop
<1>3. CASE \E s \in 0 .. (len - 1) : r = Result(0, s, TRUE, FALSE)
  BY <1>3 DEF Result
<1>4. CASE Transport = "tcp_nonblocking" /\ \E s \in 0 .. len : r = Result(s, s, FALSE, FALSE)
  BY <1>2, <1>4 DEF Result
<1>5. CASE r = Result(len, len, FALSE, FALSE)
  BY <1>5 DEF Result
<1>6. QED
  BY <1>1, <1>3, <1>4, <1>5 DEF TCPConn_Write

\* The front message is in front in wbuf, too.
LEMMA FrontBytes ==
    ASSUME IInv, wpending # <<>>, NEW o \in Nat, NEW n \in Nat, o + n <= BufLen(NextOut.msg)
    PROVE  WbufBytes(o, n) = Piece(NextOut.msg, o, n)
<1> DEFINE m == NextOut.msg
<1>1. TypeOK /\ BufferLinked /\ FilesLinked
  BY DEF IInv, QueueInv
<1>2. m \in Msgs /\ NextOut = wpending[1] /\ BufLen(m) \in Nat
  BY <1>1, FrontTypes, MsgTypes
<1>3. BufParts \in Seq(Seq(Bytes)) /\ Len(BufParts) = Len(wpending) /\ wbuf \in Seq(Bytes)
  BY <1>1, PartsTypes DEF TypeOK
<1>4. wpending \in Seq(MsgInfos) /\ 1 \in 1 .. Len(wpending)
  BY <1>1 DEF TypeOK
<1>5. BufParts[1] = BufPart(m)
  BY <1>2, <1>4 DEF BufParts
<1>6. BufParts # <<>> /\ Head(BufParts) = BufPart(m)
  BY <1>3, <1>4, <1>5
<1>7. /\ Len(BufPart(m)) \in 0 .. Len(wbuf)
      /\ \A k \in 1 .. Len(BufPart(m)) : wbuf[k] = BufPart(m)[k]
  BY <1>1, <1>3, <1>6, ConcatenatedTail DEF BufferLinked
<1>8. Len(BufPart(m)) = BufLen(m)
  BY <1>2, BufPartTypes
<1> HIDE DEF m
<1>9. \A k \in 1 .. BufLen(m) : k \in 1 .. Len(wbuf) /\ wbuf[k] = <<m, k>>
  <2> TAKE k \in 1 .. BufLen(m)
  <2>1. k \in 1 .. Len(wbuf) /\ wbuf[k] = BufPart(m)[k]
    BY <1>2, <1>3, <1>7, <1>8
  <2>2. BufPart(m)[k] = <<m, k>>
    BY DEF BufPart
  <2>3. QED
    BY <2>1, <2>2
<1>10. \A k \in 1 .. n : o + k \in 1 .. BufLen(m)
  BY <1>2 DEF m
<1>11. \A k \in 1 .. n : (IF o + k \in 1 .. Len(wbuf) THEN wbuf[o + k] ELSE Garbage) = <<m, o + k>>
  BY <1>9, <1>10
<1>12. QED
  BY <1>11 DEF WbufBytes, Piece, m

\* The front message's offsets grow, the rest of the queue is as it was.
LEMMA AdvanceEffect ==
    ASSUME TypeOK, wpending # <<>>, NEW b \in Int, NEW f \in Int, Advance(b, f)
    PROVE  /\ NextOut' = MsgInfo(NextOut.msg, NextOut.buf_offset + b, NextOut.file_offset + f)
           /\ wpending' # <<>> /\ Len(wpending') = Len(wpending)
           /\ \A i \in 2 .. Len(wpending) : wpending'[i] = wpending[i]
           /\ Fifo' = Fifo
           /\ SentOfFront' = (NextOut.buf_offset + b) + (NextOut.file_offset + f)
           /\ UNCHANGED <<wfiles, error, queued, dropped, ub>>
<1>1. wpending \in Seq(MsgInfos) /\ 1 \in 1 .. Len(wpending) /\ NextOut = wpending[1]
  BY FrontTypes DEF TypeOK
<1> DEFINE x == MsgInfo(NextOut.msg, NextOut.buf_offset + b, NextOut.file_offset + f)
<1>2. wpending' = [wpending EXCEPT ![1] = x]
  BY <1>1 DEF Advance
<1>3. /\ wpending' \in Seq(MsgInfos) /\ Len(wpending') = Len(wpending)
      /\ \A i \in 1 .. Len(wpending) : wpending'[i].msg = wpending[i].msg
  BY AdvanceTypes
<1> HIDE DEF x
<1>4. wpending'[1] = x /\ \A i \in 2 .. Len(wpending) : wpending'[i] = wpending[i]
  BY <1>1, <1>2
<1>5. wpending' # <<>>
  BY <1>1, <1>3
<1>6. NextOut' = x
  BY <1>3, <1>4, <1>5 DEF NextOut
<1>7. DOMAIN wpending' = 1 .. Len(wpending) /\ DOMAIN wpending = 1 .. Len(wpending)
  BY <1>1, <1>3
<1>8. Fifo' = Fifo
  BY <1>3, <1>7 DEF Fifo
<1>9. SentOfFront' = (NextOut.buf_offset + b) + (NextOut.file_offset + f)
  <2>1. SentOfFront' = NextOut'.buf_offset + NextOut'.file_offset
    BY <1>5 DEF SentOfFront
  <2>2. QED
    BY <1>6, <2>1 DEF x, MsgInfo
<1>10. QED
  BY <1>3, <1>4, <1>5, <1>6, <1>8, <1>9 DEF Advance, x

\* All that was queued is given up.
LEMMA ResetEffect ==
    ASSUME TypeOK, NEW own, NEW d, ResetWbuf(own, d)
    PROVE  /\ wpending' = <<>> /\ Fifo' = <<>> /\ SentOfFront' = 0
           /\ dropped' = dropped \cup Range(Fifo)
           /\ queued' = queued /\ ub' = ub
           /\ \A g \in Files : desc'[g].open => d[g].open
<1>1. wpending \in Seq(MsgInfos) /\ DOMAIN wpending = 1 .. Len(wpending)
  BY DEF TypeOK
<1>2. {p.msg : p \in Range(wpending)} = Range(Fifo)
  BY DEF Range, Fifo
<1>3. wpending' = <<>> /\ Fifo' = <<>> /\ SentOfFront' = 0
  BY DEF ResetWbuf, Fifo, SentOfFront
<1>4. \A g \in Files : desc'[g].open => d[g].open
  BY DEF ResetWbuf, ClosedDesc
<1>5. QED
  BY <1>2, <1>3, <1>4 DEF ResetWbuf

\* The thread goes where what must hold there does.
LEMMA ControlStep ==
    ASSUME OneLoop, TypeOK, NEW t \in Threads, NEW where, Goto(t, where),
           ~ub', At(where)'
    PROVE  ControlInv'
<1>1. pc'[t] = where
  BY DEF Goto, TypeOK
<1>2. \A u \in Threads : u = t
  BY DEF OneLoop
<1>3. \A u \in Threads : At(pc[u])'
  BY <1>1, <1>2
<1>4. QED
  BY <1>3 DEF ControlInv

\* Nothing of the queue or the files changes, and the event is not set.
LEMMA QuietStep ==
    ASSUME LoopInv, UNCHANGED <<wpending, wfiles, desc, wire, queued, dropped>>
    PROVE  /\ Still /\ (FrontInv /\ RestInv /\ DescInv)'
           /\ NextOut' = NextOut /\ SentOfFront' = SentOfFront
<1>1. NextOut' = NextOut /\ Fifo' = Fifo /\ SentOfFront' = SentOfFront
  BY DEF NextOut, Fifo, SentOfFront
<1>2. FrontInv' /\ RestInv' /\ DescInv'
  BY <1>1 DEF LoopInv, FrontInv, RestInv, DescInv
<1>3. QED
  BY <1>1, <1>2 DEF Still

LEMMA EmptyRange ==
    ASSUME NEW s, s = <<>>
    PROVE  Len(s) = 0 /\ DOMAIN s = {} /\ \A x : x \notin Range(s)
<1>1. s \in Seq({}) /\ Len(s) = 0
  OBVIOUS
<1>2. DOMAIN s = {}
  BY <1>1
<1>3. QED
  BY <1>1, <1>2 DEF Range

\* After ResetWbuf nothing is begun, and of the files only those of messages
\* that were queued can be open.
LEMMA ResetLoop ==
    ASSUME OneLoop, TypeOK, LoopInv, NEW t \in Threads, Goto(t, "check"),
           NEW d, ResetWbuf(TRUE, d),
           \A m \in Msgs : storage[m] = "DISC" /\ d[file[m]].open => m \in Range(queued)
    PROVE  LoopInv'
<1>1. /\ wpending' = <<>> /\ Fifo' = <<>> /\ queued' = queued /\ ub' = ub
      /\ \A g \in Files : desc'[g].open => d[g].open
  BY ResetEffect
<1>2. FrontInv' /\ RestInv'
  BY <1>1 DEF FrontInv, RestInv
<1>3. DescInv'
  <2>1. \A m : m \notin Range(Fifo')
    BY <1>1, EmptyRange
  <2>2. QED
    BY <1>1, <2>1, MsgTypes DEF DescInv
<1>4. ControlInv'
  <2>1. At("check")'
    BY DEF At
  <2>2. QED
    BY <1>1, <2>1, ControlStep DEF LoopInv, ControlInv
<1>5. QED
  BY <1>2, <1>3, <1>4 DEF LoopInv

\* A piece of no bytes.
LEMMA NoPiece ==
    ASSUME NEW w \in Seq(Bytes), NEW m \in Msgs, NEW s \in Nat
    PROVE  w \o Piece(m, s, 0) = w
BY PieceSeq, ConcatEmptySeq, EmptySeq

\* A step that gives up the queue after n more bytes, as MsgQueue sees it.
LEMMA ResetGivesUp ==
    ASSUME TypeOK, wpending # <<>>, NEW own, NEW d, ResetWbuf(own, d),
           NEW n \in Nat, SentOfFront + n <= MsgLen(NextOut.msg),
           wire' = wire \o Piece(NextOut.msg, SentOfFront, n)
    PROVE  Effect
<1>1. Fifo # <<>> /\ Fifo[1] = NextOut.msg
  BY FifoTypes
<1>2. /\ Fifo' = <<>> /\ SentOfFront' = 0 /\ dropped' = dropped \cup Range(Fifo)
      /\ queued' = queued
  BY ResetEffect
<1>3. GivesUp(n)
  BY <1>1, <1>2 DEF GivesUp, Out
<1>4. QED
  BY <1>1, <1>3 DEF Effect

\* A step after which n more bytes of the front message are out.
LEMMA AdvanceSends ==
    ASSUME TypeOK, wpending # <<>>, NEW b \in Nat, NEW f \in Nat, Advance(b, f),
           NEW n \in Nat, n = b + f, SentOfFront + n <= MsgLen(NextOut.msg),
           wire' = wire \o Piece(NextOut.msg, SentOfFront, n)
    PROVE  Effect
<1>1. Fifo # <<>> /\ Fifo[1] = NextOut.msg
  BY FifoTypes
<1>2. /\ Fifo' = Fifo /\ queued' = queued /\ dropped' = dropped
      /\ SentOfFront' = (NextOut.buf_offset + b) + (NextOut.file_offset + f)
  BY AdvanceEffect
<1>3. SentOfFront' = SentOfFront + n
  <2>1. NextOut.buf_offset \in Int /\ NextOut.file_offset \in Int
    BY FrontTypes
  <2>2. SentOfFront = NextOut.buf_offset + NextOut.file_offset
    BY DEF SentOfFront
  <2>3. QED
    BY <1>2, <2>1, <2>2
<1>4. Sends(n)
  BY <1>1, <1>2, <1>3 DEF Sends, Out
<1>5. QED
  BY <1>1, <1>4 DEF Effect

\* The offsets stay in step.
LEMMA AdvanceLoop ==
    ASSUME TypeOK, LoopInv, wpending # <<>>, NEW b \in Nat, NEW f \in Nat, Advance(b, f),
           NextOut.buf_offset + b <= BufLen(NextOut.msg),
           NextOut.file_offset + f <= MsgLen(NextOut.msg) - BufLen(NextOut.msg),
           NextOut.buf_offset + b < BufLen(NextOut.msg) => f = 0
    PROVE  FrontInv' /\ RestInv'
<1> DEFINE m == NextOut.msg
           bo == NextOut.buf_offset
           fo == NextOut.file_offset
<1>1. m \in Msgs /\ BufLen(m) \in Nat /\ MsgLen(m) \in Nat
  BY FrontTypes, MsgTypes
<1>2. /\ NextOut' = MsgInfo(m, bo + b, fo + f)
      /\ Len(wpending') = Len(wpending)
      /\ \A i \in 2 .. Len(wpending) : wpending'[i] = wpending[i]
  BY AdvanceEffect, FrontTypes
<1>3. bo \in 0 .. BufLen(m) /\ fo \in 0 .. MsgLen(m) - BufLen(m) /\ (bo < BufLen(m) => fo = 0)
  BY DEF LoopInv, FrontInv
<1>4. NextOut'.msg = m /\ NextOut'.buf_offset = bo + b /\ NextOut'.file_offset = fo + f
  BY <1>2 DEF MsgInfo
<1> HIDE DEF m, bo, fo
<1>5. /\ bo + b \in 0 .. BufLen(m) /\ fo + f \in 0 .. MsgLen(m) - BufLen(m)
      /\ bo + b < BufLen(m) => fo + f = 0
  BY <1>1, <1>3 DEF m, bo, fo
<1>6. FrontInv'
  <2>1. BufLen(NextOut.msg)' = BufLen(m) /\ MsgLen(NextOut.msg)' = MsgLen(m)
    BY <1>4 DEF BufLen, MsgLen
  <2>2. QED
    BY <1>4, <1>5, <2>1 DEF FrontInv
<1>7. RestInv'
  BY <1>2 DEF LoopInv, RestInv
<1>8. QED
  BY <1>6, <1>7

\* Of a message with its body in wbuf_, and of the header of one without.
LEMMA Storages ==
    ASSUME NEW m \in Msgs
    PROVE  /\ storage[m] = "MEM" => BufLen(m) = MsgLen(m)
           /\ storage[m] = "DISC" => BufLen(m) = hdr_len[m] /\ MsgLen(m) - BufLen(m) = body_len[m]
BY MsgTypes DEF BufLen, MsgLen

-----------------------------------------------------------------------------
(* The steps *)

LEMMA LoopTests ==
    ASSUME OneLoop, IInv, LoopInv, NEW t \in Threads,
           \/ AddReject(t) \/ AddCall(t) \/ AddLock(t) \/ AddNoMemory(t)
           \/ WriteReject(t) \/ WriteCall(t) \/ PopCall(t) \/ ClearError(t)
           \/ \E m \in Requests : DeleteWhdr(t, m)
    PROVE  Effect /\ LoopInv'
<1>1. TypeOK /\ At(pc[t]) /\ ~ub
  BY DEF IInv, LoopInv, ControlInv
<1>2. UNCHANGED <<wpending, wfiles, desc, wire, queued, dropped, ub>>
  BY DEF AddReject, AddCall, AddLock, AddNoMemory, AddReturn, WriteReject, WriteCall,
         PopCall, ClearError, DeleteWhdr, queueVars, ioVars
<1>3. /\ Still /\ (FrontInv /\ RestInv /\ DescInv)'
      /\ NextOut' = NextOut /\ SentOfFront' = SentOfFront
  BY <1>2, QuietStep
<1>4. ControlInv'
  <2>1. CASE \/ AddReject(t) \/ WriteReject(t) \/ ClearError(t)
             \/ \E m \in Requests : DeleteWhdr(t, m)
    <3>1. pc' = pc /\ pc[t] = "idle"
      BY <2>1 DEF AddReject, WriteReject, ClearError, DeleteWhdr, Ready
    <3>2. \A u \in Threads : u = t
      BY DEF OneLoop
    <3>3. \A u \in Threads : At(pc[u])'
      BY <3>1, <3>2 DEF At
    <3>4. QED
      BY <1>1, <1>2, <3>3 DEF ControlInv
  <2>2. CASE AddCall(t)
    <3>1. Goto(t, "addwait") /\ ~error'
      BY <2>2 DEF AddCall, Ready
    <3>2. At("addwait")'
      BY <3>1 DEF At
    <3>3. QED
      BY <1>1, <1>2, <3>1, <3>2, ControlStep
  <2>3. CASE AddLock(t)
    <3>1. Goto(t, "add") /\ pc[t] = "addwait" /\ error' = error
      BY <2>3 DEF AddLock, Unlocked
    <3>2. At("add")'
      BY <1>1, <3>1 DEF At
    <3>3. QED
      BY <1>1, <1>2, <3>1, <3>2, ControlStep
  <2>4. CASE AddNoMemory(t)
    <3>1. Goto(t, "idle")
      BY <2>4 DEF AddNoMemory, AddReturn
    <3>2. At("idle")'
      BY DEF At
    <3>3. QED
      BY <1>1, <1>2, <3>1, <3>2, ControlStep
  <2>5. CASE WriteCall(t)
    <3>1. Goto(t, "write") /\ ~error' /\ wpending # <<>>
      BY <2>5 DEF WriteCall, Ready
    <3>2. At("write")'
      BY <1>2, <3>1 DEF At
    <3>3. QED
      BY <1>1, <1>2, <3>1, <3>2, ControlStep
  <2>6. CASE PopCall(t)
    <3>1. pc[t] = "popcall"
      BY <2>6 DEF PopCall
    <3>2. CASE wpending = <<>>
      <4>1. Goto(t, "idle")
        BY <2>6, <3>2 DEF PopCall
      <4>2. At("idle")'
        BY DEF At
      <4>3. QED
        BY <1>1, <1>2, <4>1, <4>2, ControlStep
    <3>3. CASE wpending # <<>>
      <4>1. Goto(t, "pop") /\ error' = error
        BY <2>6, <3>3 DEF PopCall
      <4>2. At("pop")'
        BY <1>1, <1>2, <1>3, <3>1, <4>1 DEF At
      <4>3. QED
        BY <1>1, <1>2, <4>1, <4>2, ControlStep
    <3>4. QED
      BY <3>2, <3>3
  <2>7. QED
    BY <2>1, <2>2, <2>3, <2>4, <2>5, <2>6
<1>5. QED
  BY <1>3, <1>4 DEF Effect, LoopInv

\* A message is added at the end of the queue.
LEMMA LoopAddMsg ==
    ASSUME OneLoop, IInv, LoopInv, Sofar, NEW t \in Threads, NEW m \in Msgs,
           AddMsgBuf(t, m) \/ AddMsgFile(t, m)
    PROVE  Effect /\ LoopInv'
<1>1. /\ TypeOK /\ ~ub
      /\ wpending \in Seq(MsgInfos) /\ queued \in Seq(Msgs) /\ Len(wpending) \in Nat
  BY DEF IInv, LoopInv, ControlInv, TypeOK
<1>2. /\ m \notin Range(queued)
      /\ wpending' = Append(wpending, MsgInfo(m, 0, 0))
      /\ queued' = Append(queued, m)
      /\ Goto(t, "idle")
      /\ UNCHANGED <<desc, wire, dropped, ub>>
  BY DEF AddMsgBuf, AddMsgFile, AddMsg, AddReturn, ioVars
<1>3. MsgInfo(m, 0, 0) \in MsgInfos /\ MsgInfo(m, 0, 0).msg = m
  BY MsgInfoTypes
<1>4. /\ wpending' \in Seq(MsgInfos) /\ Len(wpending') = Len(wpending) + 1 /\ wpending' # <<>>
      /\ \A i \in 1 .. Len(wpending) : wpending'[i] = wpending[i]
      /\ wpending'[Len(wpending) + 1] = MsgInfo(m, 0, 0)
  BY <1>1, <1>2, <1>3
<1>5. /\ wpending # <<>> => NextOut' = NextOut
      /\ wpending = <<>> => NextOut' = MsgInfo(m, 0, 0)
  <2>1. NextOut' = wpending'[1]
    BY <1>4 DEF NextOut
  <2>2. wpending # <<>> => NextOut = wpending[1] /\ 1 \in 1 .. Len(wpending)
    BY <1>1 DEF NextOut
  <2>3. wpending = <<>> => Len(wpending) = 0
    OBVIOUS
  <2>4. QED
    BY <1>4, <2>1, <2>2, <2>3
<1>6. Fifo' = Append(Fifo, m)
  <2>1. Fifo = [i \in 1 .. Len(wpending) |-> wpending[i].msg] /\ Fifo \in Seq(Msgs)
        /\ Len(Fifo) = Len(wpending)
    BY <1>1, FifoTypes DEF Fifo
  <2>2. Fifo' = [i \in 1 .. Len(wpending) + 1 |-> wpending'[i].msg]
    BY <1>4 DEF Fifo
  <2>3. Append(Fifo, m) = [i \in 1 .. Len(wpending) + 1 |->
                             IF i <= Len(wpending) THEN Fifo[i] ELSE m]
    BY <2>1, AppendProperties
  <2>4. \A i \in 1 .. Len(wpending) + 1 :
          wpending'[i].msg = IF i <= Len(wpending) THEN Fifo[i] ELSE m
    <3> TAKE i \in 1 .. Len(wpending) + 1
    <3>1. CASE i <= Len(wpending)
      BY <1>1, <1>4, <2>1, <3>1
    <3>2. CASE ~(i <= Len(wpending))
      <4>1. i = Len(wpending) + 1
        BY <1>1, <3>2
      <4>2. QED
        BY <1>3, <1>4, <3>2, <4>1
    <3>3. QED
      BY <3>1, <3>2
  <2>5. QED
    BY <2>2, <2>3, <2>4
<1>7. SentOfFront' = SentOfFront
  BY <1>4, <1>5 DEF SentOfFront, MsgInfo
<1>8. Effect
  BY <1>2, <1>6, <1>7 DEF Effect, Queues
<1>9. FrontInv'
  <2>1. CASE wpending # <<>>
    <3>1. /\ NextOut.buf_offset \in 0 .. BufLen(NextOut.msg)
          /\ NextOut.file_offset \in 0 .. MsgLen(NextOut.msg) - BufLen(NextOut.msg)
          /\ NextOut.buf_offset < BufLen(NextOut.msg) => NextOut.file_offset = 0
      BY <2>1 DEF LoopInv, FrontInv
    <3>2. NextOut' = NextOut
      BY <1>5, <2>1
    <3>3. BufLen(NextOut.msg)' = BufLen(NextOut.msg) /\ MsgLen(NextOut.msg)' = MsgLen(NextOut.msg)
      BY <3>2 DEF BufLen, MsgLen
    <3>4. QED
      BY <3>1, <3>2, <3>3 DEF FrontInv
  <2>2. CASE wpending = <<>>
    <3>1. NextOut'.msg = m /\ NextOut'.buf_offset = 0 /\ NextOut'.file_offset = 0
      BY <1>5, <2>2 DEF MsgInfo
    <3>2. BufLen(NextOut.msg)' = BufLen(m) /\ MsgLen(NextOut.msg)' = MsgLen(m)
      BY <3>1 DEF BufLen, MsgLen
    <3>3. 0 \in 0 .. BufLen(m) /\ 0 \in 0 .. MsgLen(m) - BufLen(m)
      BY Storages, MsgTypes
    <3>4. QED
      BY <3>1, <3>2, <3>3 DEF FrontInv
  <2>3. QED
    BY <2>1, <2>2
<1>10. RestInv'
  <2> SUFFICES ASSUME NEW i \in 2 .. Len(wpending')
               PROVE  wpending'[i].buf_offset = 0 /\ wpending'[i].file_offset = 0
    BY DEF RestInv
  <2>1. CASE i \in 2 .. Len(wpending)
    <3>1. wpending'[i] = wpending[i]
      BY <1>1, <1>4, <2>1
    <3>2. QED
      BY <2>1, <3>1 DEF LoopInv, RestInv
  <2>2. CASE i \notin 2 .. Len(wpending)
    <3>1. i = Len(wpending) + 1
      BY <1>1, <1>4, <2>2
    <3>2. QED
      BY <1>4, <3>1 DEF MsgInfo
  <2>3. QED
    BY <2>1, <2>2
<1>11. DescInv'
  <2> SUFFICES ASSUME NEW x \in Msgs, storage[x] = "DISC", desc[file[x]].open
               PROVE  /\ x \in Range(queued)'
                      /\ x \in Range(Fifo)' => /\ x = NextOut'.msg
                                               /\ NextOut'.buf_offset = hdr_len[x]
                                               /\ desc[file[x]].pos = NextOut'.file_offset
    BY <1>2 DEF DescInv
  <2>1. x \in Range(queued) /\ x # m
    BY <1>2 DEF LoopInv, DescInv
  <2>2. x \in Range(queued)'
    <3>1. PICK i \in 1 .. Len(queued) : queued[i] = x
      BY <1>1, <2>1 DEF Range
    <3>2. i \in DOMAIN Append(queued, m) /\ Append(queued, m)[i] = x
      BY <1>1, <3>1
    <3>3. QED
      BY <1>2, <3>2 DEF Range
  <2>3. ASSUME x \in Range(Fifo)' PROVE x \in Range(Fifo)
    <3>0. Fifo \in Seq(Msgs)
      BY <1>1, FifoTypes
    <3>1. PICK i \in DOMAIN Append(Fifo, m) : Append(Fifo, m)[i] = x
      BY <1>6, <2>3 DEF Range
    <3>2. i \in 1 .. Len(Fifo) /\ Fifo[i] = x
      BY <2>1, <3>0, <3>1
    <3>3. QED
      BY <3>0, <3>2 DEF Range
  <2>4. x \in Range(Fifo) => NextOut' = NextOut
    <3>1. x \in Range(Fifo) => Fifo # <<>>
      <4>1. Fifo = <<>> => DOMAIN Fifo = {}
        BY <1>1, FifoTypes
      <4>2. QED
        BY <4>1 DEF Range
    <3>2. QED
      BY <1>1, <1>5, <3>1, FifoTypes
  <2>5. QED
    BY <2>2, <2>3, <2>4 DEF LoopInv, DescInv
<1>12. ControlInv'
  <2>1. At("idle")'
    BY DEF At
  <2>2. QED
    BY <1>1, <1>2, <2>1, ControlStep
<1>13. QED
  BY <1>8, <1>9, <1>10, <1>11, <1>12 DEF LoopInv

\* Where the front message is, when Write or PopOutgoingMsgQueue is at it.
LEMMA FrontFacts ==
    ASSUME IInv, LoopInv, Sofar, wpending # <<>>
    PROVE  /\ TypeOK /\ NextOut.msg \in Msgs /\ SentOfFront \in Nat
           /\ NextOut.buf_offset \in Nat /\ NextOut.file_offset \in Nat
           /\ SentOfFront = NextOut.buf_offset + NextOut.file_offset
           /\ NextOut.buf_offset <= BufLen(NextOut.msg)
           /\ NextOut.file_offset <= MsgLen(NextOut.msg) - BufLen(NextOut.msg)
           /\ NextOut.buf_offset < BufLen(NextOut.msg) => NextOut.file_offset = 0
           /\ BufLen(NextOut.msg) \in Nat /\ MsgLen(NextOut.msg) \in Nat
           /\ NextOut.msg \in Range(queued) /\ NextOut.msg \in Range(Fifo)
<1>1. TypeOK /\ FrontInv
  BY DEF IInv, LoopInv
<1>2. NextOut.msg \in Msgs
  BY <1>1, FrontTypes
<1>3. BufLen(NextOut.msg) \in Nat /\ MsgLen(NextOut.msg) \in Nat
  BY <1>2, MsgTypes
<1>4. /\ NextOut.buf_offset \in 0 .. BufLen(NextOut.msg)
      /\ NextOut.file_offset \in 0 .. MsgLen(NextOut.msg) - BufLen(NextOut.msg)
      /\ NextOut.buf_offset < BufLen(NextOut.msg) => NextOut.file_offset = 0
  BY <1>1 DEF FrontInv
<1>5. NextOut.msg \in Range(Fifo)
  <2>1. Fifo \in Seq(Msgs) /\ Fifo # <<>> /\ Fifo[1] = NextOut.msg
    BY <1>1, FifoTypes
  <2>2. 1 \in DOMAIN Fifo
    BY <2>1
  <2>3. QED
    BY <2>1, <2>2 DEF Range
<1>6. SentOfFront \in Nat /\ SentOfFront = NextOut.buf_offset + NextOut.file_offset
  BY <1>1, SentOfFrontTypes
<1>7. QED
  BY <1>1, <1>2, <1>3, <1>4, <1>5, <1>6, FifoQueued

\* The queue is given up in an unlocked call: the files stay as they were.
LEMMA LoopReset ==
    ASSUME OneLoop, IInv, LoopInv, Sofar, NEW t \in Threads, wpending # <<>>,
           Goto(t, "check"), ResetWbuf(TRUE, desc),
           NEW n \in Nat, SentOfFront + n <= MsgLen(NextOut.msg),
           wire' = wire \o Piece(NextOut.msg, SentOfFront, n)
    PROVE  Effect /\ LoopInv'
<1>1. TypeOK
  BY DEF IInv
<1>2. Effect
  BY <1>1, ResetGivesUp
<1>3. \A m \in Msgs : storage[m] = "DISC" /\ desc[file[m]].open => m \in Range(queued)
  BY DEF LoopInv, DescInv
<1>4. LoopInv'
  BY <1>1, <1>3, ResetLoop
<1>5. QED
  BY <1>2, <1>4

LEMMA LoopWriteMem ==
    ASSUME OneLoop, IInv, LoopInv, Sofar, NEW t \in Threads, WriteMem(t)
    PROVE  Effect /\ LoopInv'
<1> DEFINE m == NextOut.msg
           bo == NextOut.buf_offset
<1>1. /\ pc[t] = "write" /\ wpending # <<>> /\ storage[m] = "MEM" /\ Goto(t, "check")
  BY DEF WriteMem, Unlocked
<1>2. /\ TypeOK /\ m \in Msgs /\ bo \in Nat /\ NextOut.file_offset \in Nat
      /\ SentOfFront = bo + NextOut.file_offset
      /\ bo <= BufLen(m) /\ NextOut.file_offset <= MsgLen(m) - BufLen(m)
      /\ BufLen(m) \in Nat /\ MsgLen(m) \in Nat
  BY <1>1, FrontFacts
<1>3. BufLen(m) = MsgLen(m) /\ NextOut.file_offset = 0 /\ SentOfFront = bo
  BY <1>1, <1>2, Storages
<1>4. PICK r \in SSLConn_Write(MsgLen(m) - bo) :
        /\ Sent(r, WbufBytes(bo, r.sent))
        /\ IF error \/ r.err THEN ResetWbuf(r.err, desc)
           ELSE Advance(r.n, 0) /\ UNCHANGED desc
  BY DEF WriteMem
<1>5. /\ r.sent \in 0 .. (MsgLen(m) - bo) /\ r.err \in BOOLEAN /\ (~r.err => r.n = r.sent)
  <2>1. MsgLen(m) - bo \in Nat
    BY <1>2, <1>3
  <2>2. QED
    BY <2>1, <1>4, ResultsHere
<1>6. ~error
  BY <1>1 DEF LoopInv, ControlInv, At
<1> HIDE DEF m, bo
<1>7. r.sent \in Nat /\ bo + r.sent <= BufLen(m) /\ SentOfFront + r.sent <= MsgLen(m)
  BY <1>2, <1>3, <1>5
<1>8. wire' = wire \o Piece(m, SentOfFront, r.sent)
  BY <1>1, <1>2, <1>3, <1>4, <1>7, FrontBytes DEF Sent, m
<1>9. CASE r.err
  <2>1. ResetWbuf(TRUE, desc)
    BY <1>4, <1>5, <1>9
  <2>2. QED
    BY <1>1, <1>7, <1>8, <2>1, LoopReset DEF m
<1>10. CASE ~r.err
  <2>1. Advance(r.sent, 0) /\ desc' = desc
    BY <1>4, <1>5, <1>6, <1>10
  <2>2. Effect
    <3>1. r.sent = r.sent + 0
      BY <1>7
    <3>2. QED
      BY <1>1, <1>2, <1>7, <1>8, <2>1, <3>1, AdvanceSends DEF m
  <2>3. FrontInv' /\ RestInv'
    <3>1. /\ NextOut.buf_offset + r.sent <= BufLen(NextOut.msg)
          /\ NextOut.file_offset + 0 <= MsgLen(NextOut.msg) - BufLen(NextOut.msg)
      BY <1>2, <1>3, <1>7 DEF m, bo
    <3>2. QED
      BY <1>1, <1>2, <1>7, <2>1, <3>1, AdvanceLoop
  <2>4. /\ NextOut'.msg = m /\ Fifo' = Fifo
        /\ UNCHANGED <<queued, ub>>
    <3>1. NextOut' = MsgInfo(NextOut.msg, NextOut.buf_offset + r.sent, NextOut.file_offset + 0)
          /\ Fifo' = Fifo /\ UNCHANGED <<queued, ub>>
      BY <1>1, <1>2, <1>7, <2>1, AdvanceEffect
    <3>2. QED
      BY <3>1 DEF MsgInfo, m
  <2>5. DescInv'
    BY <1>1, <2>1, <2>4 DEF LoopInv, DescInv, m
  <2>6. ControlInv'
    <3>1. At("check")'
      BY DEF At
    <3>2. QED
      BY <1>1, <1>2, <2>4, <3>1, ControlStep DEF LoopInv, ControlInv
  <2>7. QED
    BY <2>2, <2>3, <2>5, <2>6 DEF LoopInv
<1>11. QED
  BY <1>5, <1>9, <1>10

LEMMA LoopWriteHdr ==
    ASSUME OneLoop, IInv, LoopInv, Sofar, NEW t \in Threads, WriteHdr(t)
    PROVE  Effect /\ LoopInv'
<1> DEFINE m == NextOut.msg
           bo == NextOut.buf_offset
<1>1. /\ pc[t] = "write" /\ wpending # <<>> /\ storage[m] = "DISC" /\ bo < hdr_len[m]
  BY DEF WriteHdr, Unlocked
<1>2. /\ TypeOK /\ m \in Msgs /\ bo \in Nat /\ NextOut.file_offset \in Nat
      /\ SentOfFront = bo + NextOut.file_offset
      /\ bo < BufLen(m) => NextOut.file_offset = 0
      /\ BufLen(m) \in Nat /\ MsgLen(m) \in Nat
  BY <1>1, FrontFacts
<1>3. /\ BufLen(m) = hdr_len[m] /\ MsgLen(m) - BufLen(m) = body_len[m] /\ body_len[m] \in Nat
      /\ NextOut.file_offset = 0 /\ SentOfFront = bo
  BY <1>1, <1>2, Storages, MsgTypes
<1>4. PICK r \in SSLConn_Write(hdr_len[m] - bo) :
        /\ Sent(r, WbufBytes(bo, r.sent))
        /\ \/ /\ error \/ r.err
              /\ ResetWbuf(r.err, desc)
              /\ Goto(t, "check")
           \/ /\ ~error /\ ~r.err
              /\ Advance(r.n, 0)
              /\ IF bo + r.n < hdr_len[m] THEN Goto(t, "check") ELSE Goto(t, "file")
              /\ UNCHANGED desc
  BY DEF WriteHdr
<1>5. /\ r.sent \in 0 .. (hdr_len[m] - bo) /\ r.err \in BOOLEAN /\ (~r.err => r.n = r.sent)
  <2>1. hdr_len[m] - bo \in Nat
    BY <1>1, <1>2, <1>3
  <2>2. QED
    BY <2>1, <1>4, ResultsHere
<1>6. ~error
  BY <1>1 DEF LoopInv, ControlInv, At
<1> HIDE DEF m, bo
<1>7. r.sent \in Nat /\ bo + r.sent <= BufLen(m) /\ SentOfFront + r.sent <= MsgLen(m)
  BY <1>1, <1>2, <1>3, <1>5
<1>8. wire' = wire \o Piece(m, SentOfFront, r.sent)
  BY <1>1, <1>2, <1>3, <1>4, <1>7, FrontBytes DEF Sent, m
<1>9. CASE r.err
  <2>1. ResetWbuf(TRUE, desc) /\ Goto(t, "check")
    BY <1>4, <1>5, <1>9
  <2>2. QED
    BY <1>1, <1>7, <1>8, <2>1, LoopReset DEF m
<1>10. CASE ~r.err
  <2>1. Advance(r.sent, 0) /\ desc' = desc
        /\ IF bo + r.sent < hdr_len[m] THEN Goto(t, "check") ELSE Goto(t, "file")
    BY <1>4, <1>5, <1>6, <1>10
  <2>2. Effect
    <3>1. r.sent = r.sent + 0
      BY <1>7
    <3>2. QED
      BY <1>1, <1>2, <1>7, <1>8, <2>1, <3>1, AdvanceSends DEF m
  <2>3. FrontInv' /\ RestInv'
    <3>1. /\ NextOut.buf_offset + r.sent <= BufLen(NextOut.msg)
          /\ NextOut.file_offset + 0 <= MsgLen(NextOut.msg) - BufLen(NextOut.msg)
      BY <1>2, <1>3, <1>7 DEF m, bo
    <3>2. QED
      BY <1>1, <1>2, <1>7, <2>1, <3>1, AdvanceLoop
  <2>4. /\ NextOut'.msg = m /\ NextOut'.buf_offset = bo + r.sent /\ Fifo' = Fifo
        /\ UNCHANGED <<queued, ub, error>>
    <3>1. NextOut' = MsgInfo(NextOut.msg, NextOut.buf_offset + r.sent, NextOut.file_offset + 0)
          /\ Fifo' = Fifo /\ UNCHANGED <<queued, ub, error>>
      BY <1>1, <1>2, <1>7, <2>1, AdvanceEffect
    <3>2. QED
      BY <3>1 DEF MsgInfo, m, bo
  <2>5. DescInv'
    <3>1. m \in Range(Fifo)
      BY <1>1, FrontFacts DEF m
    <3>2. ~desc[file[m]].open
      BY <1>1, <1>2, <3>1 DEF LoopInv, DescInv, bo, m
    <3>3. \A x \in Msgs : storage[x] = "DISC" /\ desc[file[x]].open =>
            x \in Range(queued) /\ x \notin Range(Fifo)
      BY <3>2 DEF LoopInv, DescInv, m
    <3>4. QED
      BY <2>1, <2>4, <3>3 DEF DescInv
  <2>6. ControlInv'
    <3>1. ~ub'
      BY <2>4 DEF LoopInv, ControlInv
    <3>2. CASE bo + r.sent < hdr_len[m]
      <4>1. Goto(t, "check") /\ At("check")'
        BY <2>1, <3>2 DEF At
      <4>2. QED
        BY <1>2, <3>1, <4>1, ControlStep
    <3>3. CASE ~(bo + r.sent < hdr_len[m])
      <4>1. bo + r.sent = hdr_len[m]
        BY <1>2, <1>3, <1>7, <3>3
      <4>2. Goto(t, "file") /\ At("file")'
        BY <1>6, <2>1, <2>4, <3>3, <4>1 DEF At
      <4>3. QED
        BY <1>2, <3>1, <4>2, ControlStep
    <3>4. QED
      BY <3>2, <3>3
  <2>7. QED
    BY <2>2, <2>3, <2>5, <2>6 DEF LoopInv
<1>11. QED
  BY <1>5, <1>9, <1>10

LEMMA LoopQuietWrites ==
    ASSUME OneLoop, IInv, LoopInv, Sofar, NEW t \in Threads,
           WriteHdrDone(t) \/ CheckSent(t) \/ FrontOfEmpty(t)
    PROVE  Effect /\ LoopInv'
<1>1. TypeOK /\ At(pc[t]) /\ ~ub
  BY DEF IInv, LoopInv, ControlInv
<1>2. ~FrontOfEmpty(t)
  BY <1>1 DEF FrontOfEmpty, Unlocked, At
<1>3. UNCHANGED <<wpending, wfiles, desc, wire, queued, dropped, ub, error>>
  BY <1>2 DEF WriteHdrDone, CheckSent, queueVars, ioVars
<1>4. /\ Still /\ (FrontInv /\ RestInv /\ DescInv)'
      /\ NextOut' = NextOut /\ SentOfFront' = SentOfFront
  BY <1>3, QuietStep
<1>5. CASE WriteHdrDone(t)
  <2>1. /\ pc[t] = "write" /\ wpending # <<>> /\ storage[NextOut.msg] = "DISC"
        /\ NextOut.buf_offset >= hdr_len[NextOut.msg] /\ Goto(t, "file")
    BY <1>5 DEF WriteHdrDone, Unlocked
  <2>2. NextOut.buf_offset = hdr_len[NextOut.msg]
    <3>1. /\ NextOut.msg \in Msgs /\ NextOut.buf_offset \in Nat
          /\ NextOut.buf_offset <= BufLen(NextOut.msg)
      BY <2>1, FrontFacts
    <3>2. BufLen(NextOut.msg) = hdr_len[NextOut.msg] /\ hdr_len[NextOut.msg] \in Nat
      BY <2>1, <3>1, Storages, MsgTypes
    <3>3. QED
      BY <2>1, <3>1, <3>2
  <2>3. At("file")'
    BY <1>1, <1>3, <1>4, <2>1, <2>2 DEF At
  <2>4. ControlInv'
    BY <1>1, <1>3, <2>1, <2>3, ControlStep
  <2>5. QED
    BY <1>4, <2>4 DEF Effect, LoopInv
<1>6. CASE CheckSent(t)
  <2>1. \A u \in Threads : u = t
    BY DEF OneLoop
  <2>2. Goto(t, IF IsOutgoingMsgSent /\ ~error THEN "popcall" ELSE "idle")
    BY <1>6, <2>1 DEF CheckSent
  <2>3. CASE IsOutgoingMsgSent /\ ~error
    <3>1. wpending # <<>>
      BY <2>3 DEF IsOutgoingMsgSent
    <3>2. /\ NextOut.msg \in Msgs /\ NextOut.buf_offset \in Nat /\ NextOut.file_offset \in Nat
          /\ SentOfFront = NextOut.buf_offset + NextOut.file_offset
          /\ SentOfFront \in 0 .. MsgLen(NextOut.msg) /\ MsgLen(NextOut.msg) \in Nat
      BY <3>1, FrontFacts, SentOfFrontTypes DEF LoopInv
    <3>3. \/ NextOut.buf_offset >= MsgLen(NextOut.msg)
          \/ NextOut.file_offset + NextOut.buf_offset >= MsgLen(NextOut.msg)
      BY <2>3 DEF IsOutgoingMsgSent
    <3>4. SentOfFront = MsgLen(NextOut.msg)
      BY <3>2, <3>3
    <3>5. At("popcall")'
      BY <1>3, <1>4, <2>3, <3>1, <3>4 DEF At
    <3>6. Goto(t, "popcall")
      BY <2>2, <2>3
    <3>7. ControlInv'
      BY <1>1, <1>3, <3>5, <3>6, ControlStep
    <3>8. QED
      BY <1>4, <3>7 DEF Effect, LoopInv
  <2>4. CASE ~(IsOutgoingMsgSent /\ ~error)
    <3>1. Goto(t, "idle") /\ At("idle")'
      BY <2>2, <2>4 DEF At
    <3>2. ControlInv'
      BY <1>1, <1>3, <3>1, ControlStep
    <3>3. QED
      BY <1>4, <3>2 DEF Effect, LoopInv
  <2>5. QED
    BY <2>3, <2>4
<1>7. QED
  BY <1>2, <1>5, <1>6

\* What the file part of Write finds.
LEMMA FileFacts ==
    ASSUME OneLoop, IInv, LoopInv, Sofar, NEW t \in Threads, pc[t] \in {"file", "chunk"}
    PROVE  /\ TypeOK /\ wpending # <<>> /\ wfiles # <<>> /\ ~error /\ outgoing_mtx = t
           /\ storage[NextOut.msg] = "DISC" /\ Head(wfiles) = file[NextOut.msg]
           /\ NextOut.buf_offset = hdr_len[NextOut.msg]
           /\ NextOut.buf_offset = BufLen(NextOut.msg)
           /\ MsgLen(NextOut.msg) - BufLen(NextOut.msg) = body_len[NextOut.msg]
           /\ body_len[NextOut.msg] \in Nat
           /\ wire = wire \o Piece(NextOut.msg, SentOfFront, 0)
           /\ SentOfFront + 0 <= MsgLen(NextOut.msg)
<1>1. /\ TypeOK /\ wpending # <<>> /\ wfiles # <<>> /\ outgoing_mtx = t /\ LockedParts
  BY InFilePart
<1>2. storage[NextOut.msg] = "DISC" /\ Head(wfiles) = file[NextOut.msg]
  BY <1>1 DEF LockedParts
<1>3. ~error /\ NextOut.buf_offset = hdr_len[NextOut.msg]
  BY DEF LoopInv, ControlInv, At
<1>4. NextOut.msg \in Msgs /\ SentOfFront \in Nat
  BY <1>1, FrontFacts
<1>5. /\ BufLen(NextOut.msg) = hdr_len[NextOut.msg]
      /\ MsgLen(NextOut.msg) - BufLen(NextOut.msg) = body_len[NextOut.msg]
      /\ body_len[NextOut.msg] \in Nat
  BY <1>2, <1>4, Storages, MsgTypes
<1>6. wire = wire \o Piece(NextOut.msg, SentOfFront, 0)
  BY <1>1, <1>4, NoPiece DEF TypeOK
<1>7. SentOfFront + 0 <= MsgLen(NextOut.msg)
  <2>1. SentOfFront \in 0 .. MsgLen(NextOut.msg)
    BY <1>1, SentOfFrontTypes DEF LoopInv
  <2>2. QED
    BY <1>4, <2>1
<1>8. QED
  BY <1>1, <1>2, <1>3, <1>5, <1>6, <1>7

\* A file is the body of one message.
LEMMA FrontFile ==
    ASSUME OneLoop, IInv, LoopInv, Sofar, wpending # <<>>, storage[NextOut.msg] = "DISC",
           NEW d, \A g \in Files : d[g].open => g = file[NextOut.msg] \/ desc[g].open
    PROVE  \A m \in Msgs : storage[m] = "DISC" /\ d[file[m]].open => m \in Range(queued)
<1> SUFFICES ASSUME NEW m \in Msgs, storage[m] = "DISC", d[file[m]].open
             PROVE  m \in Range(queued)
  OBVIOUS
<1>1. NextOut.msg \in Msgs /\ NextOut.msg \in Range(queued)
  BY FrontFacts
<1>2. CASE file[m] = file[NextOut.msg]
  BY <1>1, <1>2 DEF OneLoop
<1>3. CASE desc[file[m]].open
  BY <1>3 DEF LoopInv, DescInv
<1>4. file[m] \in Files
  BY MsgTypes
<1>5. QED
  BY <1>2, <1>3, <1>4

\* The queue is given up in the file part of Write.
LEMMA LoopFileReset ==
    ASSUME OneLoop, IInv, LoopInv, Sofar, NEW t \in Threads, wpending # <<>>,
           storage[NextOut.msg] = "DISC", Goto(t, "check"), NEW d, ResetWbuf(TRUE, d),
           \A g \in Files : d[g].open => g = file[NextOut.msg] \/ desc[g].open,
           NEW n \in Nat, SentOfFront + n <= MsgLen(NextOut.msg),
           wire' = wire \o Piece(NextOut.msg, SentOfFront, n)
    PROVE  Effect /\ LoopInv'
<1>1. TypeOK
  BY DEF IInv
<1>2. Effect
  BY <1>1, ResetGivesUp
<1>3. \A m \in Msgs : storage[m] = "DISC" /\ d[file[m]].open => m \in Range(queued)
  BY FrontFile
<1>4. LoopInv'
  BY <1>1, <1>3, ResetLoop
<1>5. QED
  BY <1>2, <1>4

LEMMA LoopWriteOpen ==
    ASSUME OneLoop, IInv, LoopInv, Sofar, NEW t \in Threads, WriteOpen(t)
    PROVE  Effect /\ LoopInv'
<1> DEFINE m == NextOut.msg
           f == file[m]
           opened == [desc EXCEPT ![f] = OpenDesc(0)]
<1>1. pc[t] = "file" /\ wire' = wire
  BY DEF WriteOpen, ioVars
<1>2. /\ TypeOK /\ wpending # <<>> /\ ~error /\ storage[m] = "DISC" /\ Head(wfiles) = f
      /\ NextOut.buf_offset = hdr_len[m]
      /\ wire = wire \o Piece(m, SentOfFront, 0) /\ SentOfFront + 0 <= MsgLen(m)
  BY <1>1, FileFacts
<1>3. /\ m \in Msgs /\ f \in Files /\ m \in Range(queued) /\ m \in Range(Fifo)
      /\ ~ub /\ desc \in [Files -> [open : BOOLEAN, pos : Nat]]
  BY <1>2, FrontFacts, MsgTypes DEF LoopInv, ControlInv, TypeOK
<1> HIDE DEF m
<1>4. CASE /\ desc[f].open
           /\ Goto(t, "chunk")
           /\ UNCHANGED <<queueVars, whdrs, error, outgoing_mtx, queued, dropped, ub>>
  <2>1. UNCHANGED <<wpending, wfiles, desc, wire, queued, dropped, ub, error>>
    BY <1>1, <1>4 DEF queueVars
  <2>2. /\ Still /\ (FrontInv /\ RestInv /\ DescInv)' /\ NextOut' = NextOut
    BY <2>1, QuietStep
  <2>3. At("chunk")'
    BY <1>2, <1>4, <2>1, <2>2 DEF At, m
  <2>4. ControlInv'
    BY <1>2, <1>3, <1>4, <2>1, <2>3, ControlStep
  <2>5. QED
    BY <2>2, <2>4 DEF Effect, LoopInv
<1>5. ASSUME NEW d \in {desc, opened}, ResetWbuf(TRUE, d), WriteReturn(t)
      PROVE  Effect /\ LoopInv'
  <2>1. \A g \in Files : d[g].open => g = f \/ desc[g].open
    BY <1>3, <1>5
  <2>2. Goto(t, "check")
    BY <1>5 DEF WriteReturn
  <2>3. QED
    BY <1>1, <1>2, <1>5, <2>1, <2>2, LoopFileReset DEF m
<1>6. CASE /\ ~desc[f].open
           /\ desc' = [desc EXCEPT ![f] = OpenDesc(NextOut.file_offset)]
           /\ Goto(t, "chunk")
           /\ UNCHANGED <<wbuf, wbuf_size, wpending, wfiles, whdrs, error,
                          outgoing_mtx, queued, dropped, ub>>
  <2>1. NextOut' = NextOut /\ Fifo' = Fifo /\ SentOfFront' = SentOfFront
    BY <1>6 DEF NextOut, Fifo, SentOfFront
  <2>2. Still
    BY <1>1, <1>6, <2>1 DEF Still
  <2>3. FrontInv' /\ RestInv'
    BY <1>6, <2>1 DEF LoopInv, FrontInv, RestInv
  <2>4. DescInv'
    <3> SUFFICES ASSUME NEW x \in Msgs, storage[x] = "DISC", desc'[file[x]].open
                 PROVE  /\ x \in Range(queued)
                        /\ x \in Range(Fifo) => /\ x = m /\ NextOut.buf_offset = hdr_len[x]
                                                /\ desc'[file[x]].pos = NextOut.file_offset
      BY <1>6, <2>1 DEF DescInv, m
    <3>1. file[x] \in Files
      BY MsgTypes
    <3>2. CASE file[x] = f
      <4>1. x = m
        BY <1>2, <1>3, <3>2 DEF OneLoop
      <4>2. desc'[f].pos = NextOut.file_offset
        BY <1>3, <1>6 DEF OpenDesc
      <4>3. QED
        BY <1>2, <1>3, <4>1, <4>2
    <3>3. CASE file[x] # f
      <4>1. desc'[file[x]] = desc[file[x]]
        BY <1>3, <1>6, <3>1, <3>3
      <4>2. QED
        BY <4>1 DEF LoopInv, DescInv, m
    <3>4. QED
      BY <3>2, <3>3
  <2>5. At("chunk")'
    <3>1. desc'[f].open
      BY <1>3, <1>6 DEF OpenDesc
    <3>2. QED
      BY <1>2, <1>6, <2>1, <3>1 DEF At, m
  <2>6. ControlInv'
    BY <1>2, <1>3, <1>6, <2>5, ControlStep
  <2>7. QED
    BY <2>2, <2>3, <2>4, <2>6 DEF Effect, LoopInv
<1>7. QED
  BY <1>2, <1>4, <1>5, <1>6 DEF WriteOpen

LEMMA LoopWriteReadFails ==
    ASSUME OneLoop, IInv, LoopInv, Sofar, NEW t \in Threads, WriteReadFails(t)
    PROVE  Effect /\ LoopInv'
<1>1. pc[t] = "chunk" /\ wire' = wire /\ ResetWbuf(TRUE, desc) /\ Goto(t, "check")
  BY DEF WriteReadFails, WriteReturn, ioVars
<1>2. /\ wpending # <<>> /\ wire = wire \o Piece(NextOut.msg, SentOfFront, 0)
      /\ SentOfFront + 0 <= MsgLen(NextOut.msg)
  BY <1>1, FileFacts
<1>3. QED
  BY <1>1, <1>2, LoopReset

LEMMA LoopWriteChunk ==
    ASSUME OneLoop, IInv, LoopInv, Sofar, NEW t \in Threads, WriteChunk(t)
    PROVE  Effect /\ LoopInv'
<1> DEFINE m == NextOut.msg
           f == file[m]
           n == ChunkRead
           fo == NextOut.file_offset
           read == [desc EXCEPT ![f] = OpenDesc(@.pos + n)]
<1>1. pc[t] = "chunk" /\ n > 0 /\ Goto(t, "check")
  BY DEF WriteChunk, WriteReturn
<1>2. /\ TypeOK /\ wpending # <<>> /\ wfiles # <<>> /\ ~error /\ storage[m] = "DISC"
      /\ Head(wfiles) = f /\ NextOut.buf_offset = hdr_len[m] /\ NextOut.buf_offset = BufLen(m)
      /\ MsgLen(m) - BufLen(m) = body_len[m] /\ body_len[m] \in Nat
  BY <1>1, FileFacts
<1>3. /\ m \in Msgs /\ f \in Files /\ m \in Range(queued) /\ m \in Range(Fifo)
      /\ fo \in Nat /\ fo <= MsgLen(m) - BufLen(m) /\ SentOfFront = BufLen(m) + fo
      /\ BufLen(m) \in Nat /\ MsgLen(m) \in Nat /\ hdr_len[m] \in Nat
      /\ ~ub /\ desc \in [Files -> [open : BOOLEAN, pos : Nat]]
  BY <1>2, FrontFacts, MsgTypes DEF LoopInv, ControlInv, TypeOK
<1>4. desc[f].open /\ desc[f].pos = fo
  <2>1. desc[f].open
    BY <1>1, <1>2 DEF LoopInv, ControlInv, At
  <2>2. QED
    BY <1>2, <1>3, <2>1 DEF LoopInv, DescInv
<1>5. n \in Nat /\ n <= body_len[m] - fo
  <2>1. n = Smaller(Smaller(kFileChunkSize, body_len[m] - fo), body_len[m] - fo)
    BY <1>2, <1>4 DEF ChunkRead
  <2>2. kFileChunkSize \in Nat
    BY LengthsAssumption
  <2> HIDE DEF n, fo
  <2>3. QED
    BY <1>1, <1>2, <1>3, <2>1, <2>2 DEF Smaller
<1>6. PICK r \in SSLConn_Write(n) :
        /\ Sent(r, FileBytes(m, fo, r.sent))
        /\ IF error \/ r.err THEN ResetWbuf(r.err, read) ELSE Advance(0, r.n) /\ desc' = read
  BY <1>2, <1>4 DEF WriteChunk
<1>7. r.sent \in 0 .. n /\ r.err \in BOOLEAN /\ (~r.err => r.n = r.sent /\ r.n = n)
  BY <1>2, <1>3, <1>5, <1>6, ResultsHere
<1> HIDE DEF m, f, n, fo, read
<1>8. r.sent \in Nat /\ SentOfFront + r.sent <= MsgLen(m) /\ fo + r.sent <= MsgLen(m) - BufLen(m)
  BY <1>2, <1>3, <1>5, <1>7
<1>9. wire' = wire \o Piece(m, SentOfFront, r.sent)
  <2>1. \A k \in 1 .. r.sent : hdr_len[m] + fo + k = SentOfFront + k
    BY <1>2, <1>3, <1>8
  <2>2. FileBytes(m, fo, r.sent) = Piece(m, SentOfFront, r.sent)
    BY <2>1 DEF FileBytes, Piece
  <2>3. QED
    BY <1>6, <2>2 DEF Sent
<1>10. CASE r.err
  <2>1. ResetWbuf(TRUE, read)
    BY <1>6, <1>7, <1>10
  <2>2. \A g \in Files : read[g].open => g = f \/ desc[g].open
    BY <1>3 DEF read
  <2>3. QED
    BY <1>1, <1>2, <1>8, <1>9, <2>1, <2>2, LoopFileReset DEF m, f
<1>11. CASE ~r.err
  <2>1. Advance(0, n) /\ desc' = read /\ r.sent = n
    BY <1>2, <1>6, <1>7, <1>11
  <2>2. Effect
    <3>1. n = 0 + n
      BY <1>5
    <3>2. QED
      BY <1>2, <1>5, <1>8, <1>9, <2>1, <3>1, AdvanceSends DEF m
  <2>3. FrontInv' /\ RestInv'
    <3>1. /\ NextOut.buf_offset + 0 = BufLen(NextOut.msg)
          /\ NextOut.file_offset + n <= MsgLen(NextOut.msg) - BufLen(NextOut.msg)
      BY <1>2, <1>3, <1>8, <2>1 DEF m, fo
    <3>2. /\ NextOut.buf_offset + 0 <= BufLen(NextOut.msg)
          /\ NextOut.buf_offset + 0 < BufLen(NextOut.msg) => n = 0
      BY <1>3, <3>1 DEF m
    <3>3. QED
      BY <1>2, <1>5, <2>1, <3>1, <3>2, AdvanceLoop
  <2>4. /\ NextOut'.msg = m /\ NextOut'.buf_offset = hdr_len[m] /\ NextOut'.file_offset = fo + n
        /\ Fifo' = Fifo /\ UNCHANGED <<queued, ub>>
    <3>1. /\ NextOut' = MsgInfo(NextOut.msg, NextOut.buf_offset + 0, NextOut.file_offset + n)
          /\ Fifo' = Fifo /\ UNCHANGED <<queued, ub>>
      BY <1>2, <1>5, <2>1, AdvanceEffect
    <3>2. NextOut.buf_offset + 0 = hdr_len[m]
      BY <1>2, <1>3
    <3>3. QED
      BY <3>1, <3>2 DEF MsgInfo, m, fo
  <2>5. DescInv'
    <3> SUFFICES ASSUME NEW x \in Msgs, storage[x] = "DISC", desc'[file[x]].open
                 PROVE  /\ x \in Range(queued)
                        /\ x \in Range(Fifo) => /\ x = m /\ hdr_len[m] = hdr_len[x]
                                                /\ desc'[file[x]].pos = fo + n
      BY <2>4 DEF DescInv
    <3>1. file[x] \in Files
      BY MsgTypes
    <3>2. CASE file[x] = f
      <4>1. x = m
        BY <1>2, <1>3, <3>2 DEF OneLoop, f
      <4>2. desc'[f].pos = fo + n
        BY <1>3, <1>4, <2>1 DEF OpenDesc, read
      <4>3. QED
        BY <1>3, <4>1, <4>2 DEF f
    <3>3. CASE file[x] # f
      <4>1. desc'[file[x]] = desc[file[x]]
        BY <1>3, <2>1, <3>1, <3>3 DEF read
      <4>2. x \in Range(queued) /\ (x \in Range(Fifo) => x = m)
        BY <4>1 DEF LoopInv, DescInv, m
      <4>3. QED
        BY <3>3, <4>2 DEF f
    <3>4. QED
      BY <3>2, <3>3
  <2>6. ControlInv'
    <3>1. At("check")'
      BY DEF At
    <3>2. QED
      BY <1>1, <1>2, <1>3, <2>4, <3>1, ControlStep
  <2>7. QED
    BY <2>2, <2>3, <2>5, <2>6 DEF LoopInv
<1>12. QED
  BY <1>7, <1>10, <1>11

LEMMA LoopPop ==
    ASSUME OneLoop, IInv, LoopInv, Sofar, NEW t \in Threads, Pop(t)
    PROVE  Effect /\ LoopInv'
<1>1. /\ pc[t] = "pop" /\ wpending # <<>> /\ wpending' = Tail(wpending) /\ Goto(t, "idle")
      /\ UNCHANGED <<wire, queued, dropped, ub>>
  BY DEF Pop, Unlocked, ioVars
<1>2. /\ TypeOK /\ ~ub /\ SentOfFront = MsgLen(NextOut.msg)
      /\ wpending \in Seq(MsgInfos) /\ Len(wpending) \in Nat /\ Len(wpending) >= 1
      /\ desc \in [Files -> [open : BOOLEAN, pos : Nat]]
  BY <1>1 DEF IInv, LoopInv, ControlInv, At, TypeOK
<1>3. /\ wpending' \in Seq(MsgInfos) /\ Len(wpending') = Len(wpending) - 1
      /\ \A i \in 1 .. Len(wpending) - 1 : wpending'[i] = wpending[i + 1]
  BY <1>1, <1>2, HeadTailProperties
<1>4. /\ Fifo \in Seq(Msgs) /\ Len(Fifo) = Len(wpending) /\ Fifo # <<>> /\ Fifo[1] = NextOut.msg
      /\ \A i \in 1 .. Len(wpending) : Fifo[i] = wpending[i].msg
  BY <1>1, <1>2, FifoTypes
<1>5. /\ Fifo' = [i \in 1 .. Len(wpending) - 1 |-> wpending'[i].msg]
      /\ \A i \in 1 .. Len(wpending) - 1 : wpending'[i].msg = Fifo[i + 1]
  <2>1. DOMAIN wpending' = 1 .. Len(wpending) - 1
    BY <1>2, <1>3
  <2>2. \A i \in 1 .. Len(wpending) - 1 : i + 1 \in 1 .. Len(wpending)
    BY <1>2
  <2>3. QED
    BY <1>3, <1>4, <2>1, <2>2 DEF Fifo
<1>6. Fifo' = Tail(Fifo)
  <2>1. Tail(Fifo) = [i \in 1 .. Len(Fifo) - 1 |-> Fifo[i + 1]]
    BY <1>4, TailIsFunction
  <2>2. QED
    BY <1>4, <1>5, <2>1
<1>7. \A i \in 1 .. Len(wpending') : wpending'[i].buf_offset = 0 /\ wpending'[i].file_offset = 0
  <2> TAKE i \in 1 .. Len(wpending')
  <2>1. i + 1 \in 2 .. Len(wpending) /\ wpending'[i] = wpending[i + 1]
    BY <1>2, <1>3
  <2>2. QED
    BY <2>1 DEF LoopInv, RestInv
<1>8. wpending' # <<>> => NextOut' = wpending'[1] /\ 1 \in 1 .. Len(wpending')
  BY <1>3 DEF NextOut
<1>9. SentOfFront' = 0
  <2>1. CASE wpending' = <<>>
    BY <2>1 DEF SentOfFront
  <2>2. CASE wpending' # <<>>
    <3>1. NextOut'.buf_offset = 0 /\ NextOut'.file_offset = 0
      BY <1>7, <1>8, <2>2
    <3>2. QED
      BY <2>2, <3>1 DEF SentOfFront
  <2>3. QED
    BY <2>1, <2>2
<1>10. Effect
  BY <1>1, <1>2, <1>4, <1>6, <1>9 DEF Effect, Finishes
<1>11. FrontInv'
  <2> SUFFICES ASSUME wpending' # <<>>
               PROVE  /\ NextOut'.buf_offset \in 0 .. BufLen(NextOut.msg)'
                      /\ NextOut'.file_offset \in 0 .. MsgLen(NextOut.msg)' - BufLen(NextOut.msg)'
                      /\ NextOut'.file_offset = 0
    BY DEF FrontInv
  <2>1. NextOut'.buf_offset = 0 /\ NextOut'.file_offset = 0 /\ NextOut'.msg \in Msgs
    <3>1. wpending'[1] \in MsgInfos
      BY <1>3, <1>8
    <3>2. QED
      BY <1>7, <1>8, <3>1 DEF MsgInfos
  <2> DEFINE m == NextOut'.msg
  <2>2. BufLen(NextOut.msg)' = BufLen(m) /\ MsgLen(NextOut.msg)' = MsgLen(m)
    BY DEF BufLen, MsgLen
  <2>3. \A x \in Msgs : 0 \in 0 .. BufLen(x) /\ 0 \in 0 .. MsgLen(x) - BufLen(x)
    BY Storages, MsgTypes
  <2>4. QED
    BY <2>1, <2>2, <2>3
<1>12. RestInv'
  BY <1>7 DEF RestInv
<1>13. DescInv'
  <2> SUFFICES ASSUME NEW x \in Msgs, storage[x] = "DISC", desc'[file[x]].open
               PROVE  x \in Range(queued) /\ x \notin Range(Fifo')
    BY <1>1 DEF DescInv
  <2>1. desc[file[x]].open
    <3>1. \/ desc' = desc
          \/ \E f : desc' = [desc EXCEPT ![f] = ClosedDesc]
      BY DEF Pop
    <3>2. file[x] \in Files
      BY MsgTypes
    <3>3. QED
      BY <1>2, <3>1, <3>2 DEF ClosedDesc
  <2>2. x \in Range(queued) /\ (x \in Range(Fifo) => x = Fifo[1])
    BY <1>4, <2>1 DEF LoopInv, DescInv
  <2>3. ASSUME x \in Range(Fifo') PROVE FALSE
    <3>1. PICK i \in 1 .. Len(wpending) - 1 : Fifo[i + 1] = x
      BY <1>5, <2>3 DEF Range
    <3>2. i + 1 \in 1 .. Len(Fifo) /\ 1 \in 1 .. Len(Fifo) /\ i + 1 # 1
      BY <1>2, <1>4
    <3>3. x \in Range(Fifo)
      BY <1>4, <3>1, <3>2 DEF Range
    <3>4. Fifo[i + 1] = Fifo[1]
      BY <2>2, <3>1, <3>3
    <3>5. QED
      BY <1>2, <3>2, <3>4, FifoQueued
  <2>4. QED
    BY <2>2, <2>3
<1>14. ControlInv'
  <2>1. At("idle")'
    BY DEF At
  <2>2. QED
    BY <1>1, <1>2, <2>1, ControlStep
<1>15. QED
  BY <1>10, <1>11, <1>12, <1>13, <1>14 DEF LoopInv

-----------------------------------------------------------------------------
(* The theorems *)

LEMMA LoopStep ==
    ASSUME OneLoop, IInv, LoopInv, Sofar, Next
    PROVE  Effect /\ LoopInv'
<1>1. ASSUME NEW t \in Producers, Produce(t) PROVE Effect /\ LoopInv'
  <2>1. t \in Threads
    BY DEF Threads
  <2>2. QED
    BY <1>1, <2>1, LoopTests, LoopAddMsg DEF Produce
<1>2. ASSUME NEW t \in Consumers, Consume(t) PROVE Effect /\ LoopInv'
  <2>1. t \in Threads
    BY DEF Threads
  <2>2. QED
    BY <1>2, <2>1, LoopTests, LoopQuietWrites, LoopWriteMem, LoopWriteHdr, LoopWriteOpen,
       LoopWriteReadFails, LoopWriteChunk, LoopPop DEF Consume
<1>3. ASSUME NEW t \in Threads, ClearError(t) PROVE Effect /\ LoopInv'
  BY <1>3, LoopTests
<1>4. QED
  BY <1>1, <1>2, <1>3 DEF Next

LEMMA LoopStutter ==
    ASSUME LoopInv, UNCHANGED vars
    PROVE  Still /\ LoopInv'
<1>1. UNCHANGED <<wpending, wfiles, desc, wire, queued, dropped, ub, error, pc>>
  BY DEF vars
<1>2. /\ Still /\ (FrontInv /\ RestInv /\ DescInv)'
      /\ NextOut' = NextOut /\ SentOfFront' = SentOfFront
  BY <1>1, QuietStep
<1>3. ControlInv'
  BY <1>1, <1>2 DEF LoopInv, ControlInv, At
<1>4. QED
  BY <1>2, <1>3 DEF LoopInv

LEMMA LoopInit == Init => LoopInv /\ Sofar
<1> SUFFICES ASSUME Init PROVE LoopInv /\ Sofar
  OBVIOUS
<1>1. /\ wpending = <<>> /\ wire = <<>> /\ queued = <<>> /\ dropped = {} /\ ~ub
      /\ \A t \in Threads : pc[t] = "idle"
      /\ \A g \in Files : ~desc[g].open
  BY DEF Init, ClosedDesc
<1>2. Fifo = <<>> /\ SentOfFront = 0
  BY <1>1 DEF Fifo, SentOfFront
<1>3. LoopInv
  <2>1. FrontInv /\ RestInv
    BY <1>1 DEF FrontInv, RestInv
  <2>2. DescInv
    BY <1>1, MsgTypes DEF DescInv
  <2>3. ControlInv
    BY <1>1 DEF ControlInv, At
  <2>4. QED
    BY <2>1, <2>2, <2>3 DEF LoopInv
<1>4. Len(<<>>) = 0 /\ \A x : x \notin Range(<<>>)
  BY <1>1, EmptyRange
<1>5. Sofar
  <2>1. Injective(<<>>) /\ Newest(<<>>, <<>>) /\ Settled(<<>>, <<>>, {}, 0)
    BY <1>4 DEF Injective, Newest, Settled
  <2>2. FrontOut(<<>>, 0, <<>>) /\ LastOut(<<>>, 0, <<>>) /\ InOrder(<<>>, <<>>, {})
    BY <1>4 DEF FrontOut, LastOut, InOrder
  <2>3. NotQueuedNotOut(<<>>, <<>>)
    BY <1>4 DEF NotQueuedNotOut, PartOf
  <2>4. Len(<<>>) - Len(<<>>) = 0
    BY <1>4
  <2>5. History(<<>>, 0, <<>>, <<>>, {})
    BY <2>1, <2>2, <2>3, <2>4 DEF History
  <2>6. QED
    BY <1>1, <1>2, <2>5 DEF Sofar
<1>6. QED
  BY <1>3, <1>5

LEMMA LoopNext ==
    ASSUME OneLoop
    PROVE  IInv /\ LoopInv /\ Sofar /\ [Next]_vars => Effect /\ LoopInv' /\ Sofar'
<1> SUFFICES ASSUME IInv, LoopInv, Sofar, [Next]_vars PROVE Effect /\ LoopInv' /\ Sofar'
  OBVIOUS
<1>1. Effect /\ LoopInv'
  BY LoopStep, LoopStutter DEF Effect
<1>2. Sofar'
  BY <1>1, SofarStep DEF IInv, LoopInv
<1>3. QED
  BY <1>1, <1>2

LEMMA LoopInvariant ==
    ASSUME OneLoop
    PROVE  Spec => [](IInv /\ LoopInv /\ Sofar)
<1>1. Init => IInv /\ LoopInv /\ Sofar
  BY InvInit, LoopInit
<1>2. IInv /\ LoopInv /\ Sofar /\ [Next]_vars => (IInv /\ LoopInv /\ Sofar)'
  BY InvNext, LoopNext
<1>3. QED
  BY <1>1, <1>2, PTL DEF Spec

\* buf_offset and file_offset mark what has been sent so far (MsgInfo.h): of
\* every queued message the bytes on the wire are its first buf_offset +
\* file_offset, whatever Write was interrupted by.
THEOREM OffsetsMarkWhatIsSent ==
    ASSUME OneLoop
    PROVE  Spec => []OffsetsAreSent
<1>1. IInv /\ LoopInv /\ Sofar => OffsetsAreSent
  <2> SUFFICES ASSUME IInv, LoopInv, Sofar, NEW i \in DOMAIN wpending
               PROVE  /\ wpending[i].buf_offset >= 0 /\ wpending[i].file_offset >= 0
                      /\ PartOf(wire, wpending[i].msg)
                           = 1 .. (wpending[i].buf_offset + wpending[i].file_offset)
    BY DEF OffsetsAreSent, PartOf
  <2>1. /\ TypeOK /\ wpending \in Seq(MsgInfos) /\ i \in 1 .. Len(wpending) /\ wpending # <<>>
        /\ Len(wpending) \in Nat
    BY DEF IInv, TypeOK
  <2>2. FrontOut(Fifo, SentOfFront, wire)
    BY DEF Sofar, History
  <2>3. /\ Fifo # <<>> /\ Len(Fifo) = Len(wpending)
        /\ \A k \in 1 .. Len(wpending) : Fifo[k] = wpending[k].msg
    BY <2>1, FifoTypes
  <2>4. CASE i = 1
    <3>1. NextOut = wpending[i]
      BY <2>1, <2>4, FrontTypes
    <3>2. /\ NextOut.buf_offset \in Nat /\ NextOut.file_offset \in Nat
          /\ SentOfFront = NextOut.buf_offset + NextOut.file_offset
      BY <2>1, FrontFacts
    <3>3. PartOf(wire, Fifo[1]) = 1 .. SentOfFront
      BY <2>2, <2>3 DEF FrontOut
    <3>4. Fifo[1] = wpending[i].msg
      BY <2>1, <2>3, <2>4
    <3>5. QED
      BY <3>1, <3>2, <3>3, <3>4
  <2>5. CASE i # 1
    <3>1. i \in 2 .. Len(wpending)
      BY <2>1, <2>5
    <3>2. wpending[i].buf_offset = 0 /\ wpending[i].file_offset = 0
      BY <3>1 DEF LoopInv, RestInv
    <3>3. PartOf(wire, wpending[i].msg) = {}
      BY <2>1, <2>2, <2>3, <3>1 DEF FrontOut
    <3>4. 1 .. (0 + 0) = {}
      OBVIOUS
    <3>5. QED
      BY <3>2, <3>3, <3>4
  <2>6. QED
    BY <2>4, <2>5
<1>2. QED
  BY <1>1, LoopInvariant, PTL

\* Write seeks only in a file it opens: the descriptor is nonetheless where
\* file_offset says the sending is whenever the next chunk is read.
THEOREM PositionFollowsOffset ==
    ASSUME OneLoop
    PROVE  Spec => []PositionIsOffset
<1>1. IInv /\ LoopInv /\ Sofar => PositionIsOffset
  <2> SUFFICES ASSUME IInv, LoopInv, Sofar, NEW t \in Threads, pc[t] = "chunk"
               PROVE  desc[Head(wfiles)].pos = NextOut.file_offset
    BY DEF PositionIsOffset
  <2>1. /\ wpending # <<>> /\ storage[NextOut.msg] = "DISC"
        /\ Head(wfiles) = file[NextOut.msg]
    BY FileFacts
  <2>2. desc[Head(wfiles)].open
    BY DEF LoopInv, ControlInv, At
  <2>3. NextOut.msg \in Msgs /\ NextOut.msg \in Range(Fifo)
    BY <2>1, FrontFacts
  <2>4. QED
    BY <2>1, <2>2, <2>3 DEF LoopInv, DescInv
<1>2. QED
  BY <1>1, LoopInvariant, PTL

\* A message leaves the queue only when all of it is on the wire, unless
\* ResetWbuf discarded it.
THEOREM NothingIsLost ==
    ASSUME OneLoop
    PROVE  Spec => []NothingLost
<1>1. IInv /\ LoopInv /\ Sofar => NothingLost
  <2> SUFFICES ASSUME IInv, LoopInv, Sofar, NEW m \in Range(queued),
                      m \notin {p.msg : p \in Range(wpending)}
               PROVE  m \in dropped \/ OnWire(m)
    BY DEF NothingLost
  <2>1. TypeOK /\ queued \in Seq(Msgs) /\ wpending \in Seq(MsgInfos)
    BY DEF IInv, TypeOK
  <2>2. m \notin Range(Fifo)
    BY <2>1 DEF Range, Fifo
  <2>3. Newest(Fifo, queued) /\ Settled(wire, queued, dropped, Len(queued) - Len(Fifo))
    BY DEF Sofar, History
  <2>4. Fifo \in Seq(Msgs)
    BY <2>1, FifoTypes
  <2> DEFINE f == Fifo
             g == Len(queued) - Len(f)
  <2>5. /\ g \in Nat /\ Len(f) \in Nat /\ Len(queued) \in Nat
        /\ \A i \in 1 .. Len(f) : f[i] = queued[g + i] /\ f[i] \in Range(f)
    <3>1. \A i \in 1 .. Len(f) : f[i] \in Range(f)
      BY <2>4 DEF Range
    <3>2. QED
      BY <2>1, <2>3, <2>4, <3>1, NewestFacts
  <2>6. PICK i \in 1 .. Len(queued) : queued[i] = m
    BY <2>1 DEF Range
  <2>7. CASE i <= g
    <3>1. i \in 1 .. g
      BY <2>5, <2>7
    <3>2. QED
      BY <2>3, <2>6, <3>1 DEF Settled, OnWire, Whole
  <2>8. CASE ~(i <= g)
    <3> HIDE DEF f, g
    <3>1. i - g \in 1 .. Len(f) /\ g + (i - g) = i
      <4>1. Len(f) + g = Len(queued)
        BY <2>5 DEF g
      <4>2. QED
        BY <2>5, <2>8, <4>1
    <3>2. f[i - g] = m /\ f[i - g] \in Range(f)
      BY <2>5, <2>6, <3>1
    <3>3. QED
      BY <2>2, <3>2 DEF f
  <2>9. QED
    BY <2>7, <2>8
<1>2. QED
  BY <1>1, LoopInvariant, PTL

\* The peer gets the messages in the order they were queued and each byte in
\* its place; only one that was discarded may be cut short or missing.
THEOREM WireKeepsOrder ==
    ASSUME OneLoop
    PROVE  Spec => []WireInOrder
<1>1. IInv /\ LoopInv /\ Sofar => WireInOrder
  <2> SUFFICES ASSUME IInv, Sofar PROVE WireInOrder
    OBVIOUS
  <2>1. DOMAIN queued = 1 .. Len(queued)
    BY DEF IInv, TypeOK
  <2>2. InOrder(wire, queued, dropped)
    BY DEF Sofar, History
  <2>3. QED
    BY <2>1, <2>2 DEF InOrder, FirstOf, WireInOrder
<1>2. QED
  BY <1>1, LoopInvariant, PTL

\* IsOutgoingDataPending and IsOutgoingMsgSent agree with each other and with
\* what the peer was sent.
THEOREM EventLoopChecksAgree ==
    ASSUME OneLoop
    PROVE  Spec => []ChecksAgree
<1>1. IInv /\ LoopInv /\ Sofar => ChecksAgree
  <2> SUFFICES ASSUME IInv, LoopInv, Sofar, wpending # <<>>
               PROVE  /\ ~IsOutgoingDataPending => IsOutgoingMsgSent
                      /\ IsOutgoingMsgSent => OnWire(NextOut.msg)
    BY DEF ChecksAgree, IsOutgoingMsgSent
  <2> DEFINE m == NextOut.msg
  <2>1. /\ TypeOK /\ m \in Msgs /\ MsgLen(m) \in Nat /\ SentOfFront \in 0 .. MsgLen(m)
        /\ NextOut.buf_offset \in Nat /\ NextOut.file_offset \in Nat
        /\ SentOfFront = NextOut.buf_offset + NextOut.file_offset
    BY FrontFacts, SentOfFrontTypes DEF LoopInv
  <2>2. storage[m] \in {"MEM", "DISC"} /\ hdr_len[m] \in Nat /\ body_len[m] \in Nat
    BY <2>1, MsgTypes
  <2>3. 1 \in DOMAIN wpending /\ NextOut = wpending[1]
    BY <2>1, FrontTypes DEF TypeOK
  <2>4. ASSUME ~IsOutgoingDataPending PROVE IsOutgoingMsgSent
    <3>1. /\ storage[m] = "MEM" => ~(NextOut.buf_offset < MsgLen(m))
          /\ storage[m] # "MEM" => /\ ~(NextOut.buf_offset < hdr_len[m])
                                   /\ ~(NextOut.file_offset < body_len[m])
      BY <2>3, <2>4 DEF IsOutgoingDataPending
    <3>2. MsgLen(m) = hdr_len[m] + body_len[m]
      BY DEF MsgLen
    <3> HIDE DEF m
    <3>3. \/ NextOut.buf_offset >= MsgLen(m)
          \/ NextOut.file_offset + NextOut.buf_offset >= MsgLen(m)
      BY <2>1, <2>2, <3>1, <3>2
    <3>4. QED
      BY <3>3 DEF IsOutgoingMsgSent, m
  <2>5. ASSUME IsOutgoingMsgSent PROVE OnWire(m)
    <3>1. \/ NextOut.buf_offset >= MsgLen(m)
          \/ NextOut.file_offset + NextOut.buf_offset >= MsgLen(m)
      BY <2>5 DEF IsOutgoingMsgSent
    <3>2. SentOfFront = MsgLen(m)
      BY <2>1, <3>1
    <3>3. PartOf(wire, m) = 1 .. SentOfFront
      <4>1. Fifo # <<>> /\ Fifo[1] = m
        BY <2>1, FifoTypes
      <4>2. QED
        BY <4>1 DEF Sofar, History, FrontOut
    <3>4. QED
      BY <3>2, <3>3, WholePart DEF OnWire, Whole
  <2>6. QED
    BY <2>4, <2>5
<1>2. QED
  BY <1>1, LoopInvariant, PTL

\* Every effect is a step of MsgQueue's, or none.
LEMMA EffectRefines ==
    ASSUME IInv, LoopInv, Effect
    PROVE  [Abstract!Next]_(Abstract!vars)
<1> DEFINE f == Fifo
           s == SentOfFront
<1>1. f \in Seq(Msgs) /\ s \in Nat /\ (f # <<>> => Head(f) = f[1] /\ f[1] \in Msgs)
  BY FifoTypes, SentOfFrontTypes DEF IInv, LoopInv
<1>2. ASSUME NEW n \in Nat, f # <<>> PROVE Piece(f[1], s, n) = Abstract!Bytes(n)
  BY <1>1, <1>2 DEF Piece, Abstract!Bytes
<1>3. ASSUME f # <<>> PROVE Abstract!Left = MsgLen(f[1]) - s /\ MsgLen(f[1]) \in Nat
  BY <1>1, <1>3, MsgTypes DEF Abstract!Left
<1>4. CASE Still
  BY <1>4 DEF Still, Abstract!vars
<1>5. ASSUME NEW m \in Msgs, Queues(m) PROVE Abstract!Next
  BY <1>5 DEF Queues, Abstract!Next, Abstract!Queue
<1>6. ASSUME NEW n \in Nat, f # <<>>, Sends(n) \/ GivesUp(n) PROVE Abstract!Next
  <2>1. s + n <= MsgLen(f[1]) /\ wire' = wire \o Abstract!Bytes(n)
    BY <1>2, <1>6 DEF Sends, GivesUp, Out
  <2>2. n \in 0 .. Abstract!Left
    BY <1>1, <1>3, <1>6, <2>1
  <2>3. CASE Sends(n)
    BY <1>6, <2>1, <2>2, <2>3 DEF Sends, Abstract!Next, Abstract!Send
  <2>4. CASE GivesUp(n)
    BY <1>6, <2>1, <2>2, <2>4 DEF GivesUp, Abstract!Next, Abstract!GiveUp
  <2>5. QED
    BY <1>6, <2>3, <2>4
<1>7. ASSUME f # <<>>, Finishes PROVE Abstract!Next
  <2>1. Abstract!Left = 0
    BY <1>1, <1>3, <1>7 DEF Finishes
  <2>2. QED
    BY <1>7, <2>1 DEF Finishes, Abstract!Next, Abstract!Done
<1>8. QED
  BY <1>4, <1>5, <1>6, <1>7 DEF Effect

\* With one thread in the loop the session is MsgQueue: whatever the lengths
\* of messages, chunks and buffer, and wherever Write stops, messages go out
\* whole, once and in order, or are given up all at once.
THEOREM SessionIsMsgQueue ==
    ASSUME OneLoop
    PROVE  Spec => ImplementsMsgQueue
<1>1. Init => Abstract!Init
  BY DEF Init, Abstract!Init, Fifo, SentOfFront
<1>2. IInv /\ LoopInv /\ Sofar /\ [Next]_vars => [Abstract!Next]_(Abstract!vars)
  BY LoopNext, EffectRefines
<1>3. QED
  BY <1>1, <1>2, LoopInvariant, PTL DEF Spec, ImplementsMsgQueue, Abstract!Spec
=============================================================================

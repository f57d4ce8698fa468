------------------------- MODULE SyscallLoopsProofs -------------------------
(* Proofs about SyscallLoops: for any buffer and stream, and whatever the    *)
(* kernel answers, Write and its kin report what was sent, and Read and its  *)
(* kin lose nothing between two calls.                                       *)
EXTENDS SyscallLoops, SequenceTheorems, TLAPS

LookUps == {"get_reverse_dns", "ResolveDNSName", "Init"}
Sending == {"Write", "Sendto", "Sendmsg"}
Reading == {"Read", "Recv", "ReadExhaustive", "ReadLine"}
Operations == Sending \cup Reading \cup LookUps \cup Copying

CallRecord ==
  [op : Operations, blocking : BOOLEAN, len : Nat, off : Nat, n : Nat, m : Nat, retry : Int, tries : Nat,
   asked : Int, family : Families \cup {AF_UNSPEC}, wanted : Families \cup {AF_UNSPEC}, bytes : Seq(Nat),
   from : Nat, done : BOOLEAN, result : Int, event : BOOLEAN, eof : BOOLEAN]

(* What the kernel has of the stream, and what of it was read. *)
Typed ==
  /\ call \in CallRecord /\ call.m <= call.n /\ call.n <= call.off
  /\ arrived \in 0 .. Len(Text) /\ got \in 0 .. arrived
  /\ closed \in BOOLEAN /\ (closed => arrived = Len(Text))

-----------------------------------------------------------------------------
(* Intervals *)

LEMMA TextIsSeq == Text \in Seq({"x", "NUL", "CR", "LF"}) /\ Len(Text) \in Nat
BY LoopsAssumption

LEMMA IntervalIs ==
  ASSUME NEW a \in Nat, NEW b \in Nat, a <= b
  PROVE  /\ Interval(a, b) \in Seq(Nat) /\ Len(Interval(a, b)) = b - a
         /\ \A i \in 1 .. b - a : Interval(a, b)[i] = a + i
<1>1. b - a \in Nat
  OBVIOUS
<1>2. \A i \in 1 .. b - a : a + i \in Nat
  OBVIOUS
<1>3. Interval(a, b) \in [1 .. b - a -> Nat] /\ DOMAIN Interval(a, b) = 1 .. b - a
  BY <1>2 DEF Interval
<1>4. Interval(a, b) \in Seq(Nat)
  BY <1>1, <1>3
<1>5. Len(Interval(a, b)) = b - a
  BY <1>1, <1>3, <1>4
<1> QED BY <1>4, <1>5 DEF Interval

LEMMA IntervalNone ==
  ASSUME NEW a \in Nat
  PROVE  Interval(a, a) = <<>>
<1>1. Interval(a, a) \in Seq(Nat) /\ Len(Interval(a, a)) = 0
  BY IntervalIs
<1> QED BY <1>1, EmptySeq

LEMMA IntervalsJoin ==
  ASSUME NEW a \in Nat, NEW b \in Nat, NEW c \in Nat, a <= b, b <= c
  PROVE  Interval(a, b) \o Interval(b, c) = Interval(a, c)
<1> DEFINE l == Interval(a, b)
           r == Interval(b, c)
           t == Interval(a, c)
<1>1. /\ l \in Seq(Nat) /\ Len(l) = b - a /\ \A i \in 1 .. b - a : l[i] = a + i
      /\ r \in Seq(Nat) /\ Len(r) = c - b /\ \A i \in 1 .. c - b : r[i] = b + i
      /\ t \in Seq(Nat) /\ Len(t) = c - a /\ \A i \in 1 .. c - a : t[i] = a + i
  <2>1. l \in Seq(Nat) /\ Len(l) = b - a /\ \A i \in 1 .. b - a : l[i] = a + i
    BY IntervalIs
  <2>2. r \in Seq(Nat) /\ Len(r) = c - b /\ \A i \in 1 .. c - b : r[i] = b + i
    BY IntervalIs
  <2>3. a <= c
    OBVIOUS
  <2>4. t \in Seq(Nat) /\ Len(t) = c - a /\ \A i \in 1 .. c - a : t[i] = a + i
    BY <2>3, IntervalIs
  <2> QED BY <2>1, <2>2, <2>4
<1> HIDE DEF l, r, t
<1>2. /\ l \o r \in Seq(Nat) /\ Len(l \o r) = Len(l) + Len(r)
      /\ \A i \in 1 .. Len(l) + Len(r) : (l \o r)[i] = IF i <= Len(l) THEN l[i] ELSE r[i - Len(l)]
  BY <1>1, ConcatProperties
<1>3. Len(l \o r) = Len(t)
  BY <1>1, <1>2
<1>4. ASSUME NEW i \in 1 .. Len(l \o r) PROVE (l \o r)[i] = t[i]
  <2> i \in Int
    OBVIOUS
  <2>1. CASE i <= b - a
    BY <1>1, <1>2, <2>1
  <2>2. CASE ~(i <= b - a)
    <3>1. i - (b - a) \in 1 .. c - b
      BY <1>1, <1>2, <2>2
    <3>2. r[i - (b - a)] = b + (i - (b - a))
      BY <1>1, <3>1
    <3>3. i \in 1 .. c - a /\ i \in 1 .. Len(l) + Len(r) /\ ~(i <= Len(l)) /\ i - Len(l) = i - (b - a)
      BY <1>1, <1>2, <2>2
    <3>4. (l \o r)[i] = r[i - (b - a)]
      BY <1>2, <3>3
    <3>5. t[i] = a + i /\ b + (i - (b - a)) = a + i
      BY <1>1, <3>3
    <3> QED BY <3>2, <3>4, <3>5
  <2> QED BY <2>1, <2>2
<1>5. l \o r = t
  <2>1. PICK u : u = l \o r
    OBVIOUS
  <2>2. u \in Seq(Nat) /\ t \in Seq(Nat) /\ Len(u) = Len(t) /\ \A i \in 1 .. Len(u) : u[i] = t[i]
    BY <1>1, <1>2, <1>3, <1>4, <2>1
  <2>3. u = t
    BY ONLY <2>2, SeqEqual
  <2> QED BY <2>1, <2>3
<1> QED BY <1>5 DEF l, r, t

-----------------------------------------------------------------------------
(* What the steps are made of *)

(* d is c but for its outcome and what was sent or read. *)
Alike(c, d) ==
  d.op = c.op /\ d.blocking = c.blocking /\ d.len = c.len /\ d.from = c.from /\ d.n = c.n /\ d.m = c.m

Progress(c, d) == d.off = c.off /\ d.bytes = c.bytes /\ d.eof = c.eof

LEMMA ReturnIs ==
  ASSUME NEW c \in CallRecord, NEW r \in Int
  PROVE  /\ Return(c, r) \in CallRecord /\ Alike(c, Return(c, r)) /\ Progress(c, Return(c, r))
         /\ Return(c, r).done /\ Return(c, r).result = r /\ Return(c, r).event = c.event
BY DEF Return, CallRecord, Alike, Progress

LEMMA FailIs ==
  ASSUME NEW c \in CallRecord, NEW r \in Int
  PROVE  /\ Fail(c, r) \in CallRecord /\ Alike(c, Fail(c, r)) /\ Progress(c, Fail(c, r))
         /\ Fail(c, r).done /\ Fail(c, r).event
<1>1. /\ Return(c, r) \in CallRecord /\ Alike(c, Return(c, r)) /\ Progress(c, Return(c, r)) /\ Return(c, r).done
  BY ReturnIs
<1>2. Fail(c, r) = [Return(c, r) EXCEPT !.event = TRUE]
  BY DEF Fail
<1> QED BY <1>1, <1>2 DEF CallRecord, Alike, Progress

(* Bytes a .. b of wherever they come from are added to those of c. *)
Extended(c, a, n, d) == d.off = c.off + n /\ d.bytes = c.bytes \o Interval(a, a + n)

LEMMA SentIs ==
  ASSUME NEW c \in CallRecord, NEW n \in Nat
  PROVE  /\ Sent(c, n) \in CallRecord /\ Alike(c, Sent(c, n)) /\ Extended(c, c.off, n, Sent(c, n))
         /\ Sent(c, n).done = c.done /\ Sent(c, n).event = c.event /\ Sent(c, n).eof = c.eof
<1>1. PICK a \in Nat : a = c.off
  BY DEF CallRecord
<1>2. PICK e \in Nat : e = a + n
  OBVIOUS
<1>3. PICK i : i = Interval(a, e)
  OBVIOUS
<1>4. PICK b : b = c.bytes \o i
  OBVIOUS
<1>5. i \in Seq(Nat)
  BY ONLY a \in Nat, n \in Nat, e \in Nat, <1>2, <1>3, IntervalIs
<1>6. c.bytes \in Seq(Nat) /\ c.off \in Nat
  BY DEF CallRecord
<1>7. b \in Seq(Nat)
  BY ONLY <1>4, <1>5, <1>6, ConcatProperties
<1>8. PICK o \in Nat : o = c.off + n
  BY <1>6
<1>9. Sent(c, n) = [c EXCEPT !.off = o, !.bytes = b]
  BY <1>1, <1>2, <1>3, <1>4, <1>8 DEF Sent
<1>10. PICK d : d = Sent(c, n)
  OBVIOUS
<1>11. /\ d \in CallRecord /\ Alike(c, d) /\ d.off = o /\ d.bytes = b /\ d.done = c.done /\ d.event = c.event
       /\ d.eof = c.eof
  BY ONLY c \in CallRecord, o \in Nat, <1>7, <1>9, <1>10 DEF CallRecord, Alike
<1>12. d.bytes = c.bytes \o Interval(c.off, c.off + n)
  BY <1>1, <1>2, <1>3, <1>4, <1>11
<1> QED BY <1>8, <1>10, <1>11, <1>12 DEF Extended

LEMMA StoredIs ==
  ASSUME NEW c \in CallRecord, NEW n \in Nat, got \in Nat
  PROVE  /\ Stored(c, n) \in CallRecord /\ Alike(c, Stored(c, n)) /\ Extended(c, got, n, Stored(c, n))
         /\ Stored(c, n).done = c.done /\ Stored(c, n).event = c.event /\ Stored(c, n).eof = c.eof
<1>1. PICK a \in Nat : a = got
  BY DEF CallRecord
<1>2. PICK e \in Nat : e = a + n
  OBVIOUS
<1>3. PICK i : i = Interval(a, e)
  OBVIOUS
<1>4. PICK b : b = c.bytes \o i
  OBVIOUS
<1>5. i \in Seq(Nat)
  BY ONLY a \in Nat, n \in Nat, e \in Nat, <1>2, <1>3, IntervalIs
<1>6. c.bytes \in Seq(Nat) /\ c.off \in Nat
  BY DEF CallRecord
<1>7. b \in Seq(Nat)
  BY ONLY <1>4, <1>5, <1>6, ConcatProperties
<1>8. PICK o \in Nat : o = c.off + n
  BY <1>6
<1>9. Stored(c, n) = [c EXCEPT !.off = o, !.bytes = b]
  BY <1>1, <1>2, <1>3, <1>4, <1>8 DEF Stored
<1>10. PICK d : d = Stored(c, n)
  OBVIOUS
<1>11. /\ d \in CallRecord /\ Alike(c, d) /\ d.off = o /\ d.bytes = b /\ d.done = c.done /\ d.event = c.event
       /\ d.eof = c.eof
  BY ONLY c \in CallRecord, o \in Nat, <1>7, <1>9, <1>10 DEF CallRecord, Alike
<1>12. d.bytes = c.bytes \o Interval(got, got + n)
  BY <1>1, <1>2, <1>3, <1>4, <1>11
<1> QED BY <1>8, <1>10, <1>11, <1>12 DEF Extended

LEMMA SentReturnIs ==
  ASSUME NEW c \in CallRecord, NEW n \in Nat, NEW r \in Int
  PROVE  LET d == Return(Sent(c, n), r) IN
         /\ d \in CallRecord /\ Alike(c, d) /\ Extended(c, c.off, n, d)
         /\ d.done /\ d.result = r /\ d.event = c.event /\ d.eof = c.eof
<1>1. PICK e : e = Sent(c, n)
  OBVIOUS
<1>2. e \in CallRecord /\ Alike(c, e) /\ Extended(c, c.off, n, e) /\ e.event = c.event /\ e.eof = c.eof
  BY <1>1, SentIs
<1>3. /\ Return(e, r) \in CallRecord /\ Alike(e, Return(e, r)) /\ Progress(e, Return(e, r))
      /\ Return(e, r).done /\ Return(e, r).result = r /\ Return(e, r).event = e.event
  BY <1>2, ReturnIs
<1> QED BY <1>1, <1>2, <1>3 DEF Alike, Progress, Extended

LEMMA StoredReturnIs ==
  ASSUME NEW c \in CallRecord, NEW n \in Nat, NEW r \in Int, got \in Nat
  PROVE  LET d == Return(Stored(c, n), r) IN
         /\ d \in CallRecord /\ Alike(c, d) /\ Extended(c, got, n, d)
         /\ d.done /\ d.result = r /\ d.event = c.event /\ d.eof = c.eof
<1>1. PICK e : e = Stored(c, n)
  OBVIOUS
<1>2. e \in CallRecord /\ Alike(c, e) /\ Extended(c, got, n, e) /\ e.event = c.event /\ e.eof = c.eof
  BY <1>1, StoredIs
<1>3. /\ Return(e, r) \in CallRecord /\ Alike(e, Return(e, r)) /\ Progress(e, Return(e, r))
      /\ Return(e, r).done /\ Return(e, r).result = r /\ Return(e, r).event = e.event
  BY <1>2, ReturnIs
<1> QED BY <1>1, <1>2, <1>3 DEF Alike, Progress, Extended

LEMMA EndReturnIs ==
  ASSUME NEW c \in CallRecord, NEW r \in Int
  PROVE  LET d == Return([c EXCEPT !.eof = TRUE], r) IN
         /\ d \in CallRecord /\ Alike(c, d) /\ d.off = c.off /\ d.bytes = c.bytes
         /\ d.done /\ d.result = r /\ d.event = c.event
<1>1. PICK e : e = [c EXCEPT !.eof = TRUE]
  OBVIOUS
<1>2. e \in CallRecord /\ Alike(c, e) /\ e.off = c.off /\ e.bytes = c.bytes /\ e.event = c.event
  BY <1>1 DEF CallRecord, Alike
<1>3. /\ Return(e, r) \in CallRecord /\ Alike(e, Return(e, r)) /\ Progress(e, Return(e, r))
      /\ Return(e, r).done /\ Return(e, r).result = r /\ Return(e, r).event = e.event
  BY <1>2, ReturnIs
<1> QED BY <1>1, <1>2, <1>3 DEF Alike, Progress

(* A call that was just made. *)
LEMMA NewCallIs ==
  ASSUME NEW op \in Operations, NEW b \in BOOLEAN, NEW len \in Nat, NEW retry \in Int, got \in Nat,
         NEW c, c = NewCall(op, b, len, retry)
  PROVE  /\ c \in CallRecord /\ c.op = op /\ c.len = len /\ c.off = 0 /\ c.bytes = <<>> /\ c.from = got
         /\ ~c.done /\ ~c.event /\ ~c.eof /\ c.m = 0 /\ c.n = 0 /\ c.blocking = b
<1>1. <<>> \in Seq(Nat)
  BY EmptySeq
<1> QED BY <1>1 DEF NewCall, CallRecord


(* What holds of each call when it is made. *)
Made(c) ==
  /\ c \in CallRecord /\ c.off = 0 /\ c.bytes = <<>> /\ ~c.done /\ ~c.event /\ ~c.eof
  /\ c.op \in Reading => c.from = got
  /\ c.op \in Sending \cup Reading \cup LookUps \cup {"CopyOpen"}
  /\ c.op \in {"Read", "Recv", "ReadLine"} => c.len > 0
  /\ c.op = "ReadExhaustive" => c.len \in ExhaustiveLens
  /\ c.m = 0 /\ c.n = 0

LEMMA Arguments ==
  /\ \A len \in Lens : len \in Nat
  /\ \A len \in Lens \ {0} : len \in Nat /\ len > 0
  /\ \A len \in ExhaustiveLens : len \in Nat
  /\ \A retry \in Retries : retry \in Int
<1>1. Lens \subseteq Nat /\ ExhaustiveLens \subseteq Nat /\ Retries \subseteq Int
  BY LoopsAssumption
<1> QED BY ONLY <1>1

LEMMA NewCallIsMade ==
  ASSUME NEW op \in Sending \cup Reading \cup LookUps \cup {"CopyOpen"}, NEW b \in BOOLEAN, NEW len \in Nat,
         NEW retry \in Int, got \in Nat, op \in {"Read", "Recv", "ReadLine"} => len > 0,
         op = "ReadExhaustive" => len \in ExhaustiveLens
  PROVE  Made(NewCall(op, b, len, retry)) /\ NewCall(op, b, len, retry).op = op
<1>1. op \in Operations
  BY DEF Operations, Copying
<1>2. PICK c : c = NewCall(op, b, len, retry)
  OBVIOUS
<1>3. /\ c \in CallRecord /\ c.op = op /\ c.len = len /\ c.off = 0 /\ c.bytes = <<>> /\ c.from = got
      /\ ~c.done /\ ~c.event /\ ~c.eof /\ c.m = 0 /\ c.n = 0
  BY <1>1, <1>2, NewCallIs
<1> QED BY <1>2, <1>3 DEF Made

LEMMA LookUpIsMade ==
  ASSUME NEW op \in LookUps, NEW retry \in Int, NEW f \in Families \cup {AF_UNSPEC}, got \in Nat, NEW c, NEW d,
         d = NewCall(op, TRUE, 0, retry),
         c = [d EXCEPT !.family = f] \/ c = [d EXCEPT !.wanted = f]
  PROVE  Made(c)
<1>1. op \in Sending \cup Reading \cup LookUps \cup {"CopyOpen"} /\ op \notin {"Read", "Recv", "ReadLine", "ReadExhaustive"}
  BY DEF LookUps
<1>2. Made(d) /\ d.op = op
  BY ONLY <1>1, retry \in Int, got \in Nat, d = NewCall(op, TRUE, 0, retry), NewCallIsMade
<1>3. /\ d \in CallRecord /\ d.op = op /\ d.off = 0 /\ d.bytes = <<>>
      /\ ~d.done /\ ~d.event /\ ~d.eof /\ d.m = 0 /\ d.n = 0
  BY <1>2 DEF Made
<1>4. /\ c \in CallRecord /\ c.op = op /\ c.off = 0 /\ c.bytes = <<>>
      /\ ~c.done /\ ~c.event /\ ~c.eof /\ c.m = 0 /\ c.n = 0
  BY ONLY <1>3, c = [d EXCEPT !.family = f] \/ c = [d EXCEPT !.wanted = f], f \in Families \cup {AF_UNSPEC} DEF CallRecord
<1> QED BY <1>1, <1>4 DEF Made, Reading

LEMMA CallIsMade ==
  ASSUME got \in Nat, NEW c \in Calls
  PROVE  Made(c)
<1>1. ASSUME NEW op \in Sending, NEW b \in BOOLEAN, NEW len \in Lens, c = NewCall(op, b, len, 0)
      PROVE  Made(c)
  <2>1. op \in Sending \cup Reading \cup LookUps \cup {"CopyOpen"} /\ op \notin Reading /\ len \in Nat
    BY Arguments DEF Sending, Reading
  <2> QED BY <1>1, <2>1, NewCallIsMade DEF Reading
<1>2. ASSUME NEW op \in {"Read", "Recv"}, NEW b \in BOOLEAN, NEW len \in Lens \ {0}, c = NewCall(op, b, len, 0)
      PROVE  Made(c)
  <2>1. op \in Sending \cup Reading \cup LookUps \cup {"CopyOpen"} /\ op # "ReadExhaustive" /\ len \in Nat /\ len > 0
    BY Arguments DEF Reading
  <2> QED BY <1>2, <2>1, NewCallIsMade
<1>3. ASSUME NEW b \in BOOLEAN, NEW len \in ExhaustiveLens, c = NewCall("ReadExhaustive", b, len, 0)
      PROVE  Made(c)
  <2>1. "ReadExhaustive" \in Sending \cup Reading \cup LookUps \cup {"CopyOpen"} /\ len \in Nat
    BY Arguments DEF Reading
  <2> QED BY <1>3, <2>1, NewCallIsMade
<1>4. ASSUME NEW len \in Lens \ {0}, c = NewCall("ReadLine", TRUE, len, 0)
      PROVE  Made(c)
  <2>1. len \in Nat /\ len > 0
    BY Arguments
  <2>2. "ReadLine" \in Sending \cup Reading \cup LookUps \cup {"CopyOpen"}
    BY DEF Reading
  <2>3. TRUE \in BOOLEAN /\ 0 \in Int /\ "ReadLine" # "ReadExhaustive"
    OBVIOUS
  <2>4. Made(NewCall("ReadLine", TRUE, len, 0))
    BY ONLY <2>1, <2>2, <2>3, got \in Nat, NewCallIsMade
  <2> QED BY <1>4, <2>4
<1>5. ASSUME NEW position \in 0 .. FileLen, c = [NewCall("CopyOpen", TRUE, 0, 0) EXCEPT !.from = position]
      PROVE  Made(c)
  <2>1. "CopyOpen" \in Sending \cup Reading \cup LookUps \cup {"CopyOpen"} /\ position \in Nat
    BY LoopsAssumption
  <2>2. /\ TRUE \in BOOLEAN /\ 0 \in Nat /\ 0 \in Int
        /\ "CopyOpen" \notin {"Read", "Recv", "ReadLine", "ReadExhaustive"}
    OBVIOUS
  <2>3. PICK d : d = NewCall("CopyOpen", TRUE, 0, 0)
    OBVIOUS
  <2>4. Made(d) /\ d.op = "CopyOpen"
    BY ONLY <2>1, <2>2, <2>3, got \in Nat, NewCallIsMade
  <2>5. /\ d \in CallRecord /\ d.op = "CopyOpen" /\ d.off = 0 /\ d.bytes = <<>>
        /\ ~d.done /\ ~d.event /\ ~d.eof /\ d.m = 0 /\ d.n = 0
    BY <2>4 DEF Made
  <2>6. c = [d EXCEPT !.from = position]
    BY <1>5, <2>3
  <2>7. /\ c \in CallRecord /\ c.op = "CopyOpen" /\ c.off = 0 /\ c.bytes = <<>>
        /\ ~c.done /\ ~c.event /\ ~c.eof /\ c.m = 0 /\ c.n = 0
    BY ONLY <2>1, <2>5, <2>6 DEF CallRecord
  <2> QED BY <2>1, <2>7 DEF Made, Reading
<1>6. ASSUME NEW retry \in Retries, c = NewCall("get_reverse_dns", TRUE, 0, retry)
      PROVE  Made(c)
  <2>1. "get_reverse_dns" \in Sending \cup Reading \cup LookUps \cup {"CopyOpen"} /\ retry \in Int
    BY Arguments DEF LookUps
  <2> QED BY <1>6, <2>1, NewCallIsMade
<1>7. ASSUME NEW op \in {"ResolveDNSName", "Init"}, NEW retry \in Retries, NEW f \in Families \cup {AF_UNSPEC},
             LET d == NewCall(op, TRUE, 0, retry) IN c = [d EXCEPT !.family = f] \/ c = [d EXCEPT !.wanted = f]
      PROVE  Made(c)
  <2>1. op \in LookUps /\ retry \in Int
    BY Arguments DEF LookUps
  <2>2. PICK d : d = NewCall(op, TRUE, 0, retry)
    OBVIOUS
  <2>3. c = [d EXCEPT !.family = f] \/ c = [d EXCEPT !.wanted = f]
    BY <1>7, <2>2
  <2> QED BY ONLY <2>1, <2>2, <2>3, f \in Families \cup {AF_UNSPEC}, got \in Nat, LookUpIsMade
<1> DEFINE Fams == Families \cup {AF_UNSPEC}
           S1 == {NewCall(op, b, len, 0) : op \in {"Write", "Sendto", "Sendmsg"}, b \in BOOLEAN, len \in Lens}
           S2 == {NewCall(op, b, len, 0) : op \in {"Read", "Recv"}, b \in BOOLEAN, len \in Lens \ {0}}
           S3 == {NewCall("ReadExhaustive", b, len, 0) : b \in BOOLEAN, len \in ExhaustiveLens}
           S4 == {NewCall("ReadLine", TRUE, len, 0) : len \in Lens \ {0}}
           CopyOf(position) == [NewCall("CopyOpen", TRUE, 0, 0) EXCEPT !.from = position]
           S5 == {CopyOf(position) : position \in 0 .. FileLen}
           S6 == {NewCall("get_reverse_dns", TRUE, 0, retry) : retry \in Retries}
           Resolve(retry, f) == [NewCall("ResolveDNSName", TRUE, 0, retry) EXCEPT !.family = f]
           Named(retry, f) == [NewCall("Init", TRUE, 0, retry) EXCEPT !.wanted = f]
           S7 == {Resolve(retry, f) : retry \in Retries, f \in Fams}
           S8 == {Named(retry, f) : retry \in Retries, f \in Fams}
<1> HIDE DEF Resolve, Named, CopyOf
<1>8. /\ c \in S1 => Made(c)
      /\ c \in S2 => Made(c)
      /\ c \in S3 => Made(c)
      /\ c \in S4 => Made(c)
  <2>1. ASSUME c \in S1 PROVE \E op \in Sending, b \in BOOLEAN, len \in Lens : c = NewCall(op, b, len, 0)
    BY <2>1 DEF Sending
  <2>2. ASSUME c \in S2
        PROVE  \E op \in {"Read", "Recv"}, b \in BOOLEAN, len \in Lens \ {0} : c = NewCall(op, b, len, 0)
    BY <2>2
  <2>3. ASSUME c \in S3 PROVE \E b \in BOOLEAN, len \in ExhaustiveLens : c = NewCall("ReadExhaustive", b, len, 0)
    BY <2>3
  <2>4. ASSUME c \in S4 PROVE \E len \in Lens \ {0} : c = NewCall("ReadLine", TRUE, len, 0)
    BY <2>4
  <2> HIDE DEF S1, S2, S3, S4
  <2> QED BY <1>1, <1>2, <1>3, <1>4, <2>1, <2>2, <2>3, <2>4
<1>9. /\ c \in S5 => Made(c)
      /\ c \in S6 => Made(c)
      /\ c \in S7 => Made(c)
      /\ c \in S8 => Made(c)
  <2>1. ASSUME c \in S6 PROVE \E retry \in Retries : c = NewCall("get_reverse_dns", TRUE, 0, retry)
    BY <2>1
  <2>2. ASSUME c \in S7
        PROVE  \E retry \in Retries, f \in Fams : c = Resolve(retry, f)
    BY <2>2
  <2>3. ASSUME c \in S8
        PROVE  \E retry \in Retries, f \in Fams : c = Named(retry, f)
    BY <2>3
  <2>4. ASSUME c \in S5 PROVE \E position \in 0 .. FileLen : c = CopyOf(position)
    BY <2>4
  <2> HIDE DEF S5, S6, S7, S8
  <2>5. c \in S5 => Made(c)
    BY <1>5, <2>4 DEF CopyOf
  <2>6. c \in S6 => Made(c)
    BY <1>6, <2>1
  <2>7. ASSUME NEW retry \in Retries, NEW f \in Fams, c = Resolve(retry, f) \/ c = Named(retry, f) PROVE Made(c)
    <3>1. CASE c = Resolve(retry, f)
      BY <1>7, <3>1 DEF Resolve
    <3>2. CASE c = Named(retry, f)
      BY <1>7, <3>2 DEF Named
    <3> QED BY <2>7, <3>1, <3>2
  <2>8. c \in S7 => Made(c)
    BY <2>2, <2>7
  <2>9. c \in S8 => Made(c)
    BY <2>3, <2>7
  <2> QED BY <2>5, <2>6, <2>8, <2>9
<1>10. Calls = S1 \cup S2 \cup S3 \cup S4 \cup S5 \cup S6 \cup S7 \cup S8
  BY DEF Calls, Resolve, Named, CopyOf
<1> HIDE DEF S1, S2, S3, S4, S5, S6, S7, S8
<1> QED BY <1>8, <1>9, <1>10

-----------------------------------------------------------------------------
(* The invariants *)

(* What an unfinished Write, Sendto or Sendmsg sent so far is the buffer up  *)
(* to its offset, and what it returns is that offset.                        *)
SendInv ==
  call.op \in Sending =>
    /\ call.off <= call.len /\ call.bytes = Interval(0, call.off)
    /\ ~call.done /\ call.op # "Write" => call.off = 0
    /\ call.done /\ ~call.event => call.result = call.off

(* What an unfinished call read so far is all that was taken off the stream  *)
(* since it was made, and there is room for more.                            *)
ReadInv ==
  call.op \in Reading =>
    /\ call.bytes = Interval(call.from, call.from + call.off)
    /\ ~call.done => got = call.from + call.off /\ ~call.eof
    /\ ~call.done /\ call.op \in {"Read", "Recv"} => call.off = 0
    /\ call.op # "ReadExhaustive" => call.len > 0
    /\ call.op = "ReadExhaustive" => call.len > Len(Text)
    /\ call.op = "ReadLine" =>
         /\ ~call.done => call.off <= call.len - 1
         /\ \A i \in 1 .. call.off : Text[call.from + i] \notin Terminators
    /\ call.done /\ ~call.event =>
         /\ call.result \in {call.off, -1}
         /\ \/ got = call.from + call.off
            \/ got = call.from + call.off + 1 /\ call.op = "ReadLine" /\ Text[got] \in Terminators
         /\ call.eof => closed /\ got = Len(Text)
         /\ call.op = "ReadLine" =>
              got = call.from + call.off + 1 \/ call.eof \/ call.result = call.len - 1

-----------------------------------------------------------------------------
(* What the steps of a call do *)

(* The kernel took n more bytes of what a sending call is at. *)
SentMore(n) ==
  /\ Extended(call, call.off, n, call') /\ call'.event = call.event
  /\ IF call'.off >= call.len THEN call'.done /\ call'.result = call'.off ELSE call'.done = call.done

(* It took nothing, for now or because of an error. *)
SentNoMore ==
  /\ call'.off = call.off /\ call'.bytes = call.bytes /\ call'.done
  /\ call'.event \/ (call'.event = call.event /\ call'.result = call.off)

LEMMA SendsDo ==
  ASSUME call \in CallRecord, NEW count \in Int, NEW whole \in BOOLEAN, whole => count >= 0, Sends(count, whole)
  PROVE  /\ call' \in CallRecord /\ Alike(call, call')
         /\ SentNoMore \/ \E n \in Taken(count, whole) : n \in Nat /\ SentMore(n)
<1>1. call.off \in Int
  BY DEF CallRecord
<1>2. ASSUME NEW n \in Taken(count, whole),
             LET c == Sent(call, n) IN call' = IF c.off >= c.len THEN Return(c, c.off) ELSE c
      PROVE  call' \in CallRecord /\ Alike(call, call') /\ n \in Nat /\ SentMore(n)
  <2>1. n \in Nat
    BY DEF Taken
  <2>2. PICK c : c = Sent(call, n)
    OBVIOUS
  <2>3. c \in CallRecord /\ Alike(call, c) /\ Extended(call, call.off, n, c) /\ c.event = call.event /\ c.done = call.done
    BY <2>1, <2>2, SentIs
  <2>4. c.off \in Int
    BY <2>3 DEF CallRecord
  <2>5. CASE c.off >= c.len
    <3>1. call' = Return(c, c.off)
      BY <1>2, <2>2, <2>5
    <3>2. call' \in CallRecord /\ Alike(c, call') /\ Progress(c, call') /\ call'.done /\ call'.result = c.off /\ call'.event = c.event
      BY <2>3, <2>4, <3>1, ReturnIs
    <3> QED BY <2>1, <2>3, <2>5, <3>2 DEF Alike, Progress, Extended, SentMore
  <2>6. CASE ~(c.off >= c.len)
    <3>1. call' = c
      BY <1>2, <2>2, <2>6
    <3> QED BY <2>1, <2>3, <2>6, <3>1 DEF Alike, SentMore
  <2> QED BY <2>5, <2>6
<1>3. CASE call' = Return(call, call.off)
  <2>1. /\ call' \in CallRecord /\ Alike(call, call') /\ Progress(call, call')
        /\ call'.done /\ call'.result = call.off /\ call'.event = call.event
    BY <1>1, <1>3, ReturnIs
  <2> QED BY <2>1 DEF Progress, SentNoMore
<1>4. CASE call' = Fail(call, 0)
  <2>1. call' \in CallRecord /\ Alike(call, call') /\ Progress(call, call') /\ call'.done /\ call'.event
    BY <1>4, FailIs
  <2> QED BY <2>1 DEF Progress, SentNoMore
<1> QED
  <2>1. CASE \E n \in Taken(count, whole) :
               LET c == Sent(call, n) IN call' = IF c.off >= c.len THEN Return(c, c.off) ELSE c
    BY <1>2, <2>1
  <2> QED BY <1>3, <1>4, <2>1 DEF Sends

(* Sendmsg is done after one system call. *)
LEMMA SendmsgDoes ==
  ASSUME call \in CallRecord, SendmsgStep
  PROVE  /\ call' \in CallRecord /\ Alike(call, call') /\ call'.done
         /\ \/ \E n \in Taken(call.len, FALSE) :
                 n \in Nat /\ Extended(call, call.off, n, call') /\ call'.event = call.event /\ call'.result = n
            \/ /\ call'.off = call.off /\ call'.bytes = call.bytes
               /\ call'.event \/ (call'.event = call.event /\ call'.result = 0)
<1>1. ASSUME NEW n \in Taken(call.len, FALSE), call' = Return(Sent(call, n), n)
      PROVE  /\ call' \in CallRecord /\ Alike(call, call') /\ call'.done /\ n \in Nat
             /\ Extended(call, call.off, n, call') /\ call'.event = call.event /\ call'.result = n
  <2>1. n \in Nat
    BY DEF Taken, CallRecord
  <2> QED BY <1>1, <2>1, SentReturnIs
<1>2. CASE call' = Return(call, 0)
  <2>1. /\ call' \in CallRecord /\ Alike(call, call') /\ Progress(call, call')
        /\ call'.done /\ call'.result = 0 /\ call'.event = call.event
    BY <1>2, ReturnIs
  <2> QED BY <2>1 DEF Progress
<1>3. CASE call' = Fail(call, 0)
  <2>1. call' \in CallRecord /\ Alike(call, call') /\ Progress(call, call') /\ call'.done /\ call'.event
    BY <1>3, FailIs
  <2> QED BY <2>1 DEF Progress
<1> QED
  <2>1. CASE \E n \in Taken(call.len, FALSE) : call' = Return(Sent(call, n), n)
    BY <1>1, <2>1
  <2> QED BY <1>2, <1>3, <2>1 DEF SendmsgStep

(* n more bytes of the stream were read. *)
ReadMore(n) ==
  /\ n \in Nat /\ n \in 1 .. arrived - got /\ got' = got + n
  /\ Extended(call, got, n, call') /\ call'.event = call.event

(* None were. *)
ReadNothing == got' = got /\ call'.off = call.off /\ call'.bytes = call.bytes

LEMMA FailReadNothing ==
  ASSUME call \in CallRecord, NEW r \in Int, call' = Fail(call, r), got' = got
  PROVE  call' \in CallRecord /\ Alike(call, call') /\ ReadNothing /\ call'.done /\ call'.event
<1>1. call' \in CallRecord /\ Alike(call, call') /\ Progress(call, call') /\ call'.done /\ call'.event
  BY FailIs
<1> QED BY <1>1 DEF Progress, ReadNothing

LEMMA ReturnReadNothing ==
  ASSUME call \in CallRecord, NEW r \in Int, call' = Return(call, r), got' = got
  PROVE  /\ call' \in CallRecord /\ Alike(call, call') /\ ReadNothing
         /\ call'.done /\ call'.result = r /\ call'.event = call.event /\ call'.eof = call.eof
<1>1. /\ call' \in CallRecord /\ Alike(call, call') /\ Progress(call, call')
      /\ call'.done /\ call'.result = r /\ call'.event = call.event
  BY ReturnIs
<1> QED BY <1>1 DEF Progress, ReadNothing

Ended(c) == [c EXCEPT !.eof = TRUE]

LEMMA EndReadNothing ==
  ASSUME call \in CallRecord, NEW r \in Int, call' = Return(Ended(call), r), got' = got
  PROVE  /\ call' \in CallRecord /\ Alike(call, call') /\ ReadNothing
         /\ call'.done /\ call'.result = r /\ call'.event = call.event
BY EndReturnIs DEF ReadNothing, Ended

LEMMA StoredReads ==
  ASSUME call \in CallRecord, got \in Nat, arrived \in Nat, NEW count, NEW n \in Counts, ReadsBytes(count, n),
         call' = Return(Stored(call, n), n), got' = got + n, count \in Nat
  PROVE  /\ call' \in CallRecord /\ Alike(call, call') /\ ReadMore(n) /\ n <= count
         /\ call'.done /\ call'.result = n /\ call'.eof = call.eof
<1>1. n \in Nat /\ n \in 1 .. arrived - got /\ n <= count
  BY DEF Counts, ReadsBytes, Smaller
<1>2. n \in Int
  BY <1>1
<1>3. PICK d : d = Return(Stored(call, n), n)
  OBVIOUS
<1>4. /\ d \in CallRecord /\ Alike(call, d) /\ Extended(call, got, n, d)
      /\ d.done /\ d.result = n /\ d.event = call.event /\ d.eof = call.eof
  BY <1>1, <1>2, <1>3, StoredReturnIs
<1> QED BY <1>1, <1>3, <1>4 DEF ReadMore

LEMMA ReadDoes ==
  ASSUME Typed, ReadStep
  PROVE  /\ call.op = "Read" /\ call' \in CallRecord /\ Alike(call, call') /\ call'.done
         /\ \/ \E n \in Nat : ReadMore(n) /\ n <= call.len /\ call'.result = n /\ call'.eof = call.eof
            \/ ReadNothing /\ call'.event
            \/ /\ ReadNothing /\ call'.event = call.event /\ call'.result = 0
               /\ ReadsNone(call.len) \/ call'.eof = call.eof
<1> call.op = "Read" /\ call \in CallRecord /\ got \in Nat /\ arrived \in Nat /\ call.len \in Nat
  BY DEF Typed, CallRecord, ReadStep
<1>1. ASSUME NEW n \in Counts, ReadsBytes(call.len, n), call' = Return(Stored(call, n), n), got' = got + n
      PROVE  /\ call' \in CallRecord /\ Alike(call, call') /\ call'.done
             /\ n \in Nat /\ ReadMore(n) /\ n <= call.len /\ call'.result = n /\ call'.eof = call.eof
  BY <1>1, StoredReads DEF Counts
<1>2. CASE ReadsNone(call.len) /\ call' = Return([call EXCEPT !.eof = TRUE], 0) /\ got' = got
  <2>1. call' = Return(Ended(call), 0) /\ ReadsNone(call.len) /\ got' = got
    BY <1>2 DEF Ended
  <2>2. /\ call' \in CallRecord /\ Alike(call, call') /\ ReadNothing
        /\ call'.done /\ call'.result = 0 /\ call'.event = call.event
    BY ONLY <2>1, call \in CallRecord, 0 \in Int, EndReadNothing
  <2> QED BY ONLY <2>1, <2>2, call.op = "Read"
<1>3. CASE call' = Return(call, 0) /\ got' = got
  BY <1>3, ReturnReadNothing
<1>4. CASE call' = Fail(call, -1) /\ got' = got
  BY <1>4, FailReadNothing
<1>5. CASE \E n \in Counts : ReadsBytes(call.len, n) /\ call' = Return(Stored(call, n), n) /\ got' = got + n
  BY <1>1, <1>5 DEF ReadStep
<1> QED BY <1>2, <1>3, <1>4, <1>5 DEF ReadStep

LEMMA RecvDoes ==
  ASSUME Typed, RecvStep
  PROVE  /\ call.op = "Recv" /\ call' \in CallRecord /\ Alike(call, call') /\ call'.done /\ call'.eof = call.eof
         /\ \/ \E n \in Nat : ReadMore(n) /\ n <= call.len /\ call'.result = n
            \/ ReadNothing /\ call'.event
            \/ ReadNothing /\ call'.event = call.event /\ call'.result \in {0, -1}
<1> call.op = "Recv" /\ call \in CallRecord /\ got \in Nat /\ arrived \in Nat /\ call.len \in Nat
  BY DEF Typed, CallRecord, RecvStep
<1>1. ASSUME NEW n \in Counts, ReadsBytes(call.len, n), call' = Return(Stored(call, n), n), got' = got + n
      PROVE  /\ call' \in CallRecord /\ Alike(call, call') /\ call'.done
             /\ n \in Nat /\ ReadMore(n) /\ n <= call.len /\ call'.result = n /\ call'.eof = call.eof
  BY <1>1, StoredReads DEF Counts
<1>2. CASE call' = Return(call, 0) /\ got' = got
  BY <1>2, ReturnReadNothing
<1>3. CASE call' = Return(call, -1) /\ got' = got
  BY <1>3, ReturnReadNothing
<1>4. CASE call' = Fail(call, 0) /\ got' = got
  <2>1. call' \in CallRecord /\ Alike(call, call') /\ Progress(call, call') /\ call'.done /\ call'.event
    BY <1>4, FailIs
  <2> QED BY <1>4, <2>1, FailReadNothing DEF Progress, RecvStep
<1>5. CASE \E n \in Counts : ReadsBytes(call.len, n) /\ call' = Return(Stored(call, n), n) /\ got' = got + n
  BY <1>1, <1>5 DEF RecvStep
<1> QED BY <1>2, <1>3, <1>4, <1>5 DEF RecvStep

LEMMA ReadExhaustiveDoes ==
  ASSUME Typed, ReadExhaustiveStep
  PROVE  /\ call.op = "ReadExhaustive" /\ call' \in CallRecord /\ Alike(call, call')
         /\ \/ \E n \in Nat : ReadMore(n) /\ call'.done = call.done /\ call'.eof = call.eof
            \/ ReadNothing /\ call'.done /\ call'.event
            \/ /\ ReadNothing /\ call'.done /\ call'.event = call.event /\ call'.result = call.off
               /\ ReadsNone(call.len - call.off) \/ call'.eof = call.eof
<1> call.op = "ReadExhaustive" /\ call \in CallRecord /\ got \in Nat /\ arrived \in Nat /\ call.len \in Nat /\ call.off \in Nat
  BY DEF Typed, CallRecord, ReadExhaustiveStep
<1> DEFINE left == call.len - call.off
<1> left \in Int
  OBVIOUS
<1> HIDE DEF left
<1>1. ASSUME NEW n \in Counts, ReadsBytes(left, n), call' = Stored(call, n), got' = got + n
      PROVE  /\ call' \in CallRecord /\ Alike(call, call')
             /\ n \in Nat /\ ReadMore(n) /\ call'.done = call.done /\ call'.eof = call.eof
  <2>1. n \in Nat /\ n \in 1 .. arrived - got
    BY <1>1 DEF Counts, ReadsBytes, Smaller
  <2>2. /\ call' \in CallRecord /\ Alike(call, call') /\ Extended(call, got, n, call')
        /\ call'.done = call.done /\ call'.event = call.event /\ call'.eof = call.eof
    BY <1>1, <2>1, StoredIs
  <2> QED BY <1>1, <2>1, <2>2 DEF ReadMore
<1>2. CASE ReadsNone(left) /\ call' = Return([call EXCEPT !.eof = TRUE], call.off) /\ got' = got
  <2>1. call' = Return(Ended(call), call.off) /\ call.off \in Int
    BY <1>2 DEF Ended
  <2> QED BY <1>2, <2>1, EndReadNothing DEF left
<1>3. CASE call' = Return(call, call.off) /\ got' = got
  BY <1>3, ReturnReadNothing
<1>4. CASE call' = Fail(call, call.off) /\ got' = got
  BY <1>4, FailReadNothing
<1>5. CASE call' = Fail(call, 0) /\ got' = got
  BY <1>5, FailReadNothing
<1>6. CASE \E n \in Counts : ReadsBytes(left, n) /\ call' = Stored(call, n) /\ got' = got + n
  BY <1>1, <1>6
<1>7. /\ call.op = "ReadExhaustive"
      /\ \/ \E n \in Counts : ReadsBytes(left, n) /\ call' = Stored(call, n) /\ got' = got + n
         \/ ReadsNone(left) /\ call' = Return([call EXCEPT !.eof = TRUE], call.off) /\ got' = got
         \/ call' = Return(call, call.off) /\ got' = got
         \/ call' = Fail(call, call.off) /\ got' = got
         \/ call' = Fail(call, 0) /\ got' = got
  BY DEF ReadExhaustiveStep, left
<1> QED BY <1>2, <1>3, <1>4, <1>5, <1>6, <1>7

(* ReadLine takes a terminator off the stream and does not store it. *)
LineEnds ==
  /\ got' = got + 1 /\ got < arrived /\ Text[got + 1] \in Terminators
  /\ call'.off = call.off /\ call'.bytes = call.bytes /\ call'.done /\ call'.result = call.off
  /\ call'.event = call.event /\ call'.eof = call.eof

LEMMA ReadLineDoes ==
  ASSUME Typed, ReadLineStep
  PROVE  /\ call.op = "ReadLine" /\ call' \in CallRecord /\ Alike(call, call')
         /\ \/ /\ call.off >= call.len - 1 /\ ReadNothing /\ call'.done
               /\ call'.result = call.off /\ call'.event = call.event /\ call'.eof = call.eof
            \/ /\ call.off < call.len - 1 /\ ReadMore(1) /\ Text[got + 1] \notin Terminators
               /\ call'.done = call.done /\ call'.eof = call.eof
            \/ LineEnds
            \/ ReadNothing /\ call'.done /\ call'.event
            \/ ReadNothing /\ call'.done /\ call'.event = call.event /\ call'.result = call.off /\ ReadsNone(1) /\ call'.eof
<1> call.op = "ReadLine" /\ call \in CallRecord /\ got \in Nat /\ arrived \in Nat /\ call.len \in Nat /\ call.off \in Nat
  BY DEF Typed, CallRecord, ReadLineStep
<1>1. CASE call.off >= call.len - 1 /\ call' = Return(call, call.off) /\ got' = got
  BY <1>1, ReturnReadNothing DEF ReadLineStep
<1>2. CASE call.off < call.len - 1 /\ ReadsBytes(1, 1) /\ got' = got + 1 /\ Text[got + 1] \notin Terminators /\ call' = Stored(call, 1)
  <2>1. 1 \in 1 .. arrived - got
    BY <1>2 DEF ReadsBytes, Smaller
  <2>2. /\ call' \in CallRecord /\ Alike(call, call') /\ Extended(call, got, 1, call')
        /\ call'.done = call.done /\ call'.event = call.event /\ call'.eof = call.eof
    BY <1>2, StoredIs
  <2> QED BY <1>2, <2>1, <2>2 DEF ReadMore, ReadLineStep
<1>3. CASE ReadsBytes(1, 1) /\ got' = got + 1 /\ Text[got + 1] \in Terminators /\ call' = Return(call, call.off)
  <2>1. got < arrived
    BY <1>3 DEF ReadsBytes, Smaller
  <2>2. call.off \in Int
    OBVIOUS
  <2>3. /\ call' \in CallRecord /\ Alike(call, call') /\ Progress(call, call')
        /\ call'.done /\ call'.result = call.off /\ call'.event = call.event
    BY <1>3, <2>2, ReturnIs
  <2> QED BY <1>3, <2>1, <2>3 DEF LineEnds, Progress, ReadLineStep
<1>4. CASE ReadsNone(1) /\ call' = Return([call EXCEPT !.eof = TRUE], call.off) /\ got' = got
  <2>1. PICK e : e = [call EXCEPT !.eof = TRUE]
    OBVIOUS
  <2>2. e \in CallRecord /\ e.eof
    BY <2>1 DEF CallRecord
  <2>3. Progress(e, call')
    BY <1>4, <2>1, <2>2, ReturnIs
  <2>4. call' = Return(Ended(call), call.off) /\ call.off \in Int
    BY <1>4 DEF Ended
  <2> QED BY <1>4, <2>2, <2>3, <2>4, EndReadNothing DEF Progress
<1>5. CASE call' = Fail(call, 0) /\ got' = got
  BY <1>5, FailReadNothing DEF ReadLineStep
<1>6. CASE call.off >= call.len - 1
  BY <1>1, <1>6 DEF ReadLineStep
<1>7. CASE ~(call.off >= call.len - 1)
  <2>1. call.off < call.len - 1
    BY <1>7
  <2>2. \/ ReadsBytes(1, 1) /\ got' = got + 1 /\ Text[got + 1] \notin Terminators /\ call' = Stored(call, 1)
        \/ ReadsBytes(1, 1) /\ got' = got + 1 /\ Text[got + 1] \in Terminators /\ call' = Return(call, call.off)
        \/ ReadsNone(1) /\ call' = Return([call EXCEPT !.eof = TRUE], call.off) /\ got' = got
        \/ call' = Fail(call, 0) /\ got' = got
    <3> HIDE DEF Stored, Return
    <3> QED BY <1>7 DEF ReadLineStep
  <2> QED BY <1>2, <1>3, <1>4, <1>5, <2>1, <2>2
<1> QED BY <1>6, <1>7

(* What Copy has is a chunk of what was read, of which it wrote up to m. *)
CopyTyped ==
  /\ call' \in CallRecord /\ call'.op \in Copying
  /\ call'.m <= call'.n /\ call'.n <= call'.off

LEMMA CopyOpenDoes ==
  ASSUME Typed, CopyOpen
  PROVE  CopyTyped
<1> /\ call.op = "CopyOpen" /\ call \in CallRecord /\ call.m <= call.n /\ call.n <= call.off
  BY DEF Typed, CopyOpen
<1>1. CASE call' = Fail(call, 0)
  BY <1>1, FailIs DEF CopyTyped, Alike, Progress, Copying
<1>2. ASSUME NEW failed \in BOOLEAN, call' = [call EXCEPT !.op = "CopyRead", !.event = failed]
      PROVE  CopyTyped
  <2>1. "CopyRead" \in Operations /\ "CopyRead" \in Copying
    BY DEF Operations, Copying
  <2>2. PICK d : d = call'
    OBVIOUS
  <2>3. d \in CallRecord /\ d.op = "CopyRead" /\ d.m = call.m /\ d.n = call.n /\ d.off = call.off
    BY ONLY <1>2, <2>1, <2>2, call \in CallRecord DEF CallRecord
  <2> QED BY <2>1, <2>2, <2>3 DEF CopyTyped
<1> QED BY <1>1, <1>2 DEF CopyOpen

LEMMA CopyReadDoes ==
  ASSUME Typed, CopyRead
  PROVE  CopyTyped
<1> /\ call.op = "CopyRead" /\ call \in CallRecord /\ call.off \in Nat /\ call.m <= call.n /\ call.n <= call.off
    /\ call.from \in Nat /\ FileLen \in Nat /\ FILE_CHUNK_SIZE \in Nat
  BY LoopsAssumption DEF Typed, CallRecord, CopyRead
<1> DEFINE left == FileLen - call.from - call.off
<1>1. ASSUME NEW n \in 1 .. Smaller(FILE_CHUNK_SIZE, left),
             call' = [call EXCEPT !.op = "CopyWrite", !.off = @ + n, !.n = n, !.m = 0]
      PROVE  CopyTyped
  <2>1. n \in Nat
    BY DEF Smaller
  <2>2. PICK o \in Nat : o = call.off + n
    BY <2>1
  <2>3. "CopyWrite" \in Operations /\ "CopyWrite" \in Copying
    BY DEF Operations, Copying
  <2>4. PICK d : d = call'
    OBVIOUS
  <2>5. d = [call EXCEPT !.op = "CopyWrite", !.off = o, !.n = n, !.m = 0]
    BY <1>1, <2>2, <2>4
  <2>6. d \in CallRecord /\ d.op = "CopyWrite" /\ d.off = o /\ d.n = n /\ d.m = 0
    BY ONLY <2>1, <2>3, <2>5, o \in Nat, call \in CallRecord DEF CallRecord
  <2> QED BY <2>1, <2>2, <2>3, <2>4, <2>6 DEF CopyTyped
<1>2. CASE call' = Return(call, 0)
  BY <1>2, ReturnIs DEF CopyTyped, Alike, Progress, Copying
<1>3. CASE call' = Fail(call, 0)
  BY <1>3, FailIs DEF CopyTyped, Alike, Progress, Copying
<1> QED BY <1>1, <1>2, <1>3 DEF CopyRead

LEMMA CopyWriteDoes ==
  ASSUME Typed, CopyWrite
  PROVE  CopyTyped
<1> /\ call.op = "CopyWrite" /\ call \in CallRecord /\ call.off \in Nat /\ call.n \in Nat /\ call.m \in Nat
    /\ call.m <= call.n /\ call.n <= call.off /\ call.from \in Nat /\ call.bytes \in Seq(Nat)
  BY DEF Typed, CallRecord, CopyWrite
<1> DEFINE start == call.from + call.off - call.n + call.m
<1>1. ASSUME NEW m \in Taken(call.n - call.m, ~ShortWrites),
             call' = [call EXCEPT !.m = m, !.bytes = @ \o Interval(start, start + m),
                                  !.op = IF m = 0 THEN "CopyRead" ELSE @]
      PROVE  CopyTyped
  <2>1. m \in Nat /\ m <= call.n - call.m
    BY DEF Taken
  <2>2. PICK a \in Nat : a = start
    OBVIOUS
  <2>3. PICK e \in Nat : e = a + m
    BY <2>1
  <2>4. PICK i : i = Interval(a, e)
    OBVIOUS
  <2>5. i \in Seq(Nat)
    <3>1. a <= e
      BY <2>1, <2>3
    <3> QED BY ONLY a \in Nat, e \in Nat, <2>4, <3>1, IntervalIs
  <2>6. PICK b : b = call.bytes \o i
    OBVIOUS
  <2>7. b \in Seq(Nat)
    BY ONLY <2>5, <2>6, call.bytes \in Seq(Nat), ConcatProperties
  <2>8. PICK op : op = IF m = 0 THEN "CopyRead" ELSE "CopyWrite"
    OBVIOUS
  <2>9. op \in Operations /\ op \in Copying
    BY <2>8 DEF Operations, Copying
  <2>10. PICK d : d = call'
    OBVIOUS
  <2>11. d = [call EXCEPT !.m = m, !.bytes = b, !.op = op]
    BY <1>1, <2>2, <2>3, <2>4, <2>6, <2>8, <2>10
  <2>12. d \in CallRecord /\ d.off = call.off /\ d.n = call.n /\ d.m = m /\ d.op = op
    BY ONLY <2>1, <2>7, <2>9, <2>11, call \in CallRecord DEF CallRecord
  <2>13. m <= call.n
    BY <2>1
  <2> QED BY <2>9, <2>10, <2>12, <2>13 DEF CopyTyped
<1>2. CASE call' = Fail(call, 0)
  <2>1. PICK d : d = call'
    OBVIOUS
  <2>2. d \in CallRecord /\ Alike(call, d) /\ Progress(call, d)
    BY ONLY <1>2, <2>1, call \in CallRecord, 0 \in Int, FailIs
  <2>3. d.op = "CopyWrite" /\ d.m <= d.n /\ d.n <= d.off
    BY <2>2 DEF Alike, Progress
  <2> QED BY <2>1, <2>2, <2>3 DEF CopyTyped, Copying
<1> QED BY <1>1, <1>2 DEF CopyWrite

(* A look-up touches none of what the invariants talk about. *)
LooksUp(d) ==
  d \in CallRecord /\ d.op \in LookUps /\ d.off = call.off /\ d.n = call.n /\ d.m = call.m

LEMMA TriedLooksUp ==
  ASSUME call \in CallRecord, call.op \in LookUps
  PROVE  LooksUp(Tried(call))
<1>1. (call.tries + 1) % MaxTries \in Nat
  BY LoopsAssumption DEF CallRecord
<1>2. PICK t : t = (call.tries + 1) % MaxTries
  OBVIOUS
<1>3. PICK d : d = Tried(call)
  OBVIOUS
<1>4. d = [call EXCEPT !.tries = t]
  BY <1>2, <1>3 DEF Tried
<1>5. d \in CallRecord /\ d.op = call.op /\ d.off = call.off /\ d.n = call.n /\ d.m = call.m
  BY ONLY <1>1, <1>2, <1>4, call \in CallRecord DEF CallRecord
<1> QED BY <1>3, <1>5 DEF LooksUp

LEMMA OutcomeLooksUp ==
  ASSUME NEW d, LooksUp(d), NEW r \in Int
  PROVE  LooksUp(Return(d, r)) /\ LooksUp(Fail(d, r))
<1>1. d \in CallRecord
  BY DEF LooksUp
<1>2. /\ Return(d, r) \in CallRecord /\ Alike(d, Return(d, r)) /\ Progress(d, Return(d, r))
      /\ Fail(d, r) \in CallRecord /\ Alike(d, Fail(d, r)) /\ Progress(d, Fail(d, r))
  BY <1>1, ReturnIs, FailIs
<1> QED BY <1>2 DEF LooksUp, Alike, Progress

LEMMA CountedLooksUp ==
  ASSUME NEW c, LooksUp(c), NEW d, d = [c EXCEPT !.retry = @ - 1]
  PROVE  LooksUp(d)
<1>1. c \in CallRecord /\ c.retry - 1 \in Int
  BY DEF LooksUp, CallRecord
<1>2. PICK r : r = c.retry - 1
  OBVIOUS
<1>3. d = [c EXCEPT !.retry = r]
  BY <1>2
<1>4. d \in CallRecord /\ d.op = c.op /\ d.off = c.off /\ d.n = c.n /\ d.m = c.m
  BY ONLY <1>1, <1>2, <1>3 DEF CallRecord
<1> QED BY <1>4 DEF LooksUp

LEMMA AgainLooksUp ==
  ASSUME call \in CallRecord, call.op \in LookUps, NEW final \in BOOLEAN, call' = Again(call, final)
  PROVE  LooksUp(call')
<1>1. PICK c : c = Tried(call)
  OBVIOUS
<1>2. PICK d : d = [c EXCEPT !.retry = @ - 1]
  OBVIOUS
<1>3. LooksUp(c)
  BY <1>1, TriedLooksUp
<1>4. LooksUp(d)
  BY <1>2, <1>3, CountedLooksUp
<1>5. LooksUp(Fail(d, 0))
  BY ONLY <1>4, 0 \in Int, OutcomeLooksUp
<1>6. call' = Fail(d, 0) \/ call' = d
  BY <1>1, <1>2 DEF Again
<1> QED BY <1>4, <1>5, <1>6

LEMMA LookUpsDo ==
  ASSUME Typed, InitStep \/ ResolveDNSNameStep \/ ReverseDNSStep
  PROVE  call.op \in LookUps /\ LooksUp(call')
<1> call \in CallRecord /\ call.op \in LookUps
  BY DEF Typed, LookUps, InitStep, ResolveDNSNameStep, ReverseDNSStep
<1>1. LooksUp(call)
  BY DEF LooksUp
<1>2. PICK t : t = Tried(call)
  OBVIOUS
<1>3. LooksUp(t)
  BY <1>2, TriedLooksUp
<1>4. ASSUME NEW f \in Families,
             call' = [Tried(call) EXCEPT !.op = "ResolveDNSName", !.family = f, !.tries = 0, !.asked = call.retry]
      PROVE  LooksUp(call')
  <2>1. PICK d : d = call'
    OBVIOUS
  <2>2. PICK r \in Int : r = call.retry
    BY DEF CallRecord
  <2>3. d = [t EXCEPT !.op = "ResolveDNSName", !.family = f, !.tries = 0, !.asked = r]
    BY <1>2, <1>4, <2>1, <2>2
  <2>4. t \in CallRecord /\ "ResolveDNSName" \in Operations /\ "ResolveDNSName" \in LookUps
    BY <1>3 DEF LooksUp, Operations, LookUps
  <2>5. d \in CallRecord /\ d.op = "ResolveDNSName" /\ d.off = t.off /\ d.n = t.n /\ d.m = t.m
    BY ONLY <2>3, <2>4, r \in Int, f \in Families DEF CallRecord
  <2> QED BY <1>3, <2>1, <2>4, <2>5 DEF LooksUp
<1>5. ASSUME NEW final \in BOOLEAN, call' = Again(call, final)
      PROVE  LooksUp(call')
  BY <1>5, AgainLooksUp
<1>6. LooksUp(Fail(call, 0)) /\ LooksUp(Return(call, 0)) /\ LooksUp(Return(t, 0))
  BY ONLY <1>1, <1>3, 0 \in Int, OutcomeLooksUp
<1>7. LooksUp(Return(t, -1))
  BY ONLY <1>3, -1 \in Int, OutcomeLooksUp
<1>8. CASE call' = [Tried(call) EXCEPT !.retry = @ - 1]
  <2>1. PICK d : d = call'
    OBVIOUS
  <2>2. d = [t EXCEPT !.retry = @ - 1]
    BY <1>2, <1>8, <2>1
  <2>3. LooksUp(d)
    BY ONLY <1>3, <2>2, CountedLooksUp
  <2> QED BY <2>1, <2>3
<1>9. CASE InitStep
  BY <1>4, <1>5, <1>9 DEF InitStep
<1>10. CASE ResolveDNSNameStep
  BY <1>2, <1>5, <1>6, <1>10 DEF ResolveDNSNameStep
<1>11. CASE ReverseDNSStep
  BY <1>2, <1>6, <1>7, <1>8, <1>11 DEF ReverseDNSStep
<1> QED BY <1>9, <1>10, <1>11

-----------------------------------------------------------------------------
(* Types *)

LEMMA KeepsTyped ==
  ASSUME Typed, call' \in CallRecord, call'.m <= call'.n, call'.n <= call'.off, got' \in got .. arrived,
         UNCHANGED <<arrived, closed>>
  PROVE  Typed'
BY DEF Typed

LEMMA AlikeIsTyped ==
  ASSUME Typed, call' \in CallRecord, Alike(call, call'), call'.off >= call.off, got' \in got .. arrived,
         UNCHANGED <<arrived, closed>>
  PROVE  Typed'
<1>1. /\ call.m \in Nat /\ call.n \in Nat /\ call.off \in Nat /\ call'.off \in Nat
      /\ call.m <= call.n /\ call.n <= call.off /\ call'.m = call.m /\ call'.n = call.n
  BY DEF Typed, CallRecord, Alike
<1>2. call'.m <= call'.n /\ call'.n <= call'.off
  BY <1>1
<1> QED BY <1>2, KeepsTyped

LEMMA Here ==
  ASSUME Typed
  PROVE  /\ call \in CallRecord /\ call.len \in Nat /\ call.off \in Nat /\ call.from \in Nat
         /\ call.m \in Nat /\ call.n \in Nat /\ call.m <= call.n /\ call.n <= call.off
         /\ got \in Nat /\ arrived \in Nat /\ got <= arrived /\ arrived <= Len(Text)
         /\ got \in got .. arrived
BY TextIsSeq DEF Typed, CallRecord

LEMMA SendStepTyped ==
  ASSUME Typed, WriteStep \/ SendtoStep \/ SendmsgStep, UNCHANGED <<arrived, got, closed>>
  PROVE  Typed' /\ call.op \in Sending /\ call'.op = call.op
<1> /\ call \in CallRecord /\ call.len \in Nat /\ call.off \in Nat /\ got' \in got .. arrived
  BY Here
<1>1. /\ call' \in CallRecord /\ Alike(call, call')
      /\ call'.off = call.off \/ \E n \in Nat : call'.off = call.off + n
  <2>1. CASE WriteStep
    <3>1. call.len - call.off \in Int
      OBVIOUS
    <3>2. Sends(call.len - call.off, FALSE)
      BY <2>1 DEF WriteStep
    <3> QED BY <3>1, <3>2, SendsDo DEF SentMore, SentNoMore, Extended
  <2>2. CASE SendtoStep
    <3>1. call.len \in Int /\ call.len >= 0 /\ Datagram \in BOOLEAN /\ Sends(call.len, Datagram)
      BY <2>2, LoopsAssumption DEF SendtoStep
    <3> QED BY <3>1, SendsDo DEF SentMore, SentNoMore, Extended
  <2>3. CASE SendmsgStep
    BY <2>3, SendmsgDoes DEF Extended
  <2> QED BY <2>1, <2>2, <2>3
<1>2. call'.off >= call.off
  BY <1>1
<1>3. call.op \in Sending
  BY DEF WriteStep, SendtoStep, SendmsgStep, Sending
<1> QED BY <1>1, <1>2, <1>3, AlikeIsTyped DEF Alike

LEMMA ReadStepTyped ==
  ASSUME Typed, ReadStep \/ RecvStep \/ ReadExhaustiveStep \/ ReadLineStep, UNCHANGED <<arrived, closed>>
  PROVE  Typed' /\ call.op \in Reading /\ call'.op = call.op
<1> /\ call \in CallRecord /\ call.len \in Nat /\ call.off \in Nat /\ got \in Nat /\ arrived \in Nat /\ got <= arrived
  BY Here
<1>1. /\ call' \in CallRecord /\ Alike(call, call')
      /\ \/ call'.off = call.off /\ got' = got
         \/ call'.off = call.off /\ got' = got + 1 /\ got < arrived
         \/ \E n \in Nat : n \in 1 .. arrived - got /\ call'.off = call.off + n /\ got' = got + n
  <2>1. CASE ReadStep
    BY <2>1, ReadDoes DEF ReadMore, ReadNothing, Extended
  <2>2. CASE RecvStep
    BY <2>2, RecvDoes DEF ReadMore, ReadNothing, Extended
  <2>3. CASE ReadExhaustiveStep
    BY <2>3, ReadExhaustiveDoes DEF ReadMore, ReadNothing, Extended
  <2>4. CASE ReadLineStep
    BY <2>4, ReadLineDoes DEF ReadMore, ReadNothing, LineEnds, Extended
  <2> QED BY <2>1, <2>2, <2>3, <2>4
<1>2. call'.off >= call.off /\ got' \in got .. arrived
  BY <1>1
<1>3. call.op \in Reading
  BY DEF ReadStep, RecvStep, ReadExhaustiveStep, ReadLineStep, Reading
<1> QED BY <1>1, <1>2, <1>3, AlikeIsTyped DEF Alike

LEMMA CopyStepTyped ==
  ASSUME Typed, CopyOpen \/ CopyRead \/ CopyWrite, UNCHANGED <<arrived, got, closed>>
  PROVE  Typed' /\ call'.op \in Copying
<1>1. CopyTyped
  BY CopyOpenDoes, CopyReadDoes, CopyWriteDoes
<1>2. got' \in got .. arrived
  BY Here
<1> QED BY <1>1, <1>2, KeepsTyped DEF CopyTyped

LEMMA LookUpStepTyped ==
  ASSUME Typed, InitStep \/ ResolveDNSNameStep \/ ReverseDNSStep, UNCHANGED <<arrived, got, closed>>
  PROVE  Typed' /\ call'.op \in LookUps
<1>1. call' \in CallRecord /\ call'.op \in LookUps /\ call'.off = call.off /\ call'.n = call.n /\ call'.m = call.m
  BY LookUpsDo DEF LooksUp
<1>2. call'.m <= call'.n /\ call'.n <= call'.off /\ got' \in got .. arrived
  BY <1>1, Here
<1> QED BY <1>1, <1>2, KeepsTyped

LEMMA CallTyped ==
  ASSUME Typed, Call
  PROVE  Typed' /\ Made(call')
<1>1. Made(call') /\ got' \in got .. arrived /\ UNCHANGED <<arrived, got, closed>>
  BY Here, CallIsMade DEF Call
<1>2. call' \in CallRecord /\ call'.m <= call'.n /\ call'.n <= call'.off
  BY <1>1 DEF Made
<1> QED BY <1>1, <1>2, KeepsTyped

LEMMA PeerTyped ==
  ASSUME Typed, PeerSends \/ PeerCloses
  PROVE  Typed' /\ call' = call /\ got' = got /\ (closed => closed')
<1>1. CASE PeerSends
  <2>1. arrived' \in 0 .. Len(Text) /\ got \in 0 .. arrived' /\ closed' = closed /\ ~closed /\ call' = call /\ got' = got
    BY <1>1, Here DEF Typed, PeerSends
  <2> QED BY <2>1 DEF Typed
<1>2. CASE PeerCloses
  BY <1>2, Here DEF Typed, PeerCloses
<1> QED BY <1>1, <1>2

(* The steps, and what the call is before and after each. *)
LEMMA StepsAre ==
  ASSUME Typed, Step
  PROVE  /\ Typed' /\ ~call.done /\ UNCHANGED <<arrived, closed>>
         /\ \/ /\ WriteStep \/ SendtoStep \/ SendmsgStep
               /\ call.op \in Sending /\ call'.op = call.op /\ got' = got
            \/ /\ ReadStep \/ RecvStep \/ ReadExhaustiveStep \/ ReadLineStep
               /\ call.op \in Reading /\ call'.op = call.op
            \/ /\ CopyOpen \/ CopyRead \/ CopyWrite
               /\ call'.op \in Copying /\ got' = got
            \/ call'.op \in LookUps /\ got' = got
<1>1. ~call.done /\ UNCHANGED <<arrived, closed>>
  BY DEF Step
<1>2. CASE (WriteStep \/ SendtoStep \/ SendmsgStep) /\ got' = got
  BY <1>1, <1>2, SendStepTyped
<1>3. CASE ReadStep \/ RecvStep \/ ReadExhaustiveStep \/ ReadLineStep
  BY <1>1, <1>3, ReadStepTyped
<1>4. CASE (CopyOpen \/ CopyRead \/ CopyWrite) /\ got' = got
  BY <1>1, <1>4, CopyStepTyped
<1>5. CASE (InitStep \/ ResolveDNSNameStep \/ ReverseDNSStep) /\ got' = got
  BY <1>1, <1>5, LookUpStepTyped
<1> QED BY <1>2, <1>3, <1>4, <1>5 DEF Step

LEMMA InitTyped ==
  ASSUME Init
  PROVE  Typed /\ Made(call)
<1>1. got = 0 /\ arrived = 0 /\ closed = FALSE /\ call \in Calls
  BY DEF Init
<1>2. Made(call)
  BY <1>1, CallIsMade
<1>3. call \in CallRecord /\ call.m <= call.n /\ call.n <= call.off
  BY <1>2 DEF Made
<1>4. arrived \in 0 .. Len(Text) /\ got \in 0 .. arrived
  BY <1>1, TextIsSeq
<1> QED BY <1>1, <1>2, <1>3, <1>4 DEF Typed

LEMMA NextTyped ==
  ASSUME Typed, [Next]_vars
  PROVE  Typed'
<1>1. CASE UNCHANGED vars
  BY <1>1 DEF vars, Typed, CallRecord
<1> QED BY <1>1, CallTyped, StepsAre, PeerTyped DEF Next

-----------------------------------------------------------------------------
(* Write, Sendto and Sendmsg *)

LEMMA SendKeeps ==
  ASSUME Typed, SendInv, call.op \in Sending, Alike(call, call'),
         \/ call'.off = call.off /\ call'.bytes = call.bytes
         \/ \E n \in Nat : Extended(call, call.off, n, call') /\ call.off + n <= call.len,
         call'.done \/ call.op = "Write",
         call'.done /\ ~call'.event => call'.result = call'.off
  PROVE  SendInv'
<1>1. call.off \in Nat /\ call.len \in Nat /\ call.off <= call.len /\ call.bytes = Interval(0, call.off)
  BY Here DEF SendInv
<1>2. call'.off <= call'.len /\ call'.bytes = Interval(0, call'.off)
  <2>1. CASE call'.off = call.off /\ call'.bytes = call.bytes
    BY <1>1, <2>1 DEF Alike
  <2>2. ASSUME NEW n \in Nat, Extended(call, call.off, n, call'), call.off + n <= call.len
        PROVE  call'.off <= call'.len /\ call'.bytes = Interval(0, call'.off)
    <3>1. PICK a \in Nat : a = call.off
      BY <1>1
    <3>2. PICK e \in Nat : e = a + n
      OBVIOUS
    <3>3. 0 <= a /\ a <= e
      BY <3>2
    <3>4. Interval(0, a) \o Interval(a, e) = Interval(0, e)
      BY ONLY a \in Nat, e \in Nat, 0 \in Nat, <3>3, IntervalsJoin
    <3> QED BY <1>1, <2>2, <3>1, <3>2, <3>4 DEF Extended, Alike
  <2> QED BY <2>1, <2>2
<1> QED BY <1>2 DEF SendInv, Alike

LEMMA SendStepKeeps ==
  ASSUME Datagram = TRUE, Typed, SendInv, ~call.done, WriteStep \/ SendtoStep \/ SendmsgStep
  PROVE  SendInv'
<1> /\ call \in CallRecord /\ call.len \in Nat /\ call.off \in Nat
  BY Here
<1>1. CASE WriteStep
  <2>1. call.op = "Write" /\ call.op \in Sending /\ call.off <= call.len
    BY <1>1 DEF WriteStep, SendInv, Sending
  <2>2. call.len - call.off \in Int
    OBVIOUS
  <2>3. Sends(call.len - call.off, FALSE)
    BY <1>1 DEF WriteStep
  <2>4. /\ call' \in CallRecord /\ Alike(call, call')
        /\ SentNoMore \/ \E n \in Taken(call.len - call.off, FALSE) : n \in Nat /\ SentMore(n)
    BY <2>2, <2>3, SendsDo
  <2>5. CASE SentNoMore
    BY <2>1, <2>4, <2>5, SendKeeps DEF SentNoMore
  <2>6. ASSUME NEW n \in Taken(call.len - call.off, FALSE), n \in Nat, SentMore(n)
        PROVE  SendInv'
    <3>1. call.off + n <= call.len
      BY <2>1, <2>6 DEF Taken
    <3>2. Extended(call, call.off, n, call') /\ (call'.done => call'.result = call'.off)
      BY <2>6 DEF SentMore
    <3> QED BY <2>1, <2>4, <2>6, <3>1, <3>2, SendKeeps
  <2> QED BY <2>4, <2>5, <2>6
<1>2. CASE SendtoStep
  <2>1. call.op = "Sendto" /\ call.op \in Sending /\ call.off = 0
    BY <1>2 DEF SendtoStep, SendInv, Sending
  <2>2. Sends(call.len, TRUE)
    BY <1>2, Datagram = TRUE DEF SendtoStep
  <2> call.len \in Int /\ call.len >= 0
    OBVIOUS
  <2>3. /\ call' \in CallRecord /\ Alike(call, call')
        /\ SentNoMore \/ \E n \in Taken(call.len, TRUE) : n \in Nat /\ SentMore(n)
    BY <2>2, SendsDo
  <2>4. CASE SentNoMore
    BY <2>1, <2>3, <2>4, SendKeeps DEF SentNoMore
  <2>5. ASSUME NEW n \in Taken(call.len, TRUE), n \in Nat, SentMore(n)
        PROVE  SendInv'
    <3>1. n = call.len /\ call'.off = n
      BY <2>1, <2>5 DEF Taken, SentMore, Extended
    <3>2. Extended(call, call.off, n, call') /\ call'.done /\ call'.result = call'.off /\ call.off + n <= call.len
      BY <2>1, <2>5, <3>1 DEF SentMore
    <3> QED BY <2>1, <2>3, <2>5, <3>2, SendKeeps
  <2> QED BY <2>3, <2>4, <2>5
<1>3. CASE SendmsgStep
  <2>1. call.op = "Sendmsg" /\ call.op \in Sending /\ call.off = 0
    BY <1>3 DEF SendmsgStep, SendInv, Sending
  <2>2. /\ call' \in CallRecord /\ Alike(call, call') /\ call'.done
        /\ \/ \E n \in Taken(call.len, FALSE) :
                n \in Nat /\ Extended(call, call.off, n, call') /\ call'.event = call.event /\ call'.result = n
           \/ /\ call'.off = call.off /\ call'.bytes = call.bytes
              /\ call'.event \/ (call'.event = call.event /\ call'.result = 0)
    BY <1>3, SendmsgDoes
  <2>3. ASSUME NEW n \in Taken(call.len, FALSE), n \in Nat, Extended(call, call.off, n, call'), call'.result = n
        PROVE  SendInv'
    <3>1. call.off + n <= call.len /\ call'.result = call'.off
      BY <2>1, <2>3 DEF Taken, Extended
    <3> QED BY <2>1, <2>2, <2>3, <3>1, SendKeeps
  <2>4. CASE call'.off = call.off /\ call'.bytes = call.bytes /\ (call'.event \/ call'.result = 0)
    BY <2>1, <2>2, <2>4, SendKeeps
  <2> QED BY <2>2, <2>3, <2>4
<1> QED BY <1>1, <1>2, <1>3

LEMMA SendMade ==
  ASSUME NEW c, Made(c), c.op \in Sending
  PROVE  c.off <= c.len /\ c.bytes = Interval(0, c.off) /\ c.off = 0 /\ ~c.done
<1>1. c.off = 0 /\ c.bytes = <<>> /\ ~c.done /\ c.len \in Nat
  BY DEF Made, CallRecord
<1> QED BY <1>1, IntervalNone

LEMMA SendNext ==
  ASSUME Datagram = TRUE, Typed, SendInv, [Next]_vars
  PROVE  SendInv'
<1>1. CASE Call
  BY <1>1, CallTyped, SendMade DEF SendInv
<1>2. CASE Step
  <2>1. CASE WriteStep \/ SendtoStep \/ SendmsgStep
    BY <1>2, <2>1, SendStepKeeps DEF Step
  <2>2. CASE call'.op \in Reading \cup Copying \cup LookUps
    BY <2>2 DEF SendInv, Sending, Reading, LookUps, Copying
  <2> QED BY <1>2, <2>1, <2>2, StepsAre
<1>3. CASE call' = call
  BY <1>3 DEF SendInv
<1> QED BY <1>1, <1>2, <1>3 DEF Next, PeerSends, PeerCloses, vars

(* What the calls that send report is what they sent, from the start of the  *)
(* buffer and every byte once: Write and Sendmsg on any socket, Sendto on    *)
(* one that takes a buffer as a whole.                                       *)
THEOREM SentIsReportedHolds ==
  ASSUME Datagram = TRUE
  PROVE  Spec => []SentIsReported
<1>1. Init => Typed /\ SendInv
  BY InitTyped, SendMade DEF SendInv
<1>2. Typed /\ SendInv /\ [Next]_vars => Typed' /\ SendInv'
  BY NextTyped, SendNext
<1>3. Typed /\ SendInv => SentIsReported
  <2> SUFFICES ASSUME Typed, SendInv, call.op \in Sending
               PROVE  /\ call.bytes = Interval(0, Len(call.bytes)) /\ Len(call.bytes) <= call.len
                      /\ Returned(Sending) => call.result = Len(call.bytes)
    BY DEF SentIsReported, Sending
  <2>1. call.off \in Nat /\ call.bytes = Interval(0, call.off) /\ call.off <= call.len
    BY Here DEF SendInv
  <2>2. Len(Interval(0, call.off)) = call.off
    <3>1. PICK o \in Nat : o = call.off
      BY <2>1
    <3>2. 0 <= o /\ o - 0 = o
      OBVIOUS
    <3>3. Len(Interval(0, o)) = o - 0
      BY ONLY 0 \in Nat, o \in Nat, <3>2, IntervalIs
    <3> QED BY <3>1, <3>2, <3>3
  <2>3. Len(call.bytes) = call.off
    BY <2>1, <2>2
  <2> QED BY <2>1, <2>3 DEF SendInv, Returned
<1> QED BY <1>1, <1>2, <1>3, PTL DEF Spec

-----------------------------------------------------------------------------
(* Read, Recvfrom, Recvmsg, ReadExhaustive and ReadLine *)

(* What an unfinished call has read, and what it still has when it has read  *)
(* more, or nothing.                                                         *)
LEMMA ReadJoins ==
  ASSUME Typed, ReadInv, call.op \in Reading, ~call.done, Alike(call, call'),
         NEW n \in Nat, ReadMore(n) \/ (ReadNothing /\ n = 0)
  PROVE  /\ call'.off = call.off + n /\ got' = call'.from + call'.off
         /\ call'.bytes = Interval(call'.from, call'.from + call'.off)
<1>1. /\ call.off \in Nat /\ call.from \in Nat /\ got = call.from + call.off
      /\ call.bytes = Interval(call.from, call.from + call.off)
  BY Here DEF ReadInv
<1>2. CASE ReadMore(n)
  <2>1. call'.off = call.off + n /\ call'.bytes = call.bytes \o Interval(got, got + n) /\ got' = got + n /\ call'.from = call.from
    BY <1>2 DEF ReadMore, Extended, Alike
  <2>2. PICK f \in Nat : f = call.from
    BY <1>1
  <2>3. PICK a \in Nat : a = got
    BY <1>1
  <2>4. PICK e \in Nat : e = a + n
    OBVIOUS
  <2>5. f <= a /\ a <= e
    BY <1>1, <2>2, <2>3, <2>4
  <2>6. Interval(f, a) \o Interval(a, e) = Interval(f, e)
    BY ONLY f \in Nat, a \in Nat, e \in Nat, <2>5, IntervalsJoin
  <2>7. e = call.from + (call.off + n)
    BY <1>1, <2>3, <2>4
  <2> QED BY <1>1, <2>1, <2>2, <2>3, <2>4, <2>6, <2>7
<1>3. CASE ReadNothing /\ n = 0
  BY <1>1, <1>3 DEF ReadNothing, Alike
<1> QED BY <1>2, <1>3

LEMMA EndOfStream ==
  ASSUME NEW count, count # 0, ReadsNone(count)
  PROVE  closed /\ got = Len(Text)
BY DEF ReadsNone

LEMMA ReadStepKeeps ==
  ASSUME Typed, ReadInv, ~call.done, ReadStep \/ RecvStep, UNCHANGED <<arrived, closed>>
  PROVE  ReadInv'
<1> /\ call \in CallRecord /\ call.len \in Nat /\ call.off \in Nat /\ call.op \in {"Read", "Recv"} /\ call.op \in Reading
    /\ call.off = 0 /\ call.len > 0 /\ ~call.eof
  BY Here DEF ReadStep, RecvStep, Reading, ReadInv
<1>1. /\ Alike(call, call') /\ call'.done
      /\ call'.eof => call'.event \/ (ReadNothing /\ ReadsNone(call.len))
      /\ \/ \E n \in Nat : ReadMore(n) /\ call'.result = n
         \/ ReadNothing /\ call'.event
         \/ ReadNothing /\ call'.event = call.event /\ call'.result \in {0, -1}
  <2>1. CASE ReadStep
    BY <2>1, ReadDoes
  <2>2. CASE RecvStep
    BY <2>2, RecvDoes
  <2> QED BY <2>1, <2>2
<1>2. call'.eof => call'.event \/ (closed' /\ got' = Len(Text))
  BY <1>1, EndOfStream DEF ReadNothing
<1>3. PICK n \in Nat : /\ ReadMore(n) \/ (ReadNothing /\ n = 0)
                       /\ call'.event \/ call'.result \in {n, -1}
  BY <1>1
<1>4. /\ call'.off = n /\ got' = call'.from + call'.off
      /\ call'.bytes = Interval(call'.from, call'.from + call'.off)
  BY <1>1, <1>3, ReadJoins
<1>5. call'.op = call.op /\ call'.len = call.len
  BY <1>1 DEF Alike
<1> QED BY <1>1, <1>2, <1>3, <1>4, <1>5 DEF ReadInv

LEMMA ReadExhaustiveKeeps ==
  ASSUME Typed, ReadInv, ~call.done, ReadExhaustiveStep, UNCHANGED <<arrived, closed>>
  PROVE  ReadInv'
<1> /\ call \in CallRecord /\ call.len \in Nat /\ call.off \in Nat /\ call.op = "ReadExhaustive" /\ call.op \in Reading
    /\ call.len > Len(Text) /\ ~call.eof
  BY Here DEF ReadExhaustiveStep, Reading, ReadInv
<1>1. call.len - call.off # 0
  <2>1. got = call.from + call.off /\ got \in Nat /\ call.from \in Nat /\ got <= Len(Text) /\ Len(Text) \in Nat
    BY Here, TextIsSeq DEF ReadInv, Typed
  <2> QED BY <2>1
<1>2. /\ Alike(call, call')
      /\ \/ \E n \in Nat : ReadMore(n) /\ call'.done = call.done /\ call'.eof = call.eof
         \/ ReadNothing /\ call'.done /\ call'.event
         \/ /\ ReadNothing /\ call'.done /\ call'.event = call.event /\ call'.result = call.off
            /\ ReadsNone(call.len - call.off) \/ call'.eof = call.eof
  BY ReadExhaustiveDoes
<1>3. call'.op = call.op /\ call'.len = call.len
  BY <1>2 DEF Alike
<1>4. ASSUME NEW n \in Nat, ReadMore(n), call'.done = call.done, call'.eof = call.eof
      PROVE  ReadInv'
  <2>1. /\ call'.off = call.off + n /\ got' = call'.from + call'.off
        /\ call'.bytes = Interval(call'.from, call'.from + call'.off)
    BY <1>2, <1>4, ReadJoins
  <2> QED BY <1>3, <1>4, <2>1 DEF ReadInv
<1>5. ASSUME ReadNothing, call'.done,
             call'.event \/ (call'.result = call.off /\ (call'.eof => closed /\ got = Len(Text)))
      PROVE  ReadInv'
  <2>1. /\ call'.off = call.off /\ got' = call'.from + call'.off
        /\ call'.bytes = Interval(call'.from, call'.from + call'.off)
    BY <1>2, <1>5, ReadJoins
  <2>2. got' = got
    BY <1>5 DEF ReadNothing
  <2> QED BY <1>3, <1>5, <2>1, <2>2 DEF ReadInv
<1>6. ReadsNone(call.len - call.off) => closed /\ got = Len(Text)
  BY <1>1, EndOfStream
<1> QED BY <1>2, <1>4, <1>5, <1>6

LEMMA ReadLineKeeps ==
  ASSUME Typed, ReadInv, ~call.done, ReadLineStep, UNCHANGED <<arrived, closed>>
  PROVE  ReadInv'
<1> /\ call \in CallRecord /\ call.len \in Nat /\ call.off \in Nat /\ call.from \in Nat
    /\ call.op = "ReadLine" /\ call.op \in Reading
    /\ call.len > 0 /\ ~call.eof /\ call.off <= call.len - 1 /\ got = call.from + call.off
    /\ \A i \in 1 .. call.off : Text[call.from + i] \notin Terminators
  BY Here DEF ReadLineStep, Reading, ReadInv
<1>1. Alike(call, call')
  BY ReadLineDoes
<1>2. call'.op = call.op /\ call'.len = call.len /\ call'.from = call.from
  BY <1>1 DEF Alike
<1>3. ASSUME ReadNothing, call'.done,
             \/ call'.event
             \/ /\ call'.result = call.off /\ (call'.eof => closed /\ got = Len(Text))
                /\ call'.eof \/ call.off = call.len - 1
      PROVE  ReadInv'
  <2>1. /\ call'.off = call.off /\ got' = call'.from + call'.off
        /\ call'.bytes = Interval(call'.from, call'.from + call'.off)
    BY <1>1, <1>3, ReadJoins
  <2>2. got' = got
    BY <1>3 DEF ReadNothing
  <2> QED BY <1>2, <1>3, <2>1, <2>2 DEF ReadInv
<1>4. ASSUME call.off < call.len - 1, ReadMore(1), Text[got + 1] \notin Terminators, call'.done = call.done, call'.eof = call.eof
      PROVE  ReadInv'
  <2>1. /\ call'.off = call.off + 1 /\ got' = call'.from + call'.off
        /\ call'.bytes = Interval(call'.from, call'.from + call'.off)
    BY <1>1, <1>4, ReadJoins
  <2>2. ASSUME NEW i \in 1 .. call'.off PROVE Text[call'.from + i] \notin Terminators
    <3>1. CASE i \in 1 .. call.off
      BY <1>2, <3>1
    <3>2. CASE i \notin 1 .. call.off
      <4>1. call'.from + i = got + 1
        BY <1>2, <2>1, <3>2
      <4> QED BY <1>4, <4>1
    <3> QED BY <3>1, <3>2
  <2>3. call'.off <= call'.len - 1
    BY <1>2, <1>4, <2>1
  <2> QED BY <1>2, <1>4, <2>1, <2>2, <2>3 DEF ReadInv
<1>5. ASSUME LineEnds
      PROVE  ReadInv'
  <2>1. /\ got' = call'.from + call'.off + 1 /\ Text[got'] \in Terminators /\ call'.done /\ call'.result = call'.off
        /\ call'.off = call.off /\ call'.bytes = call.bytes /\ ~call'.eof
    BY <1>2, <1>5 DEF LineEnds
  <2>2. call.bytes = Interval(call.from, call.from + call.off)
    BY DEF ReadInv
  <2> QED BY <1>2, <2>1, <2>2 DEF ReadInv
<1>6. ReadsNone(1) => closed /\ got = Len(Text)
  BY EndOfStream
<1>7. \/ /\ call.off >= call.len - 1 /\ ReadNothing /\ call'.done
         /\ call'.result = call.off /\ call'.event = call.event /\ call'.eof = call.eof
      \/ /\ call.off < call.len - 1 /\ ReadMore(1) /\ Text[got + 1] \notin Terminators
         /\ call'.done = call.done /\ call'.eof = call.eof
      \/ LineEnds
      \/ ReadNothing /\ call'.done /\ call'.event
      \/ ReadNothing /\ call'.done /\ call'.event = call.event /\ call'.result = call.off /\ ReadsNone(1) /\ call'.eof
  BY ReadLineDoes
<1> QED BY <1>3, <1>4, <1>5, <1>6, <1>7

LEMMA ReadMade ==
  ASSUME \A len \in ExhaustiveLens : len > Len(Text), got \in Nat, NEW c, Made(c), c.op \in Reading
  PROVE  /\ c.bytes = Interval(c.from, c.from + c.off) /\ got = c.from + c.off /\ c.off = 0 /\ ~c.eof /\ ~c.done
         /\ c.op # "ReadExhaustive" => c.len > 0 /\ 0 <= c.len - 1
         /\ c.op = "ReadExhaustive" => c.len > Len(Text)
<1>1. /\ c.off = 0 /\ c.bytes = <<>> /\ ~c.done /\ ~c.eof /\ c.from = got /\ c.len \in Nat
      /\ c.op = "ReadExhaustive" => c.len \in ExhaustiveLens
      /\ c.op # "ReadExhaustive" => c.len > 0
  BY DEF Made, CallRecord, Reading
<1>2. Interval(got, got) = <<>> /\ got + 0 = got
  BY IntervalNone
<1> QED BY <1>1, <1>2

LEMMA ReadNext ==
  ASSUME \A len \in ExhaustiveLens : len > Len(Text), Typed, ReadInv, [Next]_vars
  PROVE  ReadInv'
<1>1. CASE Call
  <2>1. CASE call'.op \in Reading
    <3>1. Made(call') /\ got' = got /\ got \in Nat
      BY <1>1, CallTyped, Here DEF Call
    <3>2. /\ call'.bytes = Interval(call'.from, call'.from + call'.off) /\ got' = call'.from + call'.off
          /\ call'.off = 0 /\ ~call'.eof /\ ~call'.done
          /\ call'.op # "ReadExhaustive" => call'.len > 0 /\ 0 <= call'.len - 1
          /\ call'.op = "ReadExhaustive" => call'.len > Len(Text)
      BY <2>1, <3>1, ReadMade
    <3> QED BY <3>2 DEF ReadInv
  <2>2. CASE call'.op \notin Reading
    BY <2>2 DEF ReadInv
  <2> QED BY <2>1, <2>2
<1>2. CASE Step
  <2>1. CASE ReadStep \/ RecvStep \/ ReadExhaustiveStep \/ ReadLineStep
    BY <1>2, <2>1, ReadStepKeeps, ReadExhaustiveKeeps, ReadLineKeeps DEF Step
  <2>2. CASE call'.op \in Sending \cup Copying \cup LookUps
    BY <2>2 DEF ReadInv, Sending, Reading, LookUps, Copying
  <2> QED BY <1>2, <2>1, <2>2, StepsAre
<1>3. CASE call' = call /\ got' = got /\ (closed => closed')
  BY <1>3 DEF ReadInv
<1> QED BY <1>1, <1>2, <1>3, PeerTyped DEF Next, vars

(* What the calls that read report is what they took off the stream, from    *)
(* where the last call stopped, and the end only at its end; a line has no   *)
(* terminator in it: if ReadExhaustive is given more room than the peer      *)
(* sends, since with a full buffer it reports the end.                       *)
THEOREM ReadsExactHolds ==
  ASSUME \A len \in ExhaustiveLens : len > Len(Text)
  PROVE  Spec => []ReadsExact
<1>1. Init => Typed /\ ReadInv
  <2> SUFFICES ASSUME Init PROVE Typed /\ ReadInv
    OBVIOUS
  <2>1. Typed /\ Made(call) /\ got \in Nat
    BY InitTyped DEF Init
  <2>2. CASE call.op \in Reading
    BY <2>1, <2>2, ReadMade DEF ReadInv
  <2>3. CASE call.op \notin Reading
    BY <2>1, <2>3 DEF ReadInv
  <2> QED BY <2>2, <2>3
<1>2. Typed /\ ReadInv /\ [Next]_vars => Typed' /\ ReadInv'
  BY NextTyped, ReadNext
<1>3. Typed /\ ReadInv => ReadsExact
  <2> SUFFICES ASSUME Typed, ReadInv, Returned(Reading)
               PROVE  ReadsExact
    BY DEF ReadsExact, Reading
  <2>1. /\ call.off \in Nat /\ call.from \in Nat /\ call.done /\ ~call.event /\ call.op \in Reading
        /\ call.bytes = Interval(call.from, call.from + call.off)
    BY Here DEF ReadInv, Returned
  <2>2. Len(call.bytes) = call.off /\ \A i \in 1 .. call.off : call.bytes[i] = call.from + i
    <3>1. PICK a \in Nat : a = call.from
      BY <2>1
    <3>2. PICK b \in Nat : b = a + call.off
      BY <2>1
    <3>3. a <= b /\ b - a = call.off
      BY <2>1, <3>2
    <3>4. Len(Interval(a, b)) = b - a /\ \A i \in 1 .. b - a : Interval(a, b)[i] = a + i
      BY ONLY a \in Nat, b \in Nat, <3>3, IntervalIs
    <3> QED BY <2>1, <3>1, <3>2, <3>3, <3>4
  <2>3. /\ call.result \in {call.off, -1}
        /\ \/ got = call.from + call.off
           \/ got = call.from + call.off + 1 /\ call.op = "ReadLine" /\ Text[got] \in Terminators
        /\ call.eof => closed /\ got = Len(Text)
        /\ call.op = "ReadLine" =>
             /\ got = call.from + call.off + 1 \/ call.eof \/ call.result = call.len - 1
             /\ \A i \in 1 .. call.off : Text[call.from + i] \notin Terminators
    BY <2>1 DEF ReadInv
  <2>4. call.op = "ReadLine" => \A i \in 1 .. call.off : Text[call.bytes[i]] \notin Terminators
    BY <2>2, <2>3
  <2>5. CASE got = call.from + call.off
    <3>1. ~(got > call.from + call.off) /\ got # call.from + call.off + 1
      BY <2>1, <2>5
    <3> QED BY <2>1, <2>2, <2>3, <2>4, <2>5, <3>1 DEF ReadsExact
  <2>6. CASE got = call.from + call.off + 1 /\ call.op = "ReadLine" /\ Text[got] \in Terminators
    <3>1. got > call.from + call.off
      BY <2>1, <2>6
    <3> QED BY <2>1, <2>2, <2>3, <2>4, <2>6, <3>1 DEF ReadsExact
  <2> QED BY <2>3, <2>5, <2>6
<1> QED BY <1>1, <1>2, <1>3, PTL DEF Spec
=============================================================================

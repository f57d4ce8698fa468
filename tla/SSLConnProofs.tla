--------------------------- MODULE SSLConnProofs ----------------------------
(* Proofs about SSLConn, for any number of connections, Descriptors, sockets *)
(* and SSL objects, as long as no use is Risky.                              *)
EXTENDS SSLConn, FiniteSetTheorems, TLAPS

Heaps == [Ids -> [cnt : Nat, fd : Fds \cup {DESCRIPTOR_NULL}, fp : {DESCRIPTOR_NULL}]]
ConnTables == [Conns -> ConnObject \cup {NoConn}]
SocketObject == [st : SocketState, nb : BOOLEAN]
SSLObject == [st : SSLState, fd : Fds \cup {DESCRIPTOR_NULL}, cert : BOOLEAN]

(* Those of c that point to d, and those that have a certificate. *)
Own(c, d) == {o \in Conns : c[o] # NoConn /\ c[o].desc = d}
Certs(c) == {o \in Conns : c[o] # NoConn /\ c[o].cert}

Count(c, d) == Cardinality(Own(c, d))

(* The conjuncts of the inductive invariant, of any heap h, connections c,   *)
(* sockets k, SSL objects s and number of certificate references x, so that  *)
(* they can be shown of the states inside a step, too.                       *)

Typed(h, c, k, s) ==
  h \in Heaps /\ c \in ConnTables /\ k \in [Fds -> SocketObject] /\ s \in [SSLs -> SSLObject]

(* cnt_ is the number of owners, and a Descriptor without any has no socket. *)
Counted(h, c) ==
  \A d \in Ids : /\ h[d].cnt = Count(c, d)
                 /\ h[d].cnt = 0 => h[d].fd = DESCRIPTOR_NULL

(* Each open socket is in one Descriptor, and no other descriptor is in any. *)
OneHolder(h, k) ==
  /\ \A f \in Fds : k[f].st # "closed" <=> \E d \in Ids : h[d].fd = f
  /\ \A d, e \in Ids : h[d].fd = h[e].fd /\ h[d].fd # DESCRIPTOR_NULL => d = e

(* The SSL objects are those of the connections, ... *)
SSLsHeld(c, s) ==
  /\ \A q \in SSLs : s[q].st # "free" <=> \E o \in Conns : c[o] # NoConn /\ c[o].ssl = q
  /\ \A q \in SSLs : (s[q].cert => s[q].st = "up") /\ (s[q].st = "free" => s[q].fd = DESCRIPTOR_NULL)

(* ... which share theirs exactly if they share a Descriptor. *)
SharedTogether(c) ==
  \A o, p \in Conns : c[o] # NoConn /\ c[p] # NoConn =>
    /\ c[o].desc = c[p].desc => c[o].ssl = c[p].ssl
    /\ c[o].ssl = c[p].ssl /\ c[o].ssl # NULL => c[o].desc = c[p].desc

(* One connection r and its socket, if any: it has a certificate only of an  *)
(* SSL that is up, its SSL is on that socket and up only if that one is      *)
(* connected, and so is the socket if connected_ says so.                    *)
FdOf(h, r) == h[r.desc].fd

Member(h, k, s, r) ==
  /\ r.cert => r.ssl # NULL /\ s[r.ssl].st = "up"
  /\ r.ssl # NULL /\ s[r.ssl].st = "up" /\ FdOf(h, r) # DESCRIPTOR_NULL => k[FdOf(h, r)].st = "connected"
  /\ r.ssl # NULL /\ FdOf(h, r) # DESCRIPTOR_NULL => s[r.ssl].fd \in {DESCRIPTOR_NULL, FdOf(h, r)}
  /\ r.connected => FdOf(h, r) # DESCRIPTOR_NULL /\ k[FdOf(h, r)].st = "connected"

Members(h, c, k, s) == \A o \in Conns : c[o] # NoConn => Member(h, k, s, c[o])

Good(h, c, k, s, x) ==
  /\ Typed(h, c, k, s) /\ Counted(h, c) /\ OneHolder(h, k)
  /\ SSLsHeld(c, s) /\ SharedTogether(c) /\ Members(h, c, k, s)
  /\ x = Cardinality(Certs(c))

ConnInv == Good(heap, conn, sock, ssl, x509) /\ event \in BOOLEAN

-----------------------------------------------------------------------------
(* Constants and counts *)

LEMMA NullIsNoFd == DESCRIPTOR_NULL \notin Fds /\ DESCRIPTOR_NULL \notin Ids
BY FdsAssumption, IdsAssumption DEF DESCRIPTOR_NULL

(* b is a but for what it has at x. *)
SameBut(a, b, S, x) == \A y \in S \ {x} : b[y] = a[y]

LEMMA OwnFinite ==
  ASSUME NEW c, NEW d
  PROVE  IsFiniteSet(Own(c, d)) /\ Count(c, d) \in Nat
<1>1. IsFiniteSet(Own(c, d))
  BY ConnsAssumption, FS_Subset DEF Own
<1> QED BY <1>1, FS_CardinalityType DEF Count

LEMMA CertsFinite ==
  ASSUME NEW c
  PROVE  IsFiniteSet(Certs(c)) /\ Cardinality(Certs(c)) \in Nat
<1>1. IsFiniteSet(Certs(c))
  BY ConnsAssumption, FS_Subset DEF Certs
<1> QED BY <1>1, FS_CardinalityType

(* How many own d when o lets go of it, ... *)
LEMMA CountLeft ==
  ASSUME NEW c, NEW c2, NEW o \in Conns, NEW d, c[o] # NoConn, c[o].desc = d,
         c2[o] = NoConn, SameBut(c, c2, Conns, o)
  PROVE  /\ Count(c2, d) = Count(c, d) - 1
         /\ \A e : e # d => Count(c2, e) = Count(c, e)
<1>1. Own(c2, d) = Own(c, d) \ {o} /\ o \in Own(c, d)
  BY DEF Own, SameBut
<1>2. Cardinality(Own(c, d) \ {o}) = Count(c, d) - 1
  BY <1>1, OwnFinite, FS_RemoveElement DEF Count
<1>3. ASSUME NEW e, e # d PROVE Own(c2, e) = Own(c, e)
  BY <1>3 DEF Own, SameBut
<1> QED BY <1>1, <1>2, <1>3 DEF Count

(* ... when it gets it, ... *)
LEMMA CountJoined ==
  ASSUME NEW c, NEW c2, NEW o \in Conns, NEW d, c[o] = NoConn,
         c2[o] # NoConn, c2[o].desc = d, SameBut(c, c2, Conns, o)
  PROVE  /\ Count(c2, d) = Count(c, d) + 1
         /\ \A e : e # d => Count(c2, e) = Count(c, e)
<1>1. Own(c2, d) = Own(c, d) \cup {o} /\ o \notin Own(c, d)
  BY DEF Own, SameBut
<1>2. Cardinality(Own(c, d) \cup {o}) = Count(c, d) + 1
  BY <1>1, OwnFinite, FS_AddElement DEF Count
<1>3. ASSUME NEW e, e # d PROVE Own(c2, e) = Own(c, e)
  BY <1>3 DEF Own, SameBut
<1> QED BY <1>1, <1>2, <1>3 DEF Count

(* ... and when all point where they did. *)
LEMMA OwnStays ==
  ASSUME NEW c, NEW c2,
         \A o \in Conns : (c2[o] # NoConn <=> c[o] # NoConn) /\ (c[o] # NoConn => c2[o].desc = c[o].desc)
  PROVE  \A e : Count(c2, e) = Count(c, e)
<1>1. ASSUME NEW e PROVE Own(c2, e) = Own(c, e)
  BY DEF Own
<1> QED BY <1>1 DEF Count

(* Who owns d is counted there. *)
LEMMA OwnerCounted ==
  ASSUME NEW c, NEW d, NEW o \in Own(c, d)
  PROVE  /\ Count(c, d) >= 1
         /\ \A p \in Own(c, d) : Count(c, d) = 1 => p = o
<1>1. IsFiniteSet(Own(c, d)) /\ Count(c, d) \in Nat
  BY OwnFinite
<1>2. Cardinality(Own(c, d) \ {o}) = Count(c, d) - 1 /\ IsFiniteSet(Own(c, d) \ {o})
  BY <1>1, FS_RemoveElement DEF Count
<1>3. Cardinality(Own(c, d) \ {o}) \in Nat
  BY <1>2, FS_CardinalityType
<1>4. ASSUME NEW p \in Own(c, d), Count(c, d) = 1 PROVE p = o
  <2>1. Own(c, d) \ {o} = {}
    BY <1>2, <1>4, FS_EmptySet DEF Count
  <2> QED BY <2>1, <1>4
<1> QED BY <1>1, <1>2, <1>3, <1>4

(* How many certificates there are when one connection changes. *)
CertOf(c, o) == c[o] # NoConn /\ c[o].cert

LEMMA CertsChange ==
  ASSUME NEW c, NEW c2, NEW o \in Conns, SameBut(c, c2, Conns, o)
  PROVE  /\ Cardinality(Certs(c2)) = (Cardinality(Certs(c)) - Ref(CertOf(c, o))) + Ref(CertOf(c2, o))
         /\ Cardinality(Certs(c)) - Ref(CertOf(c, o)) \in Nat
<1> DEFINE S == Certs(c) \ {o}
<1>1. IsFiniteSet(Certs(c)) /\ Cardinality(Certs(c)) \in Nat
  BY CertsFinite
<1>2. IsFiniteSet(S) /\ Cardinality(S) \in Nat
  <2>1. IsFiniteSet(S)
    BY <1>1, FS_Subset
  <2> QED BY <2>1, FS_CardinalityType
<1>3. Cardinality(S) = Cardinality(Certs(c)) - Ref(CertOf(c, o))
  <2>1. CASE CertOf(c, o)
    <3>1. o \in Certs(c)
      BY <2>1 DEF CertOf, Certs
    <3> QED BY <1>1, <2>1, <3>1, FS_RemoveElement DEF Ref
  <2>2. CASE ~CertOf(c, o)
    <3>1. S = Certs(c)
      BY <2>2 DEF CertOf, Certs
    <3> QED BY <1>1, <2>2, <3>1 DEF Ref
  <2> QED BY <2>1, <2>2
<1>4. Cardinality(Certs(c2)) = Cardinality(S) + Ref(CertOf(c2, o))
  <2>1. CASE CertOf(c2, o)
    <3>1. Certs(c2) = S \cup {o} /\ o \notin S
      BY <2>1 DEF CertOf, Certs, SameBut
    <3> QED BY <1>2, <2>1, <3>1, FS_AddElement DEF Ref
  <2>2. CASE ~CertOf(c2, o)
    <3>1. Certs(c2) = S
      BY <2>2 DEF CertOf, Certs, SameBut
    <3> QED BY <1>2, <2>2, <3>1 DEF Ref
  <2> QED BY <2>1, <2>2
<1> QED BY <1>2, <1>3, <1>4

-----------------------------------------------------------------------------
(* What actions are made of keeps Good. *)

(* A connection of the table is a connection object. *)
LEMMA Found ==
  ASSUME NEW c \in ConnTables, NEW o \in Conns, c[o] # NoConn
  PROVE  c[o] \in ConnObject /\ c[o].desc \in Ids /\ c[o].ssl \in SSLs \cup {NULL} /\ c[o].cert \in BOOLEAN
<1>1. c[o] \in ConnObject
  BY DEF ConnTables
<1> QED BY <1>1 DEF ConnObject

(* The owner of a Descriptor counts: alone if the count is 1. *)
LEMMA OwnerAlone ==
  ASSUME NEW h, NEW c, NEW k, NEW s, Typed(h, c, k, s), Counted(h, c),
         NEW o \in Conns, c[o] # NoConn
  PROVE  /\ h[c[o].desc].cnt \in Nat \ {0}
         /\ h[c[o].desc].cnt = 1 => \A p \in Conns \ {o} : c[p] # NoConn => c[p].desc # c[o].desc
<1>1. c[o].desc \in Ids /\ o \in Own(c, c[o].desc)
  BY Found DEF Typed, Own
<1>2. h[c[o].desc].cnt = Count(c, c[o].desc) /\ h[c[o].desc].cnt \in Nat
  BY <1>1, OwnFinite DEF Counted
<1>3. Count(c, c[o].desc) >= 1
  BY <1>1, OwnerCounted
<1>4. ASSUME h[c[o].desc].cnt = 1, NEW p \in Conns \ {o}, c[p] # NoConn, c[p].desc = c[o].desc
      PROVE  FALSE
  <2>1. p \in Own(c, c[o].desc)
    BY <1>4 DEF Own
  <2> QED BY <1>1, <1>2, <1>4, <2>1, OwnerCounted
<1> QED BY <1>2, <1>3, <1>4

(* Dropped, as far as it matters to others. *)
LEMMA DroppedIs ==
  ASSUME NEW h \in Heaps, NEW d \in Ids, h[d].cnt # 0
  PROVE  /\ Dropped(h, d) \in Heaps /\ SameBut(h, Dropped(h, d), Ids, d)
         /\ Dropped(h, d)[d].cnt = h[d].cnt - 1
         /\ Dropped(h, d)[d].fd = IF IsLast(h, d) THEN DESCRIPTOR_NULL ELSE h[d].fd
<1>1. h[d] \in [cnt : Nat, fd : Fds \cup {DESCRIPTOR_NULL}, fp : {DESCRIPTOR_NULL}]
  BY DEF Heaps
<1>2. CASE IsLast(h, d)
  <2>1. Dropped(h, d) = [h EXCEPT ![d] = Deleted]
    BY <1>2 DEF Dropped
  <2>2. /\ Deleted \in [cnt : Nat, fd : Fds \cup {DESCRIPTOR_NULL}, fp : {DESCRIPTOR_NULL}]
        /\ Deleted.cnt = 0 /\ Deleted.fd = DESCRIPTOR_NULL
    BY DEF Deleted, NewDescriptor
  <2>3. Dropped(h, d)[d] = Deleted /\ h[d].cnt = 1
    BY <1>2, <2>1 DEF Heaps, IsLast
  <2>4. Dropped(h, d) \in Heaps /\ SameBut(h, Dropped(h, d), Ids, d)
    BY <2>1, <2>2 DEF Heaps, SameBut
  <2> QED BY <1>2, <2>2, <2>3, <2>4
<1>3. CASE ~IsLast(h, d)
  <2>1. Dropped(h, d) = [h EXCEPT ![d].cnt = @ - 1]
    BY <1>3 DEF Dropped
  <2>2. Dropped(h, d)[d] = [h[d] EXCEPT !.cnt = @ - 1]
    BY <2>1 DEF Heaps
  <2>3. h[d].cnt - 1 \in Nat
    BY <1>1
  <2>4. /\ Dropped(h, d)[d] \in [cnt : Nat, fd : Fds \cup {DESCRIPTOR_NULL}, fp : {DESCRIPTOR_NULL}]
        /\ Dropped(h, d)[d].cnt = h[d].cnt - 1 /\ Dropped(h, d)[d].fd = h[d].fd
    BY <1>1, <2>2, <2>3
  <2>5. Dropped(h, d) \in Heaps /\ SameBut(h, Dropped(h, d), Ids, d)
    BY <2>1, <2>4 DEF Heaps, SameBut
  <2> QED BY <1>3, <2>4, <2>5
<1> QED BY <1>2, <1>3

(* The sockets after what had f open let go of it. *)
Without(k, f) == [g \in Fds |-> IF g \in {f} THEN NoSocket ELSE k[g]]

(* o lets go of a Descriptor and an SSL that others have, too, ... *)
LEMMA OneLeaves ==
  ASSUME NEW h, NEW c, NEW k, NEW s, NEW x, Good(h, c, k, s, x),
         NEW o \in Conns, c[o] # NoConn, ~IsLast(h, c[o].desc),
         NEW c2, c2 = [c EXCEPT ![o] = NoConn]
  PROVE  Good(Dropped(h, c[o].desc), c2, k, s, x - Ref(c[o].cert))
<1> DEFINE d == c[o].desc
           h2 == Dropped(h, d)
<1>1. /\ Typed(h, c, k, s) /\ Counted(h, c) /\ OneHolder(h, k)
      /\ SSLsHeld(c, s) /\ SharedTogether(c) /\ Members(h, c, k, s) /\ x = Cardinality(Certs(c))
  BY DEF Good
<1>2. d \in Ids /\ h[d].cnt \in Nat \ {0} /\ h[d].cnt # 1
  BY <1>1, Found, OwnerAlone DEF Typed, IsLast
<1>3. /\ h2 \in Heaps /\ SameBut(h, h2, Ids, d) /\ h2[d].cnt = h[d].cnt - 1 /\ h2[d].fd = h[d].fd
  BY <1>1, <1>2, DroppedIs DEF Typed
<1>4. c2 \in ConnTables /\ c2[o] = NoConn /\ SameBut(c, c2, Conns, o)
  BY <1>1 DEF Typed, ConnTables, SameBut
<1> HIDE DEF d, h2
<1>5. \A e \in Ids : h2[e].fd = h[e].fd
  BY <1>3 DEF SameBut
<1>6. Typed(h2, c2, k, s)
  BY <1>1, <1>3, <1>4 DEF Typed
<1>7a. o \in Conns /\ c[o] # NoConn /\ c[o].desc = d
  BY DEF d
<1>7. /\ Count(c2, d) = Count(c, d) - 1
      /\ \A e : e # d => Count(c2, e) = Count(c, e)
  BY ONLY <1>4, <1>7a, CountLeft
<1>8. Counted(h2, c2)
  <2>1. ASSUME NEW e \in Ids PROVE h2[e].cnt = Count(c2, e) /\ (h2[e].cnt = 0 => h2[e].fd = DESCRIPTOR_NULL)
    <3>1. h[e].cnt = Count(c, e) /\ (h[e].cnt = 0 => h[e].fd = DESCRIPTOR_NULL)
      BY <1>1 DEF Counted
    <3>2. CASE e = d
      BY <1>2, <1>3, <1>7, <3>1, <3>2
    <3>3. CASE e # d
      BY <1>3, <1>7, <3>1, <3>3 DEF SameBut
    <3> QED BY <3>2, <3>3
  <2> QED BY <2>1 DEF Counted
<1>9. OneHolder(h2, k)
  BY <1>1, <1>5 DEF OneHolder
<1>10. \E p \in Conns \ {o} : c[p] # NoConn /\ c[p].desc = d
  <2>1. ASSUME \A p \in Conns \ {o} : ~(c[p] # NoConn /\ c[p].desc = d) PROVE FALSE
    <3>1. Own(c, d) = {o}
      BY <2>1 DEF Own, d
    <3>2. h[d].cnt = 1
      BY <1>1, <1>2, <3>1, FS_Singleton DEF Counted, Count
    <3> QED BY <1>2, <3>2
  <2> QED BY <2>1
<1>11. SSLsHeld(c2, s)
  <2>1. PICK p \in Conns \ {o} : c[p] # NoConn /\ c[p].desc = d
    BY <1>10
  <2>2. c[p].ssl = c[o].ssl
    BY <1>1, <2>1 DEF SharedTogether, d
  <2> QED BY <1>1, <1>4, <2>1, <2>2 DEF SSLsHeld, SameBut
<1>12. SharedTogether(c2)
  BY <1>1, <1>4 DEF SharedTogether, SameBut
<1>13. Members(h2, c2, k, s)
  <2>1. ASSUME NEW p \in Conns, c2[p] # NoConn PROVE Member(h2, k, s, c2[p])
    <3>1. p # o /\ c2[p] = c[p] /\ c[p].desc \in Ids
      BY <1>1, <1>4, <2>1, Found DEF SameBut, Typed
    <3>2. Member(h, k, s, c[p]) /\ FdOf(h2, c[p]) = FdOf(h, c[p])
      BY <1>1, <1>5, <2>1, <3>1 DEF Members, FdOf
    <3> QED BY <3>1, <3>2 DEF Member
  <2> QED BY <2>1 DEF Members
<1>14. x - Ref(c[o].cert) = Cardinality(Certs(c2))
  <2>1. CertOf(c2, o) = FALSE /\ CertOf(c, o) = c[o].cert
    BY <1>1, <1>4, Found DEF CertOf, Typed
  <2>2. Cardinality(Certs(c2)) = (Cardinality(Certs(c)) - Ref(CertOf(c, o))) + Ref(CertOf(c2, o))
        /\ Cardinality(Certs(c)) - Ref(CertOf(c, o)) \in Nat
    BY <1>4, CertsChange
  <2> QED BY <1>1, <2>1, <2>2 DEF Ref
<1> QED BY <1>6, <1>8, <1>9, <1>11, <1>12, <1>13, <1>14 DEF Good, h2, d

(* ... and those that nobody else has: the socket is closed and the SSL      *)
(* freed.                                                                    *)
Freed(s, q) == IF q # NULL THEN [s EXCEPT ![q] = FreeSSL] ELSE s

LEMMA WithoutIs ==
  ASSUME NEW k \in [Fds -> SocketObject], NEW f
  PROVE  /\ Without(k, f) \in [Fds -> SocketObject]
         /\ \A g \in Fds : g # f => Without(k, f)[g] = k[g]
         /\ f \in Fds => Without(k, f)[f].st = "closed"
<1>1. NoSocket \in SocketObject /\ NoSocket.st = "closed"
  BY DEF NoSocket, SocketObject, SocketState
<1> QED BY <1>1 DEF Without

LEMMA FreedIs ==
  ASSUME NEW s \in [SSLs -> SSLObject], NEW q \in SSLs \cup {NULL}
  PROVE  /\ Freed(s, q) \in [SSLs -> SSLObject]
         /\ \A r \in SSLs : r # q => Freed(s, q)[r] = s[r]
         /\ q # NULL => /\ Freed(s, q)[q].st = "free" /\ ~Freed(s, q)[q].cert
                        /\ Freed(s, q)[q].fd = DESCRIPTOR_NULL
<1>1. FreeSSL \in SSLObject /\ FreeSSL.st = "free" /\ ~FreeSSL.cert /\ FreeSSL.fd = DESCRIPTOR_NULL
  BY DEF FreeSSL, SSLObject, SSLState
<1>2. CASE q = NULL
  BY <1>2, NULLAssumption DEF Freed
<1>3. CASE q # NULL
  BY <1>1, <1>3 DEF Freed
<1> QED BY <1>2, <1>3

LEMMA LastLeaves ==
  ASSUME NEW h, NEW c, NEW k, NEW s, NEW x, Good(h, c, k, s, x),
         NEW o \in Conns, c[o] # NoConn, IsLast(h, c[o].desc),
         NEW c2, c2 = [c EXCEPT ![o] = NoConn]
  PROVE  Good(Dropped(h, c[o].desc), c2, Without(k, h[c[o].desc].fd), Freed(s, c[o].ssl), x - Ref(c[o].cert))
<1> DEFINE d == c[o].desc
           q == c[o].ssl
           f == h[d].fd
           h2 == Dropped(h, d)
           k2 == Without(k, f)
           s2 == Freed(s, q)
<1>1. /\ Typed(h, c, k, s) /\ Counted(h, c) /\ OneHolder(h, k)
      /\ SSLsHeld(c, s) /\ SharedTogether(c) /\ Members(h, c, k, s) /\ x = Cardinality(Certs(c))
  BY DEF Good
<1>2. d \in Ids /\ q \in SSLs \cup {NULL} /\ h[d].cnt = 1
  BY <1>1, Found DEF Typed, IsLast
<1>3. /\ h2 \in Heaps /\ SameBut(h, h2, Ids, d) /\ h2[d].cnt = 0 /\ h2[d].fd = DESCRIPTOR_NULL
  <2>1. /\ h2 \in Heaps /\ SameBut(h, h2, Ids, d) /\ h2[d].cnt = h[d].cnt - 1 /\ h2[d].fd = DESCRIPTOR_NULL
    BY <1>1, <1>2, DroppedIs DEF Typed
  <2> QED BY <1>2, <2>1
<1>4. c2 \in ConnTables /\ c2[o] = NoConn /\ SameBut(c, c2, Conns, o)
  BY <1>1 DEF Typed, ConnTables, SameBut
<1>5. /\ k2 \in [Fds -> SocketObject] /\ \A g \in Fds : g # f => k2[g] = k[g]
      /\ f \in Fds => k2[f].st = "closed"
  BY <1>1, WithoutIs DEF Typed
<1>6. /\ s2 \in [SSLs -> SSLObject] /\ \A r \in SSLs : r # q => s2[r] = s[r]
      /\ q # NULL => s2[q].st = "free" /\ ~s2[q].cert /\ s2[q].fd = DESCRIPTOR_NULL
  BY <1>1, <1>2, FreedIs DEF Typed
<1>7. f \in Fds \cup {DESCRIPTOR_NULL}
  BY <1>1, <1>2 DEF Typed, Heaps
<1>8. \A p \in Conns \ {o} : c[p] # NoConn => c[p].desc # d /\ (c[p].ssl = q => q = NULL)
  <2>1. \A p \in Conns \ {o} : c[p] # NoConn => c[p].desc # d
    BY <1>1, <1>2, OwnerAlone
  <2> QED BY <1>1, <2>1 DEF SharedTogether
<1> HIDE DEF h2, k2, s2
<1> HIDE DEF d
<1>9a. o \in Conns /\ c[o] # NoConn /\ c[o].desc = d
  BY DEF d
<1>9. /\ Count(c2, d) = Count(c, d) - 1
      /\ \A e : e # d => Count(c2, e) = Count(c, e)
  BY ONLY <1>4, <1>9a, CountLeft
<1>10. Typed(h2, c2, k2, s2)
  BY <1>3, <1>4, <1>5, <1>6 DEF Typed
<1>11. Counted(h2, c2)
  <2>1. ASSUME NEW e \in Ids PROVE h2[e].cnt = Count(c2, e) /\ (h2[e].cnt = 0 => h2[e].fd = DESCRIPTOR_NULL)
    <3>1. h[e].cnt = Count(c, e) /\ (h[e].cnt = 0 => h[e].fd = DESCRIPTOR_NULL)
      BY <1>1 DEF Counted
    <3>2. CASE e = d
      BY <1>2, <1>3, <1>9, <3>1, <3>2
    <3>3. CASE e # d
      BY <1>3, <1>9, <3>1, <3>3 DEF SameBut
    <3> QED BY <3>2, <3>3
  <2> QED BY <2>1 DEF Counted
<1> HIDE DEF f, q
<1>12. f = h[d].fd
  BY DEF f
<1>13. \A e \in Ids \ {d} : h2[e].fd = h[e].fd /\ (h[e].fd # DESCRIPTOR_NULL => h[e].fd # f)
  BY <1>1, <1>2, <1>3, <1>12 DEF OneHolder, SameBut
<1>14. OneHolder(h2, k2)
  <2>1. ASSUME NEW g \in Fds PROVE k2[g].st # "closed" <=> \E e \in Ids : h2[e].fd = g
    <3>1. k[g].st # "closed" <=> \E e \in Ids : h[e].fd = g
      BY <1>1 DEF OneHolder
    <3>2. g # DESCRIPTOR_NULL
      BY NullIsNoFd
    <3>3. CASE g = f
      BY <1>3, <1>5, <1>13, <3>2, <3>3
    <3>4. CASE g # f
      BY <1>3, <1>5, <1>12, <1>13, <3>1, <3>2, <3>4
    <3> QED BY <3>3, <3>4
  <2>2. ASSUME NEW e \in Ids, NEW g \in Ids, h2[e].fd = h2[g].fd, h2[e].fd # DESCRIPTOR_NULL PROVE e = g
    BY <1>1, <1>3, <1>13, <2>2 DEF OneHolder
  <2> QED BY <2>1, <2>2 DEF OneHolder
<1>15. SSLsHeld(c2, s2)
  <2>1. ASSUME NEW r \in SSLs
        PROVE  s2[r].st # "free" <=> \E p \in Conns : c2[p] # NoConn /\ c2[p].ssl = r
    <3>1. s[r].st # "free" <=> \E p \in Conns : c[p] # NoConn /\ c[p].ssl = r
      BY <1>1 DEF SSLsHeld
    <3>2. r # NULL
      BY NULLAssumption
    <3>3. CASE r = q
      BY <1>4, <1>6, <1>8, <3>2, <3>3 DEF SameBut
    <3>4. CASE r # q
      BY <1>4, <1>6, <3>1, <3>4 DEF SameBut, q
    <3> QED BY <3>3, <3>4
  <2>2. \A r \in SSLs : (s2[r].cert => s2[r].st = "up") /\ (s2[r].st = "free" => s2[r].fd = DESCRIPTOR_NULL)
    BY <1>1, <1>6, NULLAssumption DEF SSLsHeld
  <2> QED BY <2>1, <2>2 DEF SSLsHeld
<1>16. SharedTogether(c2)
  BY <1>1, <1>4 DEF SharedTogether, SameBut
<1>17. Members(h2, c2, k2, s2)
  <2>1. ASSUME NEW p \in Conns, c2[p] # NoConn PROVE Member(h2, k2, s2, c2[p])
    <3>1. p \in Conns \ {o} /\ c2[p] = c[p]
      BY <1>4, <2>1 DEF SameBut
    <3>2. c[p].desc \in Ids \ {d} /\ c[p].ssl \in SSLs \cup {NULL}
      BY <1>1, <1>8, <2>1, <3>1, Found DEF Typed
    <3>3. Member(h, k, s, c[p])
      BY <1>1, <2>1, <3>1 DEF Members
    <3>4. FdOf(h2, c[p]) = FdOf(h, c[p]) /\ FdOf(h, c[p]) \in Fds \cup {DESCRIPTOR_NULL}
      BY <1>1, <1>13, <3>2 DEF FdOf, Typed, Heaps
    <3>5. FdOf(h, c[p]) # DESCRIPTOR_NULL => k2[FdOf(h, c[p])] = k[FdOf(h, c[p])]
      BY <1>5, <1>13, <3>2, <3>4 DEF FdOf
    <3>6. c[p].ssl # NULL => s2[c[p].ssl] = s[c[p].ssl]
      BY <1>6, <1>8, <2>1, <3>1, <3>2
    <3> QED BY <3>1, <3>3, <3>4, <3>5, <3>6 DEF Member
  <2> QED BY <2>1 DEF Members
<1>18. x - Ref(c[o].cert) = Cardinality(Certs(c2))
  <2>1. CertOf(c2, o) = FALSE /\ CertOf(c, o) = c[o].cert
    BY <1>1, <1>4, Found DEF CertOf, Typed
  <2>2. Cardinality(Certs(c2)) = (Cardinality(Certs(c)) - Ref(CertOf(c, o))) + Ref(CertOf(c2, o))
        /\ Cardinality(Certs(c)) - Ref(CertOf(c, o)) \in Nat
    BY <1>4, CertsChange
  <2> QED BY <1>1, <2>1, <2>2 DEF Ref
<1> QED BY <1>10, <1>11, <1>14, <1>15, <1>16, <1>17, <1>18 DEF Good, h2, k2, s2, d, f, q

(* o becomes r, which has the Descriptor and the SSL of p, or a Descriptor   *)
(* that nobody has and no SSL.                                               *)
MayJoin(c, r) ==
  \/ \E p \in Conns : c[p] # NoConn /\ c[p].desc = r.desc /\ c[p].ssl = r.ssl
  \/ (\A p \in Conns : c[p] # NoConn => c[p].desc # r.desc) /\ r.ssl = NULL

LEMMA Joins ==
  ASSUME NEW h, NEW c, NEW k, NEW s, NEW x, Good(h, c, k, s, x),
         NEW o \in Conns, c[o] = NoConn, NEW r \in ConnObject,
         NEW h2 \in Heaps, SameBut(h, h2, Ids, r.desc),
         h2[r.desc].cnt = h[r.desc].cnt + 1, h2[r.desc].fd = h[r.desc].fd,
         MayJoin(c, r),
         Member(h2, k, s, r),
         NEW c2 \in ConnTables, c2[o] = r, SameBut(c, c2, Conns, o)
  PROVE  Good(h2, c2, k, s, x + Ref(r.cert))
<1> DEFINE d == r.desc
<1>1. /\ Typed(h, c, k, s) /\ Counted(h, c) /\ OneHolder(h, k)
      /\ SSLsHeld(c, s) /\ SharedTogether(c) /\ Members(h, c, k, s) /\ x = Cardinality(Certs(c))
  BY DEF Good
<1>2. d \in Ids /\ h[d].cnt \in Nat /\ r.ssl \in SSLs \cup {NULL} /\ r.cert \in BOOLEAN /\ r # NoConn
  BY <1>1, NoConnAssumption DEF Typed, Heaps, ConnObject
<1>3. c2 \in ConnTables /\ c2[o] = r /\ SameBut(c, c2, Conns, o)
  OBVIOUS
<1> HIDE DEF d
<1>4. r.desc = d
  BY DEF d
<1>5. \A e \in Ids : h2[e].fd = h[e].fd
  BY <1>4 DEF SameBut
<1>6. Typed(h2, c2, k, s)
  BY <1>1, <1>3 DEF Typed
<1>7. /\ Count(c2, d) = Count(c, d) + 1
      /\ \A e : e # d => Count(c2, e) = Count(c, e)
  <2>1. o \in Conns /\ c[o] = NoConn /\ c2[o] # NoConn /\ c2[o].desc = d
    BY <1>2, <1>3, <1>4
  <2> QED BY ONLY <1>3, <2>1, CountJoined
<1>8. Counted(h2, c2)
  <2>1. ASSUME NEW e \in Ids PROVE h2[e].cnt = Count(c2, e) /\ (h2[e].cnt = 0 => h2[e].fd = DESCRIPTOR_NULL)
    <3>1. h[e].cnt = Count(c, e) /\ (h[e].cnt = 0 => h[e].fd = DESCRIPTOR_NULL)
      BY <1>1 DEF Counted
    <3>2. CASE e = d
      <4>1. h2[d].cnt = h[d].cnt + 1
        BY <1>4
      <4> QED BY <1>2, <1>7, <3>1, <3>2, <4>1
    <3>3. CASE e # d
      BY <1>4, <1>7, <3>1, <3>3 DEF SameBut
    <3> QED BY <3>2, <3>3
  <2> QED BY <2>1 DEF Counted
<1>9. OneHolder(h2, k)
  BY <1>1, <1>5 DEF OneHolder
<1>10. SSLsHeld(c2, s)
  <2>1. ASSUME NEW q \in SSLs
        PROVE  (\E p \in Conns : c[p] # NoConn /\ c[p].ssl = q) <=> \E p \in Conns : c2[p] # NoConn /\ c2[p].ssl = q
    <3>1. q # NULL
      BY NULLAssumption
    <3>2. ASSUME NEW p \in Conns, c[p] # NoConn, c[p].ssl = q PROVE c2[p] # NoConn /\ c2[p].ssl = q
      BY <1>3, <3>2 DEF SameBut
    <3>3. ASSUME NEW p \in Conns, c2[p] # NoConn, c2[p].ssl = q PROVE \E t \in Conns : c[t] # NoConn /\ c[t].ssl = q
      <4>1. CASE p = o
        BY <1>3, <3>1, <3>3, <4>1 DEF MayJoin
      <4>2. CASE p # o
        BY <1>3, <3>3, <4>2 DEF SameBut
      <4> QED BY <4>1, <4>2
    <3> QED BY <3>2, <3>3
  <2> QED BY <1>1, <2>1 DEF SSLsHeld
<1>11. \A p \in Conns : c[p] # NoConn =>
         /\ c[p].desc = d => c[p].ssl = r.ssl
         /\ c[p].ssl = r.ssl /\ r.ssl # NULL => c[p].desc = d
  <2>1. CASE \E p \in Conns : c[p] # NoConn /\ c[p].desc = r.desc /\ c[p].ssl = r.ssl
    BY <1>1, <1>4, <2>1 DEF SharedTogether
  <2>2. CASE (\A p \in Conns : c[p] # NoConn => c[p].desc # r.desc) /\ r.ssl = NULL
    BY <1>4, <2>2
  <2> QED BY <2>1, <2>2 DEF MayJoin
<1>12. SharedTogether(c2)
  <2>1. ASSUME NEW p \in Conns, NEW t \in Conns, c2[p] # NoConn, c2[t] # NoConn
        PROVE  /\ c2[p].desc = c2[t].desc => c2[p].ssl = c2[t].ssl
               /\ c2[p].ssl = c2[t].ssl /\ c2[p].ssl # NULL => c2[p].desc = c2[t].desc
    <3>1. CASE p = o /\ t = o
      BY <3>1
    <3>2. CASE p = o /\ t # o
      BY <1>3, <1>4, <1>11, <2>1, <3>2 DEF SameBut
    <3>3. CASE p # o /\ t = o
      BY <1>3, <1>4, <1>11, <2>1, <3>3 DEF SameBut
    <3>4. CASE p # o /\ t # o
      BY <1>1, <1>3, <2>1, <3>4 DEF SameBut, SharedTogether
    <3> QED BY <3>1, <3>2, <3>3, <3>4
  <2> QED BY <2>1 DEF SharedTogether
<1>13. Members(h2, c2, k, s)
  <2>1. ASSUME NEW p \in Conns, c2[p] # NoConn PROVE Member(h2, k, s, c2[p])
    <3>1. CASE p = o
      BY <1>3, <3>1
    <3>2. CASE p # o
      <4>1. c2[p] = c[p] /\ c[p].desc \in Ids
        BY <1>1, <1>3, <2>1, <3>2, Found DEF SameBut, Typed
      <4>2. Member(h, k, s, c[p]) /\ FdOf(h2, c[p]) = FdOf(h, c[p])
        BY <1>1, <1>5, <2>1, <4>1 DEF Members, FdOf
      <4> QED BY <4>1, <4>2 DEF Member
    <3> QED BY <3>1, <3>2
  <2> QED BY <2>1 DEF Members
<1>14. x + Ref(r.cert) = Cardinality(Certs(c2))
  <2>1. CertOf(c2, o) = r.cert /\ CertOf(c, o) = FALSE
    BY <1>2, <1>3 DEF CertOf
  <2>2. Cardinality(Certs(c2)) = (Cardinality(Certs(c)) - Ref(CertOf(c, o))) + Ref(CertOf(c2, o))
        /\ Cardinality(Certs(c)) - Ref(CertOf(c, o)) \in Nat
    BY <1>3, CertsChange
  <2>3. Cardinality(Certs(c)) \in Nat
    BY CertsFinite
  <2> QED BY <1>1, <2>1, <2>2, <2>3 DEF Ref
<1> QED BY <1>6, <1>8, <1>9, <1>10, <1>12, <1>13, <1>14 DEF Good

(* new Descriptor() for o. *)
LEMMA NewJoins ==
  ASSUME NEW h, NEW c, NEW k, NEW s, NEW x, Good(h, c, k, s, x),
         NEW o \in Conns, c[o] = NoConn, NEW d \in Unused(h),
         NEW h2, h2 = [h EXCEPT ![d] = NewDescriptor], NEW r, r = NewConn(d),
         NEW c2 \in ConnTables, c2[o] = r, SameBut(c, c2, Conns, o)
  PROVE  Good(h2, c2, k, s, x)
<1>1. Typed(h, c, k, s) /\ Counted(h, c) /\ x = Cardinality(Certs(c))
  BY DEF Good
<1>2. d \in Ids /\ h[d].cnt = 0
  BY DEF Unused
<1>3. h[d].fd = DESCRIPTOR_NULL
  BY <1>1, <1>2 DEF Counted
<1>4. h2 \in Heaps /\ h2[d] = NewDescriptor /\ SameBut(h, h2, Ids, d)
  BY <1>1, <1>2 DEF Typed, Heaps, NewDescriptor, SameBut
<1>5. h2[d].cnt = h[d].cnt + 1 /\ h2[d].fd = h[d].fd /\ h2[d].fd = DESCRIPTOR_NULL
  BY <1>2, <1>3, <1>4 DEF NewDescriptor
<1>6. r \in ConnObject /\ r.desc = d /\ r.ssl = NULL /\ ~r.cert /\ ~r.connected
  BY <1>2 DEF NewConn, ConnObject
<1>7. Member(h2, k, s, r)
  BY <1>5, <1>6 DEF Member, FdOf
<1>8. \A p \in Conns : c[p] # NoConn => c[p].desc # d
  BY <1>1, <1>2, OwnerAlone
<1>9. Good(h2, c2, k, s, x + Ref(r.cert))
  <2>1. MayJoin(c, r)
    BY <1>6, <1>8 DEF MayJoin
  <2> QED BY <1>4, <1>5, <1>6, <1>7, <2>1, Joins
<1>10. x + Ref(r.cert) = x
  BY <1>1, <1>6, CertsFinite DEF Ref
<1> QED BY <1>9, <1>10

(* Shared: o becomes a copy of p, with a certificate if the SSL has one.     *)
LEMMA SharedIs ==
  ASSUME NEW h \in Heaps, NEW d \in Ids, h[d].cnt # 0
  PROVE  /\ Shared(h, d) \in Heaps /\ SameBut(h, Shared(h, d), Ids, d)
         /\ Shared(h, d)[d].cnt = h[d].cnt + 1 /\ Shared(h, d)[d].fd = h[d].fd
<1>1. h[d] \in [cnt : Nat, fd : Fds \cup {DESCRIPTOR_NULL}, fp : {DESCRIPTOR_NULL}]
  BY DEF Heaps
<1>2. Shared(h, d) = [h EXCEPT ![d].cnt = @ + 1]
  BY DEF Shared
<1>3. Shared(h, d)[d] = [h[d] EXCEPT !.cnt = @ + 1]
  BY <1>2 DEF Heaps
<1>4. /\ Shared(h, d)[d] \in [cnt : Nat, fd : Fds \cup {DESCRIPTOR_NULL}, fp : {DESCRIPTOR_NULL}]
      /\ Shared(h, d)[d].cnt = h[d].cnt + 1 /\ Shared(h, d)[d].fd = h[d].fd
  BY <1>1, <1>3
<1> QED BY <1>2, <1>4 DEF Heaps, SameBut

LEMMA SharedJoins ==
  ASSUME NEW h, NEW c, NEW k, NEW s, NEW x, Good(h, c, k, s, x),
         NEW o \in Conns, c[o] = NoConn, NEW p \in Conns, c[p] # NoConn,
         NEW cert \in BOOLEAN, cert => c[p].ssl # NULL /\ s[c[p].ssl].cert,
         NEW r, r = [c[p] EXCEPT !.cert = cert], NEW h2, h2 = Shared(h, c[p].desc),
         NEW c2 \in ConnTables, c2[o] = r, SameBut(c, c2, Conns, o)
  PROVE  Good(h2, c2, k, s, x + Ref(cert))
<1>1. Typed(h, c, k, s) /\ Counted(h, c) /\ SSLsHeld(c, s) /\ Members(h, c, k, s)
  BY DEF Good
<1>2. c[p] \in ConnObject /\ c[p].desc \in Ids /\ h[c[p].desc].cnt \in Nat \ {0}
  BY <1>1, Found, OwnerAlone DEF Typed
<1>3. /\ r \in ConnObject /\ r.desc = c[p].desc /\ r.ssl = c[p].ssl /\ r.cert = cert
      /\ r.connected = c[p].connected /\ r.blocking = c[p].blocking
  BY <1>2 DEF ConnObject
<1>4. /\ h2 \in Heaps /\ SameBut(h, h2, Ids, c[p].desc)
      /\ h2[c[p].desc].cnt = h[c[p].desc].cnt + 1 /\ h2[c[p].desc].fd = h[c[p].desc].fd
  BY <1>1, <1>2, SharedIs DEF Typed
<1>5. c[p].ssl \in SSLs \cup {NULL}
  BY <1>2 DEF ConnObject
<1>6. Member(h2, k, s, r)
  <2>1. Member(h, k, s, c[p])
    BY <1>1 DEF Members
  <2>2. cert => c[p].ssl # NULL /\ s[c[p].ssl].st = "up"
    BY <1>1, <1>5 DEF SSLsHeld
  <2>3. FdOf(h2, r) = FdOf(h, c[p])
    BY <1>3, <1>4 DEF FdOf
  <2> QED BY <1>3, <2>1, <2>2, <2>3 DEF Member
<1>8. Good(h2, c2, k, s, x + Ref(r.cert))
  <2>1. /\ SameBut(h, h2, Ids, r.desc) /\ h2[r.desc].cnt = h[r.desc].cnt + 1 /\ h2[r.desc].fd = h[r.desc].fd
        /\ MayJoin(c, r)
    BY <1>3, <1>4 DEF MayJoin
  <2> QED BY <1>3, <1>4, <1>6, <2>1, Joins
<1> QED BY <1>3, <1>8

(* Flags, certificates and the states of sockets and SSL objects change, but *)
(* nothing is opened, closed, made or freed.                                 *)
LEMMA Changes ==
  ASSUME NEW h, NEW c, NEW k, NEW s, NEW x, Good(h, c, k, s, x),
         NEW c2 \in ConnTables, NEW k2 \in [Fds -> SocketObject], NEW s2 \in [SSLs -> SSLObject],
         \A o \in Conns : c2[o] # NoConn <=> c[o] # NoConn,
         \A o \in Conns : c[o] # NoConn => c2[o].desc = c[o].desc /\ c2[o].ssl = c[o].ssl,
         \A f \in Fds : k2[f].st = "closed" <=> k[f].st = "closed",
         \A q \in SSLs : /\ s2[q].st = "free" <=> s[q].st = "free"
                         /\ s2[q].cert => s2[q].st = "up"
                         /\ s2[q].st = "free" => s2[q].fd = DESCRIPTOR_NULL,
         \A o \in Conns : c2[o] # NoConn => Member(h, k2, s2, c2[o])
  PROVE  Good(h, c2, k2, s2, Cardinality(Certs(c2)))
<1>1. /\ Typed(h, c, k, s) /\ Counted(h, c) /\ OneHolder(h, k)
      /\ SSLsHeld(c, s) /\ SharedTogether(c)
  BY DEF Good
<1>2. Typed(h, c2, k2, s2)
  BY <1>1 DEF Typed
<1>3. Counted(h, c2)
  <2>1. \A e : Count(c2, e) = Count(c, e)
    BY OwnStays
  <2> QED BY <1>1, <2>1 DEF Counted
<1>4. OneHolder(h, k2)
  BY <1>1 DEF OneHolder
<1>5. SSLsHeld(c2, s2)
  <2>1. \A q \in SSLs : (\E o \in Conns : c[o] # NoConn /\ c[o].ssl = q) <=> \E o \in Conns : c2[o] # NoConn /\ c2[o].ssl = q
    OBVIOUS
  <2> QED BY <1>1, <2>1 DEF SSLsHeld
<1>6. SharedTogether(c2)
  BY <1>1 DEF SharedTogether
<1> QED BY <1>2, <1>3, <1>4, <1>5, <1>6 DEF Good, Members

(* o, which owns its Descriptor alone and has neither socket nor SSL, gets a *)
(* socket and perhaps an SSL.                                                *)
LEMMA Opens ==
  ASSUME NEW h, NEW c, NEW k, NEW s, NEW x, Good(h, c, k, s, x),
         NEW o \in Conns, c[o] # NoConn, IsLast(h, c[o].desc), c[o].ssl = NULL,
         h[c[o].desc].fd = DESCRIPTOR_NULL,
         NEW f \in Fds, k[f].st = "closed", NEW v \in SocketObject, v.st # "closed",
         NEW r \in ConnObject, r.desc = c[o].desc, NEW s2 \in [SSLs -> SSLObject],
         \/ r.ssl = NULL /\ s2 = s
         \/ /\ r.ssl \in SSLs /\ s[r.ssl].st = "free" /\ SameBut(s, s2, SSLs, r.ssl)
            /\ s2[r.ssl].st # "free" /\ (s2[r.ssl].cert => s2[r.ssl].st = "up"),
         NEW h2 \in Heaps, h2[r.desc].fd = f, h2[r.desc].cnt = h[r.desc].cnt, SameBut(h, h2, Ids, r.desc),
         NEW k2 \in [Fds -> SocketObject], k2[f] = v, SameBut(k, k2, Fds, f),
         NEW c2 \in ConnTables, c2[o] = r, SameBut(c, c2, Conns, o),
         Member(h2, k2, s2, r)
  PROVE  Good(h2, c2, k2, s2, x + Ref(r.cert))
<1> DEFINE d == c[o].desc
<1>1. /\ Typed(h, c, k, s) /\ Counted(h, c) /\ OneHolder(h, k)
      /\ SSLsHeld(c, s) /\ SharedTogether(c) /\ Members(h, c, k, s) /\ x = Cardinality(Certs(c))
  BY DEF Good
<1>2. d \in Ids /\ h[d].cnt = 1 /\ h[d].fd = DESCRIPTOR_NULL /\ r # NoConn /\ r.cert \in BOOLEAN
  BY <1>1, Found, NoConnAssumption DEF Typed, IsLast, ConnObject
<1>3. h2 \in Heaps /\ h2[d].fd = f /\ h2[d].cnt = 1 /\ SameBut(h, h2, Ids, d)
  BY <1>2
<1>4. k2 \in [Fds -> SocketObject] /\ k2[f] = v /\ SameBut(k, k2, Fds, f)
  OBVIOUS
<1>5. c2 \in ConnTables /\ c2[o] = r /\ SameBut(c, c2, Conns, o)
  OBVIOUS
<1>6. \A p \in Conns \ {o} : c[p] # NoConn => c[p].desc # d
  BY <1>1, <1>2, OwnerAlone
<1> HIDE DEF d
<1>7. r.desc = d /\ c[o].desc = d
  BY DEF d
<1>8. \A e \in Ids : h[e].fd # f
  BY <1>1 DEF OneHolder
<1>9. f # DESCRIPTOR_NULL
  BY NullIsNoFd
<1>10. Typed(h2, c2, k2, s2)
  BY <1>1, <1>3, <1>4, <1>5 DEF Typed
<1>11. Counted(h2, c2)
  <2>1. \A e : Count(c2, e) = Count(c, e)
    <3>1. \A p \in Conns : (c2[p] # NoConn <=> c[p] # NoConn) /\ (c[p] # NoConn => c2[p].desc = c[p].desc)
      BY <1>2, <1>5, <1>7 DEF SameBut
    <3> QED BY ONLY <3>1, OwnStays
  <2>2. \A e \in Ids : h2[e].cnt = h[e].cnt /\ (h2[e].cnt = 0 => h2[e].fd = h[e].fd)
    BY <1>2, <1>3 DEF SameBut
  <2> QED BY <1>1, <2>1, <2>2 DEF Counted
<1>12. OneHolder(h2, k2)
  <2>1. ASSUME NEW g \in Fds PROVE k2[g].st # "closed" <=> \E e \in Ids : h2[e].fd = g
    <3>1. CASE g = f
      BY <1>2, <1>3, <1>4, <3>1
    <3>2. CASE g # f
      <4>1. k[g].st # "closed" <=> \E e \in Ids : h[e].fd = g
        BY <1>1 DEF OneHolder
      <4>2. g # DESCRIPTOR_NULL
        BY NullIsNoFd
      <4> QED BY <1>2, <1>3, <1>4, <3>2, <4>1, <4>2 DEF SameBut
    <3> QED BY <3>1, <3>2
  <2>2. ASSUME NEW e \in Ids, NEW g \in Ids, h2[e].fd = h2[g].fd, h2[e].fd # DESCRIPTOR_NULL PROVE e = g
    BY <1>1, <1>3, <1>8, <2>2 DEF OneHolder, SameBut
  <2> QED BY <2>1, <2>2 DEF OneHolder
<1>13. \A p \in Conns : c[p] # NoConn /\ p # o => (c[p].ssl = r.ssl => c[p].ssl = NULL)
  BY <1>1 DEF SSLsHeld
<1>14. SSLsHeld(c2, s2)
  <2>1. ASSUME NEW q \in SSLs
        PROVE  s2[q].st # "free" <=> \E p \in Conns : c2[p] # NoConn /\ c2[p].ssl = q
    <3>1. s[q].st # "free" <=> \E p \in Conns : c[p] # NoConn /\ c[p].ssl = q
      BY <1>1 DEF SSLsHeld
    <3>2. q # NULL
      BY NULLAssumption
    <3>3. CASE q = r.ssl
      BY <1>2, <1>5, <3>2, <3>3
    <3>4. CASE q # r.ssl
      <4>1. s2[q] = s[q]
        BY <3>4 DEF SameBut
      <4> QED BY <1>5, <3>1, <3>2, <3>4, <4>1 DEF SameBut
    <3> QED BY <3>3, <3>4
  <2>2. \A q \in SSLs : (s2[q].cert => s2[q].st = "up") /\ (s2[q].st = "free" => s2[q].fd = DESCRIPTOR_NULL)
    BY <1>1 DEF SSLsHeld, SameBut
  <2> QED BY <2>1, <2>2 DEF SSLsHeld
<1>15. SharedTogether(c2)
  <2>1. ASSUME NEW p \in Conns, NEW t \in Conns, c2[p] # NoConn, c2[t] # NoConn
        PROVE  /\ c2[p].desc = c2[t].desc => c2[p].ssl = c2[t].ssl
               /\ c2[p].ssl = c2[t].ssl /\ c2[p].ssl # NULL => c2[p].desc = c2[t].desc
    <3>1. CASE p = o /\ t = o
      BY <3>1
    <3>2. CASE p = o /\ t # o
      BY <1>5, <1>6, <1>7, <1>13, <2>1, <3>2 DEF SameBut
    <3>3. CASE p # o /\ t = o
      BY <1>5, <1>6, <1>7, <1>13, <2>1, <3>3 DEF SameBut
    <3>4. CASE p # o /\ t # o
      BY <1>1, <1>5, <2>1, <3>4 DEF SameBut, SharedTogether
    <3> QED BY <3>1, <3>2, <3>3, <3>4
  <2> QED BY <2>1 DEF SharedTogether
<1>16. Members(h2, c2, k2, s2)
  <2>1. ASSUME NEW p \in Conns, c2[p] # NoConn PROVE Member(h2, k2, s2, c2[p])
    <3>1. CASE p = o
      BY <1>5, <3>1
    <3>2. CASE p # o
      <4>1. c2[p] = c[p] /\ c[p].desc \in Ids \ {d} /\ c[p].ssl \in SSLs \cup {NULL}
        BY <1>1, <1>5, <1>6, <2>1, <3>2, Found DEF SameBut, Typed
      <4>2. Member(h, k, s, c[p]) /\ FdOf(h2, c[p]) = FdOf(h, c[p])
        BY <1>1, <1>3, <2>1, <4>1 DEF Members, FdOf, SameBut
      <4>3. FdOf(h, c[p]) \in Fds \cup {DESCRIPTOR_NULL} /\ FdOf(h, c[p]) # f
        BY <1>1, <1>8, <4>1 DEF FdOf, Typed, Heaps
      <4>4. FdOf(h, c[p]) # DESCRIPTOR_NULL => k2[FdOf(h, c[p])] = k[FdOf(h, c[p])]
        BY <1>4, <4>3 DEF SameBut
      <4>5. c[p].ssl # NULL => s2[c[p].ssl] = s[c[p].ssl]
        BY <1>13, <2>1, <3>2, <4>1 DEF SameBut
      <4> QED BY <4>1, <4>2, <4>4, <4>5 DEF Member
    <3> QED BY <3>1, <3>2
  <2> QED BY <2>1 DEF Members
<1>17. x + Ref(r.cert) = Cardinality(Certs(c2))
  <2>1. ~CertOf(c, o)
    BY <1>1 DEF Members, Member, CertOf
  <2>2. CertOf(c2, o) = r.cert /\ CertOf(c, o) = FALSE
    BY <1>2, <1>5, <2>1 DEF CertOf
  <2>3. Cardinality(Certs(c2)) = (Cardinality(Certs(c)) - Ref(CertOf(c, o))) + Ref(CertOf(c2, o))
    BY <1>5, CertsChange
  <2>4. Cardinality(Certs(c)) \in Nat
    BY CertsFinite
  <2> QED BY <1>1, <2>2, <2>3, <2>4 DEF Ref
<1> QED BY <1>10, <1>11, <1>12, <1>14, <1>15, <1>16, <1>17 DEF Good

LEMMA FlagsReset ==
  ASSUME NEW r \in ConnObject, NEW r2, r2 = [r EXCEPT !.connected = FALSE, !.listening = FALSE]
  PROVE  /\ r2 \in ConnObject /\ r2.desc = r.desc /\ r2.ssl = r.ssl /\ r2.cert = r.cert
         /\ r2.blocking = r.blocking /\ ~r2.connected
BY DEF ConnObject

(* o, which owns its Descriptor alone, closes its socket. *)
LEMMA Closes ==
  ASSUME NEW h, NEW c, NEW k, NEW s, NEW x, Good(h, c, k, s, x),
         NEW o \in Conns, c[o] # NoConn, IsLast(h, c[o].desc),
         NEW d, d = c[o].desc, NEW r, r = [c[o] EXCEPT !.connected = FALSE, !.listening = FALSE],
         NEW h2 \in Heaps, h2[d].fd = DESCRIPTOR_NULL, h2[d].cnt = h[d].cnt, SameBut(h, h2, Ids, d),
         NEW c2 \in ConnTables, c2[o] = r, SameBut(c, c2, Conns, o)
  PROVE  Good(h2, c2, Without(k, h[d].fd), s, x)
<1> DEFINE f == h[d].fd
           k2 == Without(k, f)
<1>1. /\ Typed(h, c, k, s) /\ Counted(h, c) /\ OneHolder(h, k)
      /\ SSLsHeld(c, s) /\ SharedTogether(c) /\ Members(h, c, k, s) /\ x = Cardinality(Certs(c))
  BY DEF Good
<1>2. d \in Ids /\ h[d].cnt = 1 /\ f \in Fds \cup {DESCRIPTOR_NULL}
  BY <1>1, Found DEF Typed, IsLast, Heaps
<1>3. h2 \in Heaps /\ h2[d].fd = DESCRIPTOR_NULL /\ h2[d].cnt = 1 /\ SameBut(h, h2, Ids, d)
  BY <1>2
<1>4. /\ k2 \in [Fds -> SocketObject] /\ \A g \in Fds : g # f => k2[g] = k[g]
      /\ f \in Fds => k2[f].st = "closed"
  BY <1>1, WithoutIs DEF Typed
<1>5. /\ c2 \in ConnTables /\ c2[o] # NoConn /\ SameBut(c, c2, Conns, o)
      /\ c2[o].desc = d /\ c2[o].ssl = c[o].ssl /\ c2[o].cert = c[o].cert
      /\ c2[o].blocking = c[o].blocking /\ ~c2[o].connected
  <2>1. c[o] \in ConnObject
    BY <1>1, Found DEF Typed
  <2>2. /\ r \in ConnObject /\ r.desc = d /\ r.ssl = c[o].ssl /\ r.cert = c[o].cert
        /\ r.blocking = c[o].blocking /\ ~r.connected
    BY <2>1, FlagsReset
  <2> QED BY <2>2, NoConnAssumption
<1>6. \A p \in Conns \ {o} : c[p] # NoConn => c[p].desc # d
  BY <1>1, <1>2, OwnerAlone
<1> HIDE DEF f, k2
<1>7. c[o].desc = d /\ h[d].fd = f
  BY DEF f
<1>8. \A p \in Conns : /\ c2[p] # NoConn <=> c[p] # NoConn
                       /\ c[p] # NoConn => c2[p].desc = c[p].desc /\ c2[p].ssl = c[p].ssl
  BY <1>5, <1>7 DEF SameBut
<1>9. Typed(h2, c2, k2, s)
  BY <1>1, <1>3, <1>4, <1>5 DEF Typed
<1>10. Counted(h2, c2)
  <2>1. \A e : Count(c2, e) = Count(c, e)
    BY ONLY <1>8, OwnStays
  <2>2. \A e \in Ids : h2[e].cnt = h[e].cnt /\ (h2[e].cnt = 0 => h2[e].fd = h[e].fd)
    BY <1>2, <1>3 DEF SameBut
  <2> QED BY <1>1, <2>1, <2>2 DEF Counted
<1>11. \A e \in Ids \ {d} : h2[e].fd = h[e].fd /\ (h[e].fd # DESCRIPTOR_NULL => h[e].fd # f)
  BY <1>1, <1>2, <1>3, <1>7 DEF OneHolder, SameBut
<1>12. OneHolder(h2, k2)
  <2>1. ASSUME NEW g \in Fds PROVE k2[g].st # "closed" <=> \E e \in Ids : h2[e].fd = g
    <3>1. k[g].st # "closed" <=> \E e \in Ids : h[e].fd = g
      BY <1>1 DEF OneHolder
    <3>2. g # DESCRIPTOR_NULL
      BY NullIsNoFd
    <3>3. CASE g = f
      BY <1>3, <1>4, <1>11, <3>2, <3>3
    <3>4. CASE g # f
      BY <1>3, <1>4, <1>7, <1>11, <3>1, <3>2, <3>4
    <3> QED BY <3>3, <3>4
  <2>2. ASSUME NEW e \in Ids, NEW g \in Ids, h2[e].fd = h2[g].fd, h2[e].fd # DESCRIPTOR_NULL PROVE e = g
    BY <1>1, <1>3, <1>11, <2>2 DEF OneHolder
  <2> QED BY <2>1, <2>2 DEF OneHolder
<1>13. SSLsHeld(c2, s)
  <2>1. \A q \in SSLs : (\E p \in Conns : c[p] # NoConn /\ c[p].ssl = q) <=> \E p \in Conns : c2[p] # NoConn /\ c2[p].ssl = q
    BY <1>8
  <2> QED BY <1>1, <2>1 DEF SSLsHeld
<1>14. SharedTogether(c2)
  <2>1. ASSUME NEW p \in Conns, NEW t \in Conns, c2[p] # NoConn, c2[t] # NoConn
        PROVE  /\ c2[p].desc = c2[t].desc => c2[p].ssl = c2[t].ssl
               /\ c2[p].ssl = c2[t].ssl /\ c2[p].ssl # NULL => c2[p].desc = c2[t].desc
    BY <1>1, <1>8, <2>1 DEF SharedTogether
  <2> QED BY <2>1 DEF SharedTogether
<1>15. Members(h2, c2, k2, s)
  <2>1. ASSUME NEW p \in Conns, c2[p] # NoConn PROVE Member(h2, k2, s, c2[p])
    <3>1. CASE p = o
      <4>1. Member(h, k, s, c[o]) /\ FdOf(h2, c2[o]) = DESCRIPTOR_NULL
        BY <1>1, <1>3, <1>5 DEF Members, FdOf
      <4> QED BY <1>5, <3>1, <4>1 DEF Member
    <3>2. CASE p # o
      <4>1. c2[p] = c[p] /\ c[p].desc \in Ids \ {d}
        BY <1>1, <1>5, <1>6, <2>1, <3>2, Found DEF SameBut, Typed
      <4>2. Member(h, k, s, c[p]) /\ FdOf(h2, c[p]) = FdOf(h, c[p])
        BY <1>1, <1>11, <2>1, <4>1 DEF Members, FdOf
      <4>3. FdOf(h, c[p]) \in Fds \cup {DESCRIPTOR_NULL}
        BY <1>1, <4>1 DEF FdOf, Typed, Heaps
      <4>4. FdOf(h, c[p]) # DESCRIPTOR_NULL => k2[FdOf(h, c[p])] = k[FdOf(h, c[p])]
        BY <1>4, <1>11, <4>1, <4>3 DEF FdOf
      <4> QED BY <4>1, <4>2, <4>4 DEF Member
    <3> QED BY <3>1, <3>2
  <2> QED BY <2>1 DEF Members
<1>16. Certs(c2) = Certs(c)
  BY <1>5, <1>8 DEF Certs, SameBut
<1> QED BY <1>1, <1>9, <1>10, <1>12, <1>13, <1>14, <1>15, <1>16 DEF Good, k2, f

(* One connection changes, and its socket's and its SSL's states with it.    *)
LEMMA OneChanges ==
  ASSUME NEW h, NEW c, NEW k, NEW s, NEW x, Good(h, c, k, s, x),
         NEW o \in Conns, c[o] # NoConn,
         NEW r \in ConnObject, r.desc = c[o].desc, r.ssl = c[o].ssl,
         NEW c2 \in ConnTables, c2[o] = r, SameBut(c, c2, Conns, o),
         NEW k2 \in [Fds -> SocketObject], NEW s2 \in [SSLs -> SSLObject],
         \A f \in Fds : k2[f].st = "closed" <=> k[f].st = "closed",
         \A q \in SSLs : /\ s2[q].st = "free" <=> s[q].st = "free"
                         /\ s2[q].cert => s2[q].st = "up"
                         /\ s2[q].st = "free" => s2[q].fd = DESCRIPTOR_NULL,
         Member(h, k2, s2, r),
         \A p \in Conns \ {o} : c[p] # NoConn => Member(h, k2, s2, c[p])
  PROVE  Good(h, c2, k2, s2, (x - Ref(c[o].cert)) + Ref(r.cert))
<1>1. Typed(h, c, k, s) /\ x = Cardinality(Certs(c))
  BY DEF Good
<1>2. r # NoConn /\ r.cert \in BOOLEAN /\ c[o].cert \in BOOLEAN
  BY <1>1, NoConnAssumption, Found DEF Typed, ConnObject
<1>3. \A p \in Conns : /\ c2[p] # NoConn <=> c[p] # NoConn
                       /\ c[p] # NoConn => c2[p].desc = c[p].desc /\ c2[p].ssl = c[p].ssl
                       /\ c2[p] # NoConn => Member(h, k2, s2, c2[p])
  BY <1>2 DEF SameBut
<1>4. Good(h, c2, k2, s2, Cardinality(Certs(c2)))
  BY <1>3, Changes
<1>5. CertOf(c, o) = c[o].cert /\ CertOf(c2, o) = r.cert
  BY <1>2 DEF CertOf
<1>6. Cardinality(Certs(c2)) = (x - Ref(c[o].cert)) + Ref(r.cert)
  <2>1. Cardinality(Certs(c2)) = (Cardinality(Certs(c)) - Ref(CertOf(c, o))) + Ref(CertOf(c2, o))
    BY CertsChange
  <2> QED BY <1>1, <1>5, <2>1
<1> QED BY <1>4, <1>6

(* Flags of one connection change, and nothing else. *)
LEMMA FlagsChange ==
  ASSUME NEW h, NEW c, NEW k, NEW s, NEW x, Good(h, c, k, s, x),
         NEW o \in Conns, c[o] # NoConn,
         NEW r \in ConnObject, r.desc = c[o].desc, r.ssl = c[o].ssl, r.cert = c[o].cert,
         NEW c2 \in ConnTables, c2[o] = r, SameBut(c, c2, Conns, o),
         Member(h, k, s, r)
  PROVE  Good(h, c2, k, s, x)
<1>1. Typed(h, c, k, s) /\ SSLsHeld(c, s) /\ Members(h, c, k, s) /\ x = Cardinality(Certs(c))
  BY DEF Good
<1>2. Good(h, c2, k, s, (x - Ref(c[o].cert)) + Ref(r.cert))
  <2>1. k \in [Fds -> SocketObject] /\ s \in [SSLs -> SSLObject]
    BY <1>1 DEF Typed
  <2>2. \A q \in SSLs : /\ s[q].st = "free" <=> s[q].st = "free"
                        /\ s[q].cert => s[q].st = "up"
                        /\ s[q].st = "free" => s[q].fd = DESCRIPTOR_NULL
    BY <1>1 DEF SSLsHeld
  <2>3. \A p \in Conns \ {o} : c[p] # NoConn => Member(h, k, s, c[p])
    BY <1>1 DEF Members
  <2>4. \A f \in Fds : k[f].st = "closed" <=> k[f].st = "closed"
    OBVIOUS
  <2> QED BY <2>1, <2>2, <2>3, <2>4, OneChanges
<1>3. (x - Ref(c[o].cert)) + Ref(r.cert) = x
  BY <1>1, CertsFinite DEF Ref
<1> QED BY <1>2, <1>3

(* Who has a socket that is not connected is not connected. *)
LEMMA NotYet ==
  ASSUME NEW h, NEW c, NEW k, NEW s, NEW x, Good(h, c, k, s, x),
         NEW f \in Fds, k[f].st # "connected",
         NEW p \in Conns, c[p] # NoConn, h[c[p].desc].fd = f
  PROVE  ~c[p].connected /\ ~c[p].cert /\ (c[p].ssl # NULL => s[c[p].ssl].st # "up")
<1>1. Member(h, k, s, c[p]) /\ FdOf(h, c[p]) = f /\ f # DESCRIPTOR_NULL
  BY NullIsNoFd DEF Good, Members, FdOf
<1> QED BY <1>1 DEF Member

(* The state of a socket that is not connected changes. *)
LEMMA StateChanges ==
  ASSUME NEW h, NEW c, NEW k, NEW s, NEW x, Good(h, c, k, s, x),
         NEW f \in Fds, k[f].st # "closed", k[f].st # "connected",
         NEW k2 \in [Fds -> SocketObject], SameBut(k, k2, Fds, f),
         k2[f].st # "closed", k2[f].nb = k[f].nb
  PROVE  /\ \A g \in Fds : k2[g].st = "closed" <=> k[g].st = "closed"
         /\ \A p \in Conns : c[p] # NoConn => Member(h, k2, s, c[p])
<1>1. Typed(h, c, k, s) /\ Members(h, c, k, s)
  BY DEF Good
<1>3. k2[f].st # "closed" /\ k2[f].nb = k[f].nb
  OBVIOUS
<1>4. k2 \in [Fds -> SocketObject] /\ SameBut(k, k2, Fds, f)
  OBVIOUS
<1>5. ASSUME NEW p \in Conns, c[p] # NoConn PROVE Member(h, k2, s, c[p])
  <2>1. Member(h, k, s, c[p])
    BY <1>1, <1>5 DEF Members
  <2>2. FdOf(h, c[p]) \in Fds \cup {DESCRIPTOR_NULL}
    BY <1>1, <1>5, Found DEF Typed, Heaps, FdOf
  <2>3. CASE FdOf(h, c[p]) = f
    <3>1. ~c[p].connected /\ ~c[p].cert /\ (c[p].ssl # NULL => s[c[p].ssl].st # "up")
      BY <1>5, <2>3, NotYet DEF FdOf
    <3> QED BY <1>3, <2>1, <2>3, <3>1 DEF Member
  <2>4. CASE FdOf(h, c[p]) # f
    <3>1. FdOf(h, c[p]) # DESCRIPTOR_NULL => k2[FdOf(h, c[p])] = k[FdOf(h, c[p])]
      BY <1>4, <2>2, <2>4 DEF SameBut
    <3> QED BY <2>1, <3>1 DEF Member
  <2> QED BY <2>3, <2>4
<1> QED BY <1>3, <1>4, <1>5 DEF SameBut

-----------------------------------------------------------------------------
(* The actions *)

Holds == Good(heap, conn, sock, ssl, x509)
Kept == Good(heap', conn', sock', ssl', x509') /\ event' \in BOOLEAN

LEMMA Types ==
  ASSUME Holds
  PROVE  /\ heap \in Heaps /\ conn \in ConnTables
         /\ sock \in [Fds -> SocketObject] /\ ssl \in [SSLs -> SSLObject] /\ x509 \in Nat
         /\ Counted(heap, conn) /\ SSLsHeld(conn, ssl) /\ Members(heap, conn, sock, ssl)
BY CertsFinite DEF Holds, Good, Typed

LEMMA FoundHere ==
  ASSUME Holds, NEW o \in Conns, conn[o] # NoConn
  PROVE  /\ conn[o] \in ConnObject /\ conn[o].desc \in Ids /\ conn[o].ssl \in SSLs \cup {NULL}
         /\ conn[o].cert \in BOOLEAN
         /\ fd(o) \in Fds \cup {DESCRIPTOR_NULL} /\ FdOf(heap, conn[o]) = fd(o)
         /\ Member(heap, sock, ssl, conn[o])
         /\ fd(o) # DESCRIPTOR_NULL => fd(o) \in Fds /\ sock[fd(o)].st # "closed"
<1>1. conn[o] \in ConnObject /\ conn[o].desc \in Ids /\ conn[o].ssl \in SSLs \cup {NULL} /\ conn[o].cert \in BOOLEAN
  BY Types, Found
<1>2. fd(o) \in Fds \cup {DESCRIPTOR_NULL} /\ FdOf(heap, conn[o]) = fd(o)
  BY <1>1, Types DEF Heaps, fd, FdOf
<1>3. Member(heap, sock, ssl, conn[o])
  BY Types DEF Members
<1>4. fd(o) \in Fds => sock[fd(o)].st # "closed"
  BY <1>1 DEF Holds, Good, OneHolder, fd
<1> QED BY <1>1, <1>2, <1>3, <1>4

LEMMA QuietKeeps ==
  ASSUME Holds, UNCHANGED <<heap, conn, sock, ssl, x509>>, event' \in BOOLEAN
  PROVE  Kept
BY DEF Kept, Holds

LEMMA ReportedKeeps ==
  ASSUME Holds, Reported
  PROVE  Kept
BY QuietKeeps DEF Reported

LEMMA ConstructKeeps ==
  ASSUME Holds, NEW o \in Conns, Construct(o)
  PROVE  Kept
<1>1. PICK d \in Unused(heap) :
        heap' = [heap EXCEPT ![d] = NewDescriptor] /\ conn' = [conn EXCEPT ![o] = NewConn(d)]
  BY DEF Construct
<1>2. conn[o] = NoConn /\ sock' = sock /\ ssl' = ssl /\ x509' = x509 /\ event' \in BOOLEAN
  BY DEF Construct
<1>3. NewConn(d) \in ConnObject
  BY DEF NewConn, ConnObject, Unused
<1>4. conn' \in ConnTables /\ conn'[o] = NewConn(d) /\ SameBut(conn, conn', Conns, o)
  BY <1>1, <1>3, Types DEF ConnTables, SameBut
<1>5. Good(heap', conn', sock, ssl, x509)
  BY <1>1, <1>2, <1>4, NewJoins DEF Holds
<1> QED BY <1>1, <1>2, <1>5 DEF Kept

LEMMA CertIsBoolean ==
  ASSUME Holds, NEW q \in SSLs
  PROVE  ssl[q].cert \in BOOLEAN /\ ssl[q].st \in SSLState /\ ssl[q].fd \in Fds \cup {DESCRIPTOR_NULL}
<1>1. ssl[q] \in SSLObject
  BY Types
<1> QED BY <1>1 DEF SSLObject

LEMMA CopyConstructKeeps ==
  ASSUME Holds, NEW o \in Conns, NEW p \in Conns, CopyConstruct(o, p)
  PROVE  Kept
<1> DEFINE cert == PeerCert(conn[p].ssl)
           r == [conn[p] EXCEPT !.cert = cert]
<1>1. /\ conn[o] = NoConn /\ conn[p] # NoConn
      /\ conn' = [conn EXCEPT ![o] = r]
      /\ x509' = x509 + Ref(cert)
      /\ heap' = Shared(heap, conn[p].desc)
      /\ sock' = sock /\ ssl' = ssl /\ event' \in BOOLEAN
  BY DEF CopyConstruct
<1>2. cert \in BOOLEAN /\ (cert => conn[p].ssl # NULL /\ ssl[conn[p].ssl].cert)
  BY <1>1, FoundHere, CertIsBoolean DEF PeerCert
<1>3. r \in ConnObject
  BY <1>1, <1>2, FoundHere DEF ConnObject
<1> HIDE DEF cert
<1>4. conn' \in ConnTables /\ conn'[o] = r /\ SameBut(conn, conn', Conns, o)
  BY <1>1, <1>3, Types DEF ConnTables, SameBut
<1>5. Good(heap', conn', sock, ssl, x509 + Ref(cert))
  BY <1>1, <1>2, <1>4, SharedJoins DEF Holds
<1> QED BY <1>1, <1>5 DEF Kept

(* What the destructor, operator= and clear do first. *)
LEMMA LetsGo ==
  ASSUME Holds, NEW o \in Conns, conn[o] # NoConn
  PROVE  Good(Dropped(heap, conn[o].desc), [conn EXCEPT ![o] = NoConn], LastCloses(o), LastFrees(o),
              x509 - Ref(conn[o].cert))
<1>1. CASE IsLast(heap, conn[o].desc)
  <2>1. LastCloses(o) = Without(sock, heap[conn[o].desc].fd) /\ LastFrees(o) = Freed(ssl, conn[o].ssl)
    BY <1>1 DEF LastCloses, LastFrees, Closed, Without, Freed, fd
  <2> QED BY <1>1, <2>1, LastLeaves DEF Holds
<1>2. CASE ~IsLast(heap, conn[o].desc)
  <2>1. LastCloses(o) = sock /\ LastFrees(o) = ssl
    BY <1>2 DEF LastCloses, LastFrees
  <2> QED BY <1>2, <2>1, OneLeaves DEF Holds
<1> QED BY <1>1, <1>2

LEMMA DestroyKeeps ==
  ASSUME Holds, NEW o \in Conns, Destroy(o)
  PROVE  Kept
<1>1. Good(Dropped(heap, conn[o].desc), [conn EXCEPT ![o] = NoConn], LastCloses(o), LastFrees(o),
           x509 - Ref(conn[o].cert))
  BY LetsGo DEF Destroy
<1> QED BY <1>1 DEF Destroy, Kept

LEMMA ClearKeeps ==
  ASSUME Holds, NEW o \in Conns, Clear(o)
  PROVE  Kept
<1> DEFINE h1 == Dropped(heap, conn[o].desc)
           c1 == [conn EXCEPT ![o] = NoConn]
<1>1. PICK d \in Unused(h1) : heap' = [h1 EXCEPT ![d] = NewDescriptor] /\ conn' = [conn EXCEPT ![o] = NewConn(d)]
  BY DEF Clear
<1>2. /\ conn[o] # NoConn /\ ssl' = LastFrees(o) /\ sock' = LastCloses(o)
      /\ x509' = x509 - Ref(conn[o].cert) /\ event' \in BOOLEAN
  BY DEF Clear
<1>3. Good(h1, c1, sock', ssl', x509')
  BY <1>2, LetsGo
<1>4. NewConn(d) \in ConnObject
  BY DEF NewConn, ConnObject, Unused
<1>5. c1 \in ConnTables /\ c1[o] = NoConn /\ conn' = [c1 EXCEPT ![o] = NewConn(d)]
  BY <1>1, Types DEF ConnTables
<1> HIDE DEF c1, h1
<1>6. conn' \in ConnTables /\ conn'[o] = NewConn(d) /\ SameBut(c1, conn', Conns, o)
  BY <1>4, <1>5 DEF ConnTables, SameBut
<1>7. Good(heap', conn', sock', ssl', x509')
  BY <1>1, <1>3, <1>5, <1>6, NewJoins
<1> QED BY <1>1, <1>2, <1>7 DEF Kept

LEMMA AssignKeeps ==
  ASSUME Risky = {}, Holds, NEW o \in Conns, NEW p \in Conns, Assign(o, p)
  PROVE  Kept
<1> DEFINE h1 == Dropped(heap, conn[o].desc)
           c1 == [conn EXCEPT ![o] = NoConn]
           cert == conn[p].ssl # NULL /\ ssl'[conn[p].ssl].cert
           x1 == x509 - Ref(conn[o].cert)
           r == [conn[p] EXCEPT !.cert = cert]
<1>1. /\ conn[o] # NoConn /\ conn[p] # NoConn /\ o # p
      /\ ssl' = LastFrees(o) /\ sock' = LastCloses(o)
      /\ x509' = x1 + Ref(cert)
      /\ heap' = Shared(h1, conn[p].desc)
      /\ conn' = [conn EXCEPT ![o] = r]
      /\ event' \in BOOLEAN
  BY DEF Assign
<1>2. Good(h1, c1, sock', ssl', x1)
  BY <1>1, LetsGo
<1>3. cert \in BOOLEAN /\ (cert => conn[p].ssl # NULL /\ ssl'[conn[p].ssl].cert)
  <2>1. ssl' \in [SSLs -> SSLObject]
    BY <1>2 DEF Good, Typed
  <2>2. \A q \in SSLs : ssl'[q].cert \in BOOLEAN
    BY <2>1 DEF SSLObject
  <2> QED BY <1>1, <2>2, FoundHere
<1>4. r \in ConnObject
  BY <1>1, <1>3, FoundHere DEF ConnObject
<1>5. c1 \in ConnTables /\ c1[o] = NoConn /\ c1[p] = conn[p] /\ conn' = [c1 EXCEPT ![o] = r]
  BY <1>1, Types DEF ConnTables
<1> HIDE DEF c1, h1, cert, x1
<1>6. conn' \in ConnTables /\ conn'[o] = r /\ SameBut(c1, conn', Conns, o)
  BY <1>4, <1>5 DEF ConnTables, SameBut
<1>7. c1[p] # NoConn /\ (cert => c1[p].ssl # NULL /\ ssl'[c1[p].ssl].cert)
  BY <1>1, <1>3, <1>5, <1>6
<1>8. Good(heap', conn', sock', ssl', x1 + Ref(cert))
  <2>1. heap' = Shared(h1, c1[p].desc) /\ r = [c1[p] EXCEPT !.cert = cert]
    BY <1>1, <1>5
  <2> HIDE DEF r
  <2> QED BY <1>2, <1>3, <1>5, <1>6, <1>7, <2>1, SharedJoins
<1> QED BY <1>1, <1>5, <1>8 DEF Kept

(* One connection object is replaced by another. *)
LEMMA Replaced ==
  ASSUME Holds, NEW o \in Conns, NEW r \in ConnObject, conn' = [conn EXCEPT ![o] = r]
  PROVE  conn' \in ConnTables /\ conn'[o] = r /\ SameBut(conn, conn', Conns, o)
BY Types DEF ConnTables, SameBut

LEMMA InitConnKeeps ==
  ASSUME Holds, NEW o \in Conns, InitConn(o)
  PROVE  Kept
<1>1. PICK family \in {conn[o].family, TRUE} : conn' = [conn EXCEPT ![o].family = family]
  BY DEF InitConn
<1>2. /\ conn[o] # NoConn /\ event' \in BOOLEAN
      /\ heap' = heap /\ sock' = sock /\ ssl' = ssl /\ x509' = x509
  BY DEF InitConn
<1>3. PICK r : r = [conn[o] EXCEPT !.family = family]
  OBVIOUS
<1>4. /\ r \in ConnObject /\ r.desc = conn[o].desc /\ r.ssl = conn[o].ssl /\ r.cert = conn[o].cert
      /\ r.connected = conn[o].connected /\ r.blocking = conn[o].blocking
  BY <1>2, <1>3, FoundHere DEF ConnObject
<1>5. conn' \in ConnTables /\ conn'[o] = r /\ SameBut(conn, conn', Conns, o)
  BY <1>1, <1>3, <1>4, Replaced
<1>6. Member(heap, sock, ssl, r)
  BY <1>2, <1>4, FoundHere DEF Member, FdOf
<1>7. Good(heap, conn', sock, ssl, x509)
  BY ONLY <1>2, <1>4, <1>5, <1>6, Holds, o \in Conns, FlagsChange DEF Holds
<1> QED BY <1>2, <1>7 DEF Kept

LEMMA SetFlagKeeps ==
  ASSUME Risky = {}, Holds, NEW o \in Conns, NEW blocking \in BOOLEAN, SetFlag(o, blocking)
  PROVE  Kept
<1>1. /\ conn[o] # NoConn /\ fd(o) = DESCRIPTOR_NULL
      /\ conn' = [conn EXCEPT ![o].blocking = blocking] /\ event' \in BOOLEAN
      /\ heap' = heap /\ sock' = sock /\ ssl' = ssl /\ x509' = x509
  BY DEF SetFlag
<1>2. PICK r : r = [conn[o] EXCEPT !.blocking = blocking]
  OBVIOUS
<1>3. /\ r \in ConnObject /\ r.desc = conn[o].desc /\ r.ssl = conn[o].ssl /\ r.cert = conn[o].cert
      /\ r.connected = conn[o].connected
  BY <1>1, <1>2, FoundHere DEF ConnObject
<1>4. conn' \in ConnTables /\ conn'[o] = r /\ SameBut(conn, conn', Conns, o)
  BY <1>1, <1>2, <1>3, Replaced
<1>5. Member(heap, sock, ssl, r)
  BY <1>1, <1>3, FoundHere DEF Member, FdOf
<1>6. Good(heap, conn', sock, ssl, x509)
  BY ONLY <1>1, <1>3, <1>4, <1>5, Holds, o \in Conns, FlagsChange DEF Holds
<1> QED BY <1>1, <1>6 DEF Kept

LEMMA SetSocketBlockingKeeps ==
  ASSUME Risky = {}, Holds, NEW o \in Conns, SetSocketBlocking(o)
  PROVE  Kept
<1>1. CASE fd(o) = DESCRIPTOR_NULL
  BY <1>1, ReportedKeeps DEF SetSocketBlocking
<1>2. CASE fd(o) # DESCRIPTOR_NULL
  <2>1. /\ conn[o] # NoConn /\ sock' = sock
        /\ conn' = [conn EXCEPT ![o].blocking = TRUE] /\ event' \in BOOLEAN
        /\ heap' = heap /\ ssl' = ssl /\ x509' = x509
    BY <1>2 DEF SetSocketBlocking
  <2>2. PICK r : r = [conn[o] EXCEPT !.blocking = TRUE]
    OBVIOUS
  <2>3. /\ r \in ConnObject /\ r.desc = conn[o].desc /\ r.ssl = conn[o].ssl /\ r.cert = conn[o].cert
        /\ r.connected = conn[o].connected
    BY <2>1, <2>2, FoundHere DEF ConnObject
  <2>4. conn' \in ConnTables /\ conn'[o] = r /\ SameBut(conn, conn', Conns, o)
    BY <2>1, <2>2, <2>3, Replaced
  <2>5. Member(heap, sock, ssl, r)
    BY <2>1, <2>3, FoundHere DEF Member, FdOf
  <2>6. Good(heap, conn', sock, ssl, x509)
    BY ONLY <2>1, <2>3, <2>4, <2>5, Holds, o \in Conns, FlagsChange DEF Holds
  <2> QED BY <2>1, <2>6 DEF Kept
<1> QED BY <1>1, <1>2

(* Nobody else has the socket of a connection that has no copies. *)
LEMMA NobodyElse ==
  ASSUME Holds, NEW o \in Conns, conn[o] # NoConn, ~HasCopies(o), fd(o) # DESCRIPTOR_NULL,
         NEW p \in Conns \ {o}, conn[p] # NoConn
  PROVE  fd(p) # fd(o) /\ conn[p].desc # conn[o].desc
<1>1. heap[conn[o].desc].cnt = 1 /\ Typed(heap, conn, sock, ssl) /\ OneHolder(heap, sock)
  BY DEF HasCopies, IsLast, Holds, Good
<1>2. conn[p].desc # conn[o].desc
  BY <1>1, Types, OwnerAlone
<1> QED BY <1>1, <1>2, FoundHere DEF OneHolder, fd

LEMMA SetSocketNonblockingKeeps ==
  ASSUME Risky = {}, Holds, NEW o \in Conns, SetSocketNonblocking(o)
  PROVE  Kept
<1>1. CASE fd(o) = DESCRIPTOR_NULL
  BY <1>1, ReportedKeeps DEF SetSocketNonblocking
<1>2. CASE fd(o) # DESCRIPTOR_NULL
  <2>1. /\ conn[o] # NoConn /\ ~HasCopies(o)
        /\ sock' = [sock EXCEPT ![fd(o)].nb = TRUE]
        /\ conn' = [conn EXCEPT ![o].blocking = FALSE] /\ event' \in BOOLEAN
        /\ heap' = heap /\ ssl' = ssl /\ x509' = x509
    BY <1>2 DEF SetSocketNonblocking
  <2>2. PICK r : r = [conn[o] EXCEPT !.blocking = FALSE]
    OBVIOUS
  <2>3. /\ r \in ConnObject /\ r.desc = conn[o].desc /\ r.ssl = conn[o].ssl /\ r.cert = conn[o].cert
        /\ r.connected = conn[o].connected /\ r.blocking = FALSE
    BY <2>1, <2>2, FoundHere DEF ConnObject
  <2>4. conn' \in ConnTables /\ conn'[o] = r /\ SameBut(conn, conn', Conns, o)
    BY <2>1, <2>2, <2>3, Replaced
  <2>5. /\ sock' \in [Fds -> SocketObject] /\ SameBut(sock, sock', Fds, fd(o))
        /\ sock'[fd(o)].st = sock[fd(o)].st /\ sock'[fd(o)].nb = TRUE
    <3>1. fd(o) \in Fds /\ sock[fd(o)] \in SocketObject
      BY <1>2, <2>1, FoundHere, Types
    <3>2. sock'[fd(o)] = [sock[fd(o)] EXCEPT !.nb = TRUE]
      BY <2>1, <3>1, Types
    <3>3. sock'[fd(o)] \in SocketObject /\ sock'[fd(o)].st = sock[fd(o)].st /\ sock'[fd(o)].nb = TRUE
      BY <3>1, <3>2 DEF SocketObject
    <3> QED BY <2>1, <3>3, Types DEF SameBut
  <2>6. Member(heap, sock', ssl, r)
    <3>1. FdOf(heap, r) = fd(o) /\ Member(heap, sock, ssl, conn[o]) /\ FdOf(heap, conn[o]) = fd(o)
      BY <2>1, <2>3, FoundHere DEF FdOf, fd
    <3> QED BY <2>3, <2>5, <3>1 DEF Member
  <2>7. \A p \in Conns \ {o} : conn[p] # NoConn => Member(heap, sock', ssl, conn[p])
    <3>1. ASSUME NEW p \in Conns \ {o}, conn[p] # NoConn PROVE Member(heap, sock', ssl, conn[p])
      <4>1. fd(p) # fd(o)
        BY <1>2, <2>1, <3>1, NobodyElse
      <4>2. Member(heap, sock, ssl, conn[p]) /\ FdOf(heap, conn[p]) = fd(p) /\ fd(p) \in Fds \cup {DESCRIPTOR_NULL}
        BY <3>1, FoundHere
      <4>3. fd(p) # DESCRIPTOR_NULL => sock'[fd(p)] = sock[fd(p)]
        BY <2>5, <4>1, <4>2 DEF SameBut
      <4> QED BY <4>2, <4>3 DEF Member
    <3> QED BY <3>1
  <2>8. \A f \in Fds : sock'[f].st = "closed" <=> sock[f].st = "closed"
    BY <2>5 DEF SameBut
  <2>9. \A q \in SSLs : /\ ssl[q].st = "free" <=> ssl[q].st = "free"
                        /\ ssl[q].cert => ssl[q].st = "up"
                        /\ ssl[q].st = "free" => ssl[q].fd = DESCRIPTOR_NULL
    BY Types DEF SSLsHeld
  <2>10. Good(heap, conn', sock', ssl, (x509 - Ref(conn[o].cert)) + Ref(r.cert))
    <3>1. o \in Conns /\ conn[o] # NoConn /\ ssl \in [SSLs -> SSLObject] /\ Good(heap, conn, sock, ssl, x509)
      BY <2>1, Types DEF Holds
    <3> QED BY ONLY <2>3, <2>4, <2>5, <2>6, <2>7, <2>8, <2>9, <3>1, OneChanges
  <2>11. (x509 - Ref(conn[o].cert)) + Ref(r.cert) = x509
    BY <2>3, Types DEF Ref
  <2> QED BY <2>1, <2>10, <2>11 DEF Kept
<1> QED BY <1>1, <1>2

LEMMA SSLsStay ==
  ASSUME Holds
  PROVE  \A q \in SSLs : /\ ssl[q].st = "free" <=> ssl[q].st = "free"
                         /\ ssl[q].cert => ssl[q].st = "up"
                         /\ ssl[q].st = "free" => ssl[q].fd = DESCRIPTOR_NULL
BY Types DEF SSLsHeld

LEMMA StateSet ==
  ASSUME Holds, NEW f \in Fds, NEW st \in SocketState, sock' = [sock EXCEPT ![f].st = st]
  PROVE  /\ sock' \in [Fds -> SocketObject] /\ SameBut(sock, sock', Fds, f)
         /\ sock'[f].st = st /\ sock'[f].nb = sock[f].nb
<1>1. sock[f] \in SocketObject /\ sock'[f] = [sock[f] EXCEPT !.st = st]
  BY Types
<1>2. sock'[f] \in SocketObject /\ sock'[f].st = st /\ sock'[f].nb = sock[f].nb
  BY <1>1 DEF SocketObject
<1> QED BY <1>2, Types DEF SameBut

LEMMA KernelConnectsKeeps ==
  ASSUME Holds, NEW f \in Fds, KernelConnects(f), event \in BOOLEAN
  PROVE  Kept
<1>1. PICK st \in {"connected", "new"} : sock' = [sock EXCEPT ![f].st = st]
  BY DEF KernelConnects
<1>2. /\ sock[f].st = "connecting"
      /\ heap' = heap /\ conn' = conn /\ ssl' = ssl /\ x509' = x509 /\ event' = event
  BY DEF KernelConnects
<1>3. st \in SocketState /\ st # "closed"
  BY DEF SocketState
<1>4. /\ sock' \in [Fds -> SocketObject]
      /\ \A g \in Fds : sock'[g].st = "closed" <=> sock[g].st = "closed"
      /\ \A p \in Conns : conn[p] # NoConn => Member(heap, sock', ssl, conn[p])
  <2>1. /\ sock' \in [Fds -> SocketObject] /\ SameBut(sock, sock', Fds, f)
        /\ sock'[f].st # "closed" /\ sock'[f].nb = sock[f].nb
    BY <1>1, <1>3, StateSet
  <2>2. f \in Fds /\ Good(heap, conn, sock, ssl, x509) /\ sock[f].st # "closed" /\ sock[f].st # "connected"
    BY <1>2 DEF Holds
  <2> QED BY ONLY <2>1, <2>2, StateChanges
<1>5. Good(heap, conn, sock', ssl, Cardinality(Certs(conn)))
  <2>1. /\ conn \in ConnTables /\ ssl \in [SSLs -> SSLObject] /\ Good(heap, conn, sock, ssl, x509)
        /\ \A o \in Conns : conn[o] # NoConn <=> conn[o] # NoConn
        /\ \A o \in Conns : conn[o] # NoConn => conn[o].desc = conn[o].desc /\ conn[o].ssl = conn[o].ssl
    BY Types DEF Holds
  <2> QED BY ONLY <1>4, <2>1, Holds, SSLsStay, Changes
<1>6. x509 = Cardinality(Certs(conn))
  BY DEF Holds, Good
<1> QED BY <1>2, <1>5, <1>6 DEF Kept

LEMMA SetConnectedKeeps ==
  ASSUME Holds, NEW o \in Conns, SetConnected(o)
  PROVE  Kept
<1>1. /\ conn[o] # NoConn /\ fd(o) # DESCRIPTOR_NULL /\ sock[fd(o)].st = "connected"
      /\ conn' = [conn EXCEPT ![o].connected = TRUE] /\ event' \in BOOLEAN
      /\ heap' = heap /\ sock' = sock /\ ssl' = ssl /\ x509' = x509
  BY DEF SetConnected
<1>2. PICK r : r = [conn[o] EXCEPT !.connected = TRUE]
  OBVIOUS
<1>3. /\ r \in ConnObject /\ r.desc = conn[o].desc /\ r.ssl = conn[o].ssl /\ r.cert = conn[o].cert
      /\ r.blocking = conn[o].blocking
  BY <1>1, <1>2, FoundHere DEF ConnObject
<1>4. conn' \in ConnTables /\ conn'[o] = r /\ SameBut(conn, conn', Conns, o)
  BY <1>1, <1>2, <1>3, Replaced
<1>5. Member(heap, sock, ssl, r)
  <2>1. FdOf(heap, r) = fd(o) /\ FdOf(heap, conn[o]) = fd(o) /\ Member(heap, sock, ssl, conn[o])
    BY <1>1, <1>3, FoundHere DEF FdOf, fd
  <2> QED BY <1>1, <1>3, <2>1 DEF Member
<1>6. Good(heap, conn', sock, ssl, x509)
  BY ONLY <1>1, <1>3, <1>4, <1>5, Holds, o \in Conns, FlagsChange DEF Holds
<1> QED BY <1>1, <1>6 DEF Kept

(* An SSL object that was there gets another state. *)
LEMMA SSLChanges ==
  ASSUME NEW s \in [SSLs -> SSLObject], NEW q \in SSLs, s[q].st # "free",
         NEW w \in SSLObject, w.st # "free", w.cert => w.st = "up",
         \A r \in SSLs : /\ s[r].cert => s[r].st = "up"
                         /\ s[r].st = "free" => s[r].fd = DESCRIPTOR_NULL,
         NEW s2 \in [SSLs -> SSLObject], s2[q] = w, SameBut(s, s2, SSLs, q)
  PROVE  \A r \in SSLs : /\ s2[r].st = "free" <=> s[r].st = "free"
                         /\ s2[r].cert => s2[r].st = "up"
                         /\ s2[r].st = "free" => s2[r].fd = DESCRIPTOR_NULL
<1>1. s2[q] = w /\ SameBut(s, s2, SSLs, q)
  OBVIOUS
<1>2. ASSUME NEW r \in SSLs
      PROVE  /\ s2[r].st = "free" <=> s[r].st = "free"
             /\ s2[r].cert => s2[r].st = "up"
             /\ s2[r].st = "free" => s2[r].fd = DESCRIPTOR_NULL
  <2>1. CASE r = q
    BY <1>1, <2>1
  <2>2. CASE r # q
    BY <1>1, <2>2 DEF SameBut
  <2> QED BY <2>1, <2>2
<1> QED BY <1>1, <1>2

(* Who has the SSL of o has its Descriptor. *)
LEMMA SSLShared ==
  ASSUME Holds, NEW o \in Conns, conn[o] # NoConn, NEW p \in Conns, conn[p] # NoConn
  PROVE  /\ conn[p].ssl = conn[o].ssl /\ conn[o].ssl # NULL => fd(p) = fd(o) /\ conn[p].desc = conn[o].desc
         /\ conn[p].desc = conn[o].desc => conn[p].ssl = conn[o].ssl
         /\ fd(p) = fd(o) /\ fd(o) # DESCRIPTOR_NULL => conn[p].desc = conn[o].desc
<1>1. SharedTogether(conn) /\ OneHolder(heap, sock)
  BY DEF Holds, Good
<1>2. conn[p].desc \in Ids /\ conn[o].desc \in Ids
  BY FoundHere
<1> QED BY <1>1, <1>2 DEF SharedTogether, OneHolder, fd

LEMMA HandshakeInIOKeeps ==
  ASSUME Holds, NEW o \in Conns, HandshakeInIO(o)
  PROVE  Kept
<1>1. PICK cert \in BOOLEAN : ssl' = [ssl EXCEPT ![conn[o].ssl].st = "up", ![conn[o].ssl].cert = cert]
  BY DEF HandshakeInIO
<1>2. /\ conn[o] # NoConn /\ conn[o].connected /\ conn[o].ssl # NULL
      /\ ssl[conn[o].ssl].st = "want"
      /\ heap' = heap /\ sock' = sock /\ conn' = conn /\ x509' = x509 /\ event' \in BOOLEAN
  BY DEF HandshakeInIO
<1>3. PICK q \in SSLs : q = conn[o].ssl
  BY <1>2, FoundHere
<1>4. PICK w : w = [ssl[q] EXCEPT !.st = "up", !.cert = cert]
  OBVIOUS
<1>5. ssl[q] \in SSLObject
  BY Types
<1>6. w \in SSLObject /\ w.st = "up" /\ w.fd = ssl[q].fd
  BY <1>4, <1>5 DEF SSLObject, SSLState
<1>7. ssl' = [ssl EXCEPT ![q] = w]
  BY <1>1, <1>3, <1>4, Types
<1>8. /\ ssl' \in [SSLs -> SSLObject] /\ ssl'[q] = w /\ SameBut(ssl, ssl', SSLs, q)
      /\ \A r \in SSLs : /\ ssl'[r].st = "free" <=> ssl[r].st = "free"
                         /\ ssl'[r].cert => ssl'[r].st = "up"
                         /\ ssl'[r].st = "free" => ssl'[r].fd = DESCRIPTOR_NULL
  <2>1. ssl \in [SSLs -> SSLObject] /\ q \in SSLs /\ ssl[q].st # "free" /\ w.st # "free"
    BY <1>2, <1>3, <1>6, Types
  <2>2. ssl' \in [SSLs -> SSLObject] /\ ssl'[q] = w /\ SameBut(ssl, ssl', SSLs, q)
    BY <1>6, <1>7, <2>1 DEF SameBut
  <2> QED BY ONLY <1>6, <2>1, <2>2, Holds, SSLsStay, SSLChanges
<1>9. \A p \in Conns : conn[p] # NoConn => Member(heap, sock, ssl', conn[p])
  <2>1. ASSUME NEW p \in Conns, conn[p] # NoConn PROVE Member(heap, sock, ssl', conn[p])
    <3>1. /\ Member(heap, sock, ssl, conn[p]) /\ FdOf(heap, conn[p]) = fd(p)
          /\ conn[p].ssl \in SSLs \cup {NULL}
      BY <2>1, FoundHere
    <3>2. CASE conn[p].ssl = q
      <4>1. fd(p) = fd(o)
        BY <1>2, <1>3, <2>1, <3>2, SSLShared
      <4>2. sock[fd(o)].st = "connected"
        BY <1>2, FoundHere DEF Member
      <4>3. ~conn[p].cert
        BY <1>2, <1>3, <3>1, <3>2 DEF Member
      <4> QED BY <1>6, <1>8, <3>1, <3>2, <4>1, <4>2, <4>3 DEF Member
    <3>3. CASE conn[p].ssl # q
      BY <1>8, <3>1, <3>3 DEF Member, SameBut
    <3> QED BY <3>2, <3>3
  <2> QED BY <2>1
<1>10. Good(heap, conn, sock, ssl', Cardinality(Certs(conn)))
  <2>1. /\ conn \in ConnTables /\ sock \in [Fds -> SocketObject] /\ Good(heap, conn, sock, ssl, x509)
        /\ \A p \in Conns : conn[p] # NoConn <=> conn[p] # NoConn
        /\ \A p \in Conns : conn[p] # NoConn => conn[p].desc = conn[p].desc /\ conn[p].ssl = conn[p].ssl
        /\ \A f \in Fds : sock[f].st = "closed" <=> sock[f].st = "closed"
    BY Types DEF Holds
  <2> QED BY ONLY <1>8, <1>9, <2>1, Changes
<1>11. x509 = Cardinality(Certs(conn))
  BY DEF Holds, Good
<1> QED BY <1>2, <1>10, <1>11 DEF Kept

LEMMA ListenKeeps ==
  ASSUME Holds, NEW o \in Conns, Listen(o)
  PROVE  Kept
<1>1. CASE Reported
  BY <1>1, ReportedKeeps
<1>2. CASE ~Reported
  <2>1. /\ conn[o] # NoConn /\ fd(o) # DESCRIPTOR_NULL /\ sock[fd(o)].st \in {"new", "listening"}
        /\ sock' = [sock EXCEPT ![fd(o)].st = "listening"]
        /\ conn' = [conn EXCEPT ![o].listening = TRUE]
        /\ event' = ~conn[o].family
        /\ heap' = heap /\ ssl' = ssl /\ x509' = x509
    BY <1>2 DEF Listen
  <2>2. PICK r : r = [conn[o] EXCEPT !.listening = TRUE]
    OBVIOUS
  <2>3. /\ r \in ConnObject /\ r.desc = conn[o].desc /\ r.ssl = conn[o].ssl /\ r.cert = conn[o].cert
        /\ r.blocking = conn[o].blocking /\ r.connected = conn[o].connected
    BY <2>1, <2>2, FoundHere DEF ConnObject
  <2>4. conn' \in ConnTables /\ conn'[o] = r /\ SameBut(conn, conn', Conns, o)
    BY <2>1, <2>2, <2>3, Replaced
  <2>5. fd(o) \in Fds /\ sock[fd(o)].st # "closed" /\ sock[fd(o)].st # "connected"
    BY <2>1, FoundHere
  <2>6. "listening" \in SocketState
    BY DEF SocketState
  <2>7. /\ sock' \in [Fds -> SocketObject]
        /\ \A g \in Fds : sock'[g].st = "closed" <=> sock[g].st = "closed"
        /\ \A p \in Conns : conn[p] # NoConn => Member(heap, sock', ssl, conn[p])
    <3>1. /\ sock' \in [Fds -> SocketObject] /\ SameBut(sock, sock', Fds, fd(o))
          /\ sock'[fd(o)].st # "closed" /\ sock'[fd(o)].nb = sock[fd(o)].nb
      BY <2>1, <2>5, <2>6, StateSet
    <3>2. Good(heap, conn, sock, ssl, x509)
      BY DEF Holds
    <3> QED BY ONLY <2>5, <3>1, <3>2, StateChanges
  <2>8. Member(heap, sock', ssl, r)
    <3>1. Member(heap, sock', ssl, conn[o])
      BY <2>1, <2>7
    <3> QED BY <2>3, <3>1 DEF Member, FdOf
  <2>9. Good(heap, conn', sock', ssl, (x509 - Ref(conn[o].cert)) + Ref(r.cert))
    <3>1. /\ o \in Conns /\ conn[o] # NoConn /\ ssl \in [SSLs -> SSLObject] /\ Good(heap, conn, sock, ssl, x509)
          /\ \A p \in Conns \ {o} : conn[p] # NoConn => Member(heap, sock', ssl, conn[p])
      BY <2>1, <2>7, Types DEF Holds
    <3> QED BY ONLY <2>3, <2>4, <2>7, <2>8, <3>1, Holds, SSLsStay, OneChanges
  <2>10. (x509 - Ref(conn[o].cert)) + Ref(r.cert) = x509
    BY <2>3, Types DEF Ref
  <2>11. event' \in BOOLEAN
    BY <2>1
  <2> QED BY <2>1, <2>9, <2>10, <2>11 DEF Kept
<1> QED BY <1>1, <1>2

(* The state of a socket that is not connected changes, and nothing else. *)
LEMMA StateKeeps ==
  ASSUME Holds, NEW f \in Fds, sock[f].st # "closed", sock[f].st # "connected",
         NEW st \in SocketState, st # "closed", sock' = [sock EXCEPT ![f].st = st]
  PROVE  Good(heap, conn, sock', ssl, x509)
<1>1. /\ sock' \in [Fds -> SocketObject] /\ SameBut(sock, sock', Fds, f)
      /\ sock'[f].st # "closed" /\ sock'[f].nb = sock[f].nb
  BY StateSet
<1>2. Good(heap, conn, sock, ssl, x509) /\ f \in Fds /\ sock[f].st # "closed" /\ sock[f].st # "connected"
  BY DEF Holds
<1>3. /\ \A g \in Fds : sock'[g].st = "closed" <=> sock[g].st = "closed"
      /\ \A p \in Conns : conn[p] # NoConn => Member(heap, sock', ssl, conn[p])
  BY ONLY <1>1, <1>2, StateChanges
<1>4. Good(heap, conn, sock', ssl, Cardinality(Certs(conn)))
  <2>1. /\ conn \in ConnTables /\ ssl \in [SSLs -> SSLObject]
        /\ \A o \in Conns : conn[o] # NoConn <=> conn[o] # NoConn
        /\ \A o \in Conns : conn[o] # NoConn => conn[o].desc = conn[o].desc /\ conn[o].ssl = conn[o].ssl
    BY Types
  <2> QED BY ONLY <1>1, <1>2, <1>3, <2>1, Holds, SSLsStay, Changes
<1>5. x509 = Cardinality(Certs(conn))
  BY DEF Holds, Good
<1> QED BY <1>4, <1>5

(* A first handshake on the socket of o, whose SSL was not up. *)
LEMMA Handshaken ==
  ASSUME NEW h, NEW c, NEW k, NEW s, NEW x, Good(h, c, k, s, x),
         NEW o \in Conns, c[o] # NoConn, NEW q \in SSLs, q = c[o].ssl, s[q].st # "up",
         NEW f \in Fds, f = h[c[o].desc].fd,
         NEW w \in SSLObject, w.st # "free", w.fd = f, w.cert => w.st = "up",
         w.st = "up" => k[f].st = "connected",
         NEW r \in ConnObject, r.desc = c[o].desc, r.ssl = c[o].ssl, r.blocking = c[o].blocking,
         r.connected => k[f].st = "connected", r.cert => w.st = "up",
         NEW c2 \in ConnTables, c2[o] = r, SameBut(c, c2, Conns, o),
         NEW s2 \in [SSLs -> SSLObject], s2[q] = w, SameBut(s, s2, SSLs, q)
  PROVE  Good(h, c2, k, s2, x + Ref(r.cert))
<1>1. /\ Typed(h, c, k, s) /\ SSLsHeld(c, s) /\ SharedTogether(c) /\ Members(h, c, k, s)
      /\ x = Cardinality(Certs(c))
  BY DEF Good
<1>2. q # NULL /\ f # DESCRIPTOR_NULL /\ s2[q] = w /\ w.fd = f
  BY NULLAssumption, NullIsNoFd
<1>3. s[q].st # "free"
  BY <1>1 DEF SSLsHeld
<1>4. \A t \in SSLs : /\ s2[t].st = "free" <=> s[t].st = "free"
                      /\ s2[t].cert => s2[t].st = "up"
                      /\ s2[t].st = "free" => s2[t].fd = DESCRIPTOR_NULL
  <2>1. /\ s \in [SSLs -> SSLObject] /\ q \in SSLs /\ w \in SSLObject /\ w.st # "free"
        /\ w.cert => w.st = "up"
        /\ s2 \in [SSLs -> SSLObject] /\ s2[q] = w /\ SameBut(s, s2, SSLs, q)
        /\ \A t \in SSLs : /\ s[t].cert => s[t].st = "up"
                           /\ s[t].st = "free" => s[t].fd = DESCRIPTOR_NULL
    BY <1>1 DEF Typed, SSLsHeld
  <2> QED BY ONLY <1>3, <2>1, SSLChanges
<1>5. Member(h, k, s2, r)
  <2>1. Member(h, k, s, c[o]) /\ FdOf(h, r) = f /\ FdOf(h, c[o]) = f
    BY <1>1 DEF Members, FdOf
  <2> QED BY <1>2, <2>1 DEF Member
<1>6. ASSUME NEW p \in Conns \ {o}, c[p] # NoConn PROVE Member(h, k, s2, c[p])
  <2>1. Member(h, k, s, c[p]) /\ c[p].ssl \in SSLs \cup {NULL}
    BY <1>1, <1>6, Found DEF Members, Typed
  <2>2. CASE c[p].ssl = q
    <3>1. FdOf(h, c[p]) = f
      BY <1>1, <1>2, <1>6, <2>2 DEF SharedTogether, FdOf
    <3>2. ~c[p].cert
      BY <2>1, <2>2 DEF Member
    <3> QED BY <1>2, <2>1, <2>2, <3>1, <3>2 DEF Member
  <2>3. CASE c[p].ssl # q
    <3>1. c[p].ssl # NULL => s2[c[p].ssl] = s[c[p].ssl]
      BY <2>1, <2>3 DEF SameBut
    <3> QED BY <2>1, <3>1 DEF Member
  <2> QED BY <2>2, <2>3
<1>7. Good(h, c2, k, s2, (x - Ref(c[o].cert)) + Ref(r.cert))
  <2>1. /\ Good(h, c, k, s, x) /\ o \in Conns /\ c[o] # NoConn
        /\ r \in ConnObject /\ r.desc = c[o].desc /\ r.ssl = c[o].ssl
        /\ c2 \in ConnTables /\ c2[o] = r /\ SameBut(c, c2, Conns, o)
        /\ k \in [Fds -> SocketObject] /\ s2 \in [SSLs -> SSLObject]
        /\ \A g \in Fds : k[g].st = "closed" <=> k[g].st = "closed"
        /\ \A p \in Conns \ {o} : c[p] # NoConn => Member(h, k, s2, c[p])
    BY <1>1, <1>6 DEF Typed
  <2> QED BY ONLY <1>4, <1>5, <2>1, OneChanges
<1>8. (x - Ref(c[o].cert)) + Ref(r.cert) = x + Ref(r.cert)
  <2>1. ~c[o].cert
    BY <1>1 DEF Members, Member
  <2> QED BY <1>1, <2>1, CertsFinite DEF Ref
<1> QED BY <1>7, <1>8

LEMMA ConnectKeeps ==
  ASSUME Holds, NEW o \in Conns, Connect(o)
  PROVE  Kept
<1>1. CASE Reported
  BY <1>1, ReportedKeeps
<1>2. CASE ~Reported
  <2>1. /\ conn[o] # NoConn /\ fd(o) # DESCRIPTOR_NULL /\ sock[fd(o)].st = "new" /\ heap' = heap
    BY <1>2 DEF Connect
  <2>2. PICK st \in {"connecting", "connected"} :
          /\ sock' = [sock EXCEPT ![fd(o)].st = st]
          /\ \/ st = "connecting" /\ event' = TRUE /\ UNCHANGED <<conn, ssl, x509>>
             \/ /\ conn[o].ssl = NULL
                /\ conn' = [conn EXCEPT ![o].connected = @ \/ st = "connected"]
                /\ event' = FALSE /\ UNCHANGED <<ssl, x509>>
             \/ conn[o].ssl # NULL /\ ConnectSSL(o, st)
    BY <1>2, <2>1 DEF Connect
  <2>3. PICK f \in Fds : f = fd(o)
    BY <2>1, FoundHere
  <2>4. sock[f].st = "new" /\ sock' = [sock EXCEPT ![f].st = st] /\ st \in SocketState /\ st # "closed"
    BY <2>1, <2>2, <2>3 DEF SocketState
  <2>5. sock'[f].st = st
    BY <2>4, StateSet
  <2>6. Good(heap, conn, sock', ssl, x509)
    BY <2>4, StateKeeps
  <2>7. /\ ~conn[o].connected /\ ~conn[o].cert
        /\ conn[o].ssl # NULL => ssl[conn[o].ssl].st # "up"
    <3>1. Good(heap, conn, sock, ssl, x509) /\ sock[f].st # "connected" /\ heap[conn[o].desc].fd = f
      BY <2>3, <2>4 DEF Holds, fd
    <3> QED BY ONLY <2>1, <3>1, f \in Fds, o \in Conns, NotYet
  <2>8. CASE st = "connecting" /\ event' = TRUE /\ UNCHANGED <<conn, ssl, x509>>
    BY <2>1, <2>6, <2>8 DEF Kept
  <2>9. CASE /\ conn[o].ssl = NULL
             /\ conn' = [conn EXCEPT ![o].connected = @ \/ st = "connected"]
             /\ event' = FALSE /\ UNCHANGED <<ssl, x509>>
    <3>1. PICK r : r = [conn[o] EXCEPT !.connected = @ \/ st = "connected"]
      OBVIOUS
    <3>2. /\ r \in ConnObject /\ r.desc = conn[o].desc /\ r.ssl = conn[o].ssl /\ r.cert = conn[o].cert
          /\ r.blocking = conn[o].blocking /\ r.connected = (conn[o].connected \/ st = "connected")
      BY <2>1, <3>1, FoundHere DEF ConnObject
    <3>3. conn' \in ConnTables /\ conn'[o] = r /\ SameBut(conn, conn', Conns, o)
      <4>1. conn' = [conn EXCEPT ![o] = r]
        BY <2>9, <3>1
      <4> QED BY <3>2, <4>1, Replaced
    <3>4. Member(heap, sock', ssl, r)
      <4>1. Member(heap, sock', ssl, conn[o]) /\ FdOf(heap, r) = f /\ FdOf(heap, conn[o]) = f
        BY <2>1, <2>3, <2>6, <3>2 DEF Good, Members, FdOf, fd
      <4> QED BY <2>1, <2>3, <2>5, <2>7, <3>2, <4>1 DEF Member
    <3>5. Good(heap, conn', sock', ssl, x509)
      BY ONLY <2>1, <2>6, <3>2, <3>3, <3>4, o \in Conns, FlagsChange
    <3> QED BY <2>1, <2>9, <3>5 DEF Kept
  <2>10. CASE conn[o].ssl # NULL /\ ConnectSSL(o, st)
    <3>1. PICK h \in Handshakes(st, sock[f].nb), cert \in BOOLEAN :
            /\ cert => h = "up"
            /\ ssl' = [ssl EXCEPT ![conn[o].ssl] = [st |-> h, fd |-> f, cert |-> cert]]
            /\ x509' = x509 + Ref(cert)
            /\ conn' = [conn EXCEPT ![o].connected = @ \/ st = "connected",
                                    ![o].cert = IF h = "up" THEN cert ELSE @]
            /\ event' = (h = "failed" \/ (h = "want" /\ conn[o].blocking))
      BY <2>3, <2>10 DEF ConnectSSL
    <3>2. PICK q \in SSLs : q = conn[o].ssl
      BY <2>1, <2>10, FoundHere
    <3>3. PICK w : w = [st |-> h, fd |-> f, cert |-> cert]
      OBVIOUS
    <3>4. PICK r : r = [conn[o] EXCEPT !.connected = @ \/ st = "connected",
                                       !.cert = IF h = "up" THEN cert ELSE @]
      OBVIOUS
    <3>5. h \in {"up", "failed", "want"} /\ (h = "up" => st = "connected")
      BY DEF Handshakes
    <3>6. w \in SSLObject /\ w.st # "free" /\ w.fd = f /\ (w.cert => w.st = "up")
          /\ (w.st = "up" => sock'[f].st = "connected")
      BY <2>5, <3>1, <3>3, <3>5 DEF SSLObject, SSLState
    <3>7. /\ r \in ConnObject /\ r.desc = conn[o].desc /\ r.ssl = conn[o].ssl /\ r.blocking = conn[o].blocking
          /\ r.connected = (conn[o].connected \/ st = "connected")
          /\ r.cert = IF h = "up" THEN cert ELSE conn[o].cert
      BY <2>1, <3>4, FoundHere DEF ConnObject
    <3>8. r.cert = cert /\ (r.cert => w.st = "up") /\ (r.connected => sock'[f].st = "connected")
      BY <2>1, <2>5, <2>7, <3>1, <3>3, <3>7, FoundHere
    <3>9. conn' \in ConnTables /\ conn'[o] = r /\ SameBut(conn, conn', Conns, o)
      <4>1. conn' = [conn EXCEPT ![o] = r]
        BY <3>1, <3>4
      <4> QED BY <3>7, <4>1, Replaced
    <3>10. ssl' \in [SSLs -> SSLObject] /\ ssl'[q] = w /\ SameBut(ssl, ssl', SSLs, q)
      BY <3>1, <3>2, <3>3, <3>6, Types DEF SameBut
    <3>11. Good(heap, conn', sock', ssl', x509 + Ref(r.cert))
      <4>1. ssl[q].st # "up" /\ f = heap[conn[o].desc].fd
        BY <2>3, <2>7, <2>10, <3>2 DEF fd
      <4> QED BY ONLY <2>1, <2>6, <3>2, <3>6, <3>7, <3>8, <3>9, <3>10, <4>1, f \in Fds, q \in SSLs, o \in Conns, Handshaken
    <3>12. event' \in BOOLEAN
      <4>1. conn[o].blocking \in BOOLEAN
        BY <2>1, FoundHere DEF ConnObject
      <4> QED BY <3>1, <4>1
    <3> QED BY <2>1, <3>1, <3>8, <3>11, <3>12 DEF Kept
  <2> QED BY <2>2, <2>8, <2>9, <2>10
<1> QED BY <1>1, <1>2

LEMMA BindKeeps ==
  ASSUME Holds, NEW o \in Conns, Bind(o)
  PROVE  Kept
BY QuietKeeps DEF Bind

(* One Descriptor gets another socket, or none. *)
LEMMA FdSet ==
  ASSUME Holds, NEW d \in Ids, NEW f \in Fds \cup {DESCRIPTOR_NULL}, heap' = [heap EXCEPT ![d].fd = f]
  PROVE  heap' \in Heaps /\ heap'[d].fd = f /\ heap'[d].cnt = heap[d].cnt /\ SameBut(heap, heap', Ids, d)
<1>1. heap[d] \in [cnt : Nat, fd : Fds \cup {DESCRIPTOR_NULL}, fp : {DESCRIPTOR_NULL}]
  BY Types DEF Heaps
<1>2. PICK n : n = [heap[d] EXCEPT !.fd = f]
  OBVIOUS
<1>3. /\ n \in [cnt : Nat, fd : Fds \cup {DESCRIPTOR_NULL}, fp : {DESCRIPTOR_NULL}]
      /\ n.fd = f /\ n.cnt = heap[d].cnt
  BY <1>1, <1>2
<1>4. heap' = [heap EXCEPT ![d] = n]
  BY <1>2
<1> QED BY <1>3, <1>4, Types DEF Heaps, SameBut

(* What Socket and Accept do to a connection that may open: it becomes r,    *)
(* with the socket f.                                                        *)
LEMMA OpensHere ==
  ASSUME Risky = {}, Holds, NEW o \in Conns, conn[o] # NoConn, MayOpen(o),
         NEW f \in Fds \ Open, NEW v \in SocketObject, v.st # "closed",
         heap' = [heap EXCEPT ![conn[o].desc].fd = f], sock' = [sock EXCEPT ![f] = v],
         NEW r \in ConnObject, r.desc = conn[o].desc, r.cert => r.ssl # NULL /\ ssl'[r.ssl].st = "up",
         conn' = [conn EXCEPT ![o] = r], ssl' \in [SSLs -> SSLObject],
         \/ r.ssl = NULL /\ ssl' = ssl
         \/ /\ r.ssl \in SSLs /\ ssl[r.ssl].st = "free" /\ SameBut(ssl, ssl', SSLs, r.ssl)
            /\ ssl'[r.ssl].st # "free" /\ (ssl'[r.ssl].cert => ssl'[r.ssl].st = "up")
            /\ ssl'[r.ssl].fd \in {DESCRIPTOR_NULL, f} /\ (ssl'[r.ssl].st = "up" => v.st = "connected"),
         r.connected => v.st = "connected"
  PROVE  Good(heap', conn', sock', ssl', x509 + Ref(r.cert))
<1>1. PICK d \in Ids : d = conn[o].desc
  BY FoundHere
<1>2. heap[d].fd = DESCRIPTOR_NULL /\ conn[o].ssl = NULL /\ IsLast(heap, d)
  BY <1>1 DEF MayOpen, HasCopies, fd
<1>3. f \in Fds /\ sock[f].st = "closed"
  BY DEF Open
<1>4. heap' \in Heaps /\ heap'[d].fd = f /\ heap'[d].cnt = heap[d].cnt /\ SameBut(heap, heap', Ids, d)
  <2>1. heap' = [heap EXCEPT ![d].fd = f]
    BY <1>1
  <2> QED BY <1>3, <2>1, FdSet
<1>5. conn' \in ConnTables /\ conn'[o] = r /\ SameBut(conn, conn', Conns, o)
  BY Replaced
<1>6. sock' \in [Fds -> SocketObject] /\ sock'[f] = v /\ SameBut(sock, sock', Fds, f)
  BY <1>3, Types DEF SameBut
<1>7. r.desc = d
  BY <1>1
<1>8. Member(heap', sock', ssl', r)
  <2>1. FdOf(heap', r) = f /\ r.cert \in BOOLEAN
    BY <1>4, <1>7 DEF FdOf, ConnObject
  <2> QED BY <1>6, <2>1, NullIsNoFd DEF Member
<1>9. /\ Good(heap, conn, sock, ssl, x509) /\ o \in Conns /\ conn[o] # NoConn
      /\ v \in SocketObject /\ v.st # "closed" /\ r \in ConnObject /\ r.desc = conn[o].desc
      /\ ssl' \in [SSLs -> SSLObject]
      /\ \/ r.ssl = NULL /\ ssl' = ssl
         \/ /\ r.ssl \in SSLs /\ ssl[r.ssl].st = "free" /\ SameBut(ssl, ssl', SSLs, r.ssl)
            /\ ssl'[r.ssl].st # "free" /\ (ssl'[r.ssl].cert => ssl'[r.ssl].st = "up")
  BY DEF Holds
<1>10. IsLast(heap, conn[o].desc) /\ heap[conn[o].desc].fd = DESCRIPTOR_NULL /\ conn[o].ssl = NULL
  BY <1>1, <1>2
<1>11. heap'[r.desc].fd = f /\ heap'[r.desc].cnt = heap[r.desc].cnt /\ SameBut(heap, heap', Ids, r.desc)
  BY <1>4, <1>7
<1> QED BY ONLY <1>3, <1>4, <1>5, <1>6, <1>8, <1>9, <1>10, <1>11, Opens

LEMMA SocketKeeps ==
  ASSUME Risky = {}, Holds, NEW o \in Conns, NEW withSSL \in BOOLEAN, Socket(o, withSSL)
  PROVE  Kept
<1>1. /\ conn[o] # NoConn /\ MayOpen(o) /\ x509' = x509
      /\ conn[o] \in ConnObject /\ conn[o].ssl = NULL /\ ~conn[o].cert /\ ~conn[o].connected
      /\ fd(o) = DESCRIPTOR_NULL /\ conn[o].blocking \in BOOLEAN
  <2>1. conn[o] # NoConn /\ MayOpen(o) /\ x509' = x509
    BY DEF Socket
  <2>2. fd(o) = DESCRIPTOR_NULL /\ conn[o].ssl = NULL
    BY <2>1 DEF MayOpen
  <2>3. conn[o] \in ConnObject /\ conn[o].blocking \in BOOLEAN /\ Member(heap, sock, ssl, conn[o]) /\ FdOf(heap, conn[o]) = fd(o)
    BY <2>1, FoundHere DEF ConnObject
  <2> QED BY <2>1, <2>2, <2>3 DEF Member
<1>2. CASE /\ heap' = [heap EXCEPT ![conn[o].desc].fd = DESCRIPTOR_NULL]
           /\ event' = TRUE
           /\ UNCHANGED <<conn, sock, ssl>>
  <2>1. heap' = heap
    <3>1. PICK d \in Ids : d = conn[o].desc
      BY <1>1, FoundHere
    <3>2. heap[d] \in [cnt : Nat, fd : Fds \cup {DESCRIPTOR_NULL}, fp : {DESCRIPTOR_NULL}]
          /\ heap[d].fd = DESCRIPTOR_NULL
      BY <1>1, <3>1, Types DEF Heaps, fd
    <3>3. [heap[d] EXCEPT !.fd = DESCRIPTOR_NULL] = heap[d]
      BY <3>2
    <3> QED BY <1>2, <3>1, <3>3, Types DEF Heaps
  <2> QED BY <1>1, <1>2, <2>1, QuietKeeps
<1>3. CASE \E f \in Fds \ Open :
             /\ heap' = [heap EXCEPT ![conn[o].desc].fd = f]
             /\ sock' = [sock EXCEPT ![f] = [st |-> "new", nb |-> ~conn[o].blocking]]
             /\ \/ ~withSSL /\ event' = FALSE /\ UNCHANGED <<conn, ssl>>
                \/ withSSL /\ event' = TRUE /\ conn' = [conn EXCEPT ![o].ssl = NULL] /\ UNCHANGED ssl
                \/ /\ withSSL /\ event' = FALSE
                   /\ \E s \in SSLs :
                        /\ ssl[s].st = "free"
                        /\ ssl' = [ssl EXCEPT ![s].st = "new"]
                        /\ conn' = [conn EXCEPT ![o].ssl = s]
  <2>1. PICK f \in Fds \ Open :
             /\ heap' = [heap EXCEPT ![conn[o].desc].fd = f]
             /\ sock' = [sock EXCEPT ![f] = [st |-> "new", nb |-> ~conn[o].blocking]]
             /\ \/ event' = FALSE /\ UNCHANGED <<conn, ssl>>
                \/ event' = TRUE /\ conn' = [conn EXCEPT ![o].ssl = NULL] /\ UNCHANGED ssl
                \/ /\ event' = FALSE
                   /\ \E s \in SSLs :
                        /\ ssl[s].st = "free"
                        /\ ssl' = [ssl EXCEPT ![s].st = "new"]
                        /\ conn' = [conn EXCEPT ![o].ssl = s]
    BY <1>3
  <2>2. PICK v : v = [st |-> "new", nb |-> ~conn[o].blocking]
    OBVIOUS
  <2>3. v \in SocketObject /\ v.st = "new" /\ sock' = [sock EXCEPT ![f] = v]
    BY <1>1, <2>1, <2>2 DEF SocketObject, SocketState
  <2>4. CASE event' \in BOOLEAN /\ conn' = [conn EXCEPT ![o].ssl = NULL] /\ UNCHANGED ssl
    <3>1. conn' = [conn EXCEPT ![o] = conn[o]]
      <4>1. [conn[o] EXCEPT !.ssl = NULL] = conn[o]
        BY <1>1 DEF ConnObject
      <4> QED BY <2>4, <4>1
    <3>2. Good(heap', conn', sock', ssl', x509 + Ref(conn[o].cert))
      <4>1. /\ heap' = [heap EXCEPT ![conn[o].desc].fd = f]
            /\ conn[o].desc = conn[o].desc /\ ssl' \in [SSLs -> SSLObject] /\ ssl' = ssl
        BY <2>1, <2>4, Types
      <4> QED BY ONLY <1>1, <2>3, <3>1, <4>1, Risky = {}, Holds, o \in Conns, f \in Fds \ Open, OpensHere
    <3>3. x509 + Ref(conn[o].cert) = x509
      BY <1>1, Types DEF Ref
    <3> QED BY <1>1, <2>4, <3>2, <3>3 DEF Kept
  <2>5. ASSUME event' = FALSE, NEW s \in SSLs,
               ssl[s].st = "free", ssl' = [ssl EXCEPT ![s].st = "new"], conn' = [conn EXCEPT ![o].ssl = s]
        PROVE  Kept
    <3>1. PICK r : r = [conn[o] EXCEPT !.ssl = s]
      OBVIOUS
    <3>2. /\ r \in ConnObject /\ r.desc = conn[o].desc /\ r.ssl = s /\ ~r.cert /\ ~r.connected
          /\ s # NULL
      BY <1>1, <3>1, NULLAssumption DEF ConnObject
    <3>3. conn' = [conn EXCEPT ![o] = r]
      BY <2>5, <3>1
    <3>4. /\ ssl' \in [SSLs -> SSLObject] /\ SameBut(ssl, ssl', SSLs, s)
          /\ ssl'[s].st = "new" /\ ~ssl'[s].cert /\ ssl'[s].fd = DESCRIPTOR_NULL
      <4>1. /\ ssl[s] \in SSLObject /\ ssl[s].fd = DESCRIPTOR_NULL /\ ~ssl[s].cert
            /\ ssl' = [ssl EXCEPT ![s] = [ssl[s] EXCEPT !.st = "new"]]
        BY <2>5, Types DEF SSLsHeld
      <4>2. PICK w : w = [ssl[s] EXCEPT !.st = "new"]
        OBVIOUS
      <4>3. w \in SSLObject /\ w.st = "new" /\ ~w.cert /\ w.fd = DESCRIPTOR_NULL
        BY <4>1, <4>2 DEF SSLObject, SSLState
      <4> QED BY <4>1, <4>2, <4>3, Types DEF SameBut
    <3>5. Good(heap', conn', sock', ssl', x509 + Ref(r.cert))
      <4>1. /\ heap' = [heap EXCEPT ![conn[o].desc].fd = f] /\ ssl[s].st = "free"
            /\ r.ssl \in SSLs /\ SameBut(ssl, ssl', SSLs, r.ssl)
            /\ ssl'[r.ssl].st = "new" /\ ~ssl'[r.ssl].cert /\ ssl'[r.ssl].fd = DESCRIPTOR_NULL
        BY <2>1, <2>3, <2>5, <3>2, <3>4
      <4> QED BY ONLY <1>1, <2>3, <3>2, <3>3, <3>4, <4>1, Risky = {}, Holds, o \in Conns, f \in Fds \ Open, OpensHere
    <3>6. x509 + Ref(r.cert) = x509
      BY <3>2, Types DEF Ref
    <3> QED BY <1>1, <2>5, <3>5, <3>6 DEF Kept
  <2>6. CASE event' = FALSE /\ UNCHANGED <<conn, ssl>>
    <3>1. conn' = [conn EXCEPT ![o].ssl = NULL]
      <4>1. [conn[o] EXCEPT !.ssl = NULL] = conn[o]
        BY <1>1 DEF ConnObject
      <4> QED BY <2>6, <4>1, Types DEF ConnTables
    <3> QED BY <2>4, <2>6, <3>1
  <2> QED BY <2>1, <2>4, <2>5, <2>6
<1> QED BY <1>2, <1>3 DEF Socket

(* The object that Accept makes for the client of l, but for its SSL. *)
Client(l, o) ==
  [conn[o] EXCEPT !.connected = TRUE, !.family = TRUE, !.blocking = @ /\ conn[l].blocking]

LEMMA ClientIs ==
  ASSUME Risky = {}, Holds, NEW l \in Conns, NEW o \in Conns, conn[l] # NoConn, conn[o] # NoConn,
         MayOpen(o), conn[o].blocking \/ ~conn[l].blocking, fd(l) # DESCRIPTOR_NULL,
         NEW c, c = Client(l, o)
  PROVE  /\ c \in ConnObject /\ c.desc = conn[o].desc /\ c.ssl = NULL /\ ~c.cert
         /\ sock[fd(l)].nb \in BOOLEAN
<1>1. conn[o] \in ConnObject /\ conn[l].blocking \in BOOLEAN /\ conn[o].ssl = NULL /\ ~conn[o].cert
  <2>1. conn[o] \in ConnObject /\ conn[l] \in ConnObject /\ Member(heap, sock, ssl, conn[o])
    BY FoundHere
  <2>2. conn[o].ssl = NULL
    BY DEF MayOpen
  <2> QED BY <2>1, <2>2 DEF Member, ConnObject
<1>2. c \in ConnObject /\ c.desc = conn[o].desc /\ c.ssl = NULL /\ ~c.cert
  BY <1>1 DEF Client, ConnObject
<1>3. sock[fd(l)] \in SocketObject
  BY FoundHere, Types
<1> QED BY <1>2, <1>3 DEF SocketObject

LEMMA AcceptKeeps ==
  ASSUME Risky = {}, Holds, NEW l \in Conns, NEW o \in Conns, Accept(l, o)
  PROVE  Kept
<1>1. CASE Reported
  BY <1>1, ReportedKeeps
<1>2. CASE ~Reported
  <2> DEFINE Plain == conn' = [conn EXCEPT ![o] = Client(l, o)] /\ ssl' = ssl /\ x509' = x509
  <2>1. /\ l # o /\ conn[l] # NoConn /\ conn[o] # NoConn /\ MayOpen(o)
        /\ conn[o].blocking \/ ~conn[l].blocking
        /\ fd(l) # DESCRIPTOR_NULL
    BY <1>2 DEF Accept
  <2>2. PICK f \in Fds \ Open, nb \in {FALSE, sock[fd(l)].nb} :
          /\ sock' = [sock EXCEPT ![f] = [st |-> "connected", nb |-> nb]]
          /\ heap' = [heap EXCEPT ![conn[o].desc].fd = f]
          /\ \/ event' = TRUE /\ Plain
             \/ event' = FALSE /\ Plain
             \/ AcceptSSL(l, o, Client(l, o), f)
    BY <1>2 DEF Accept, Client
  <2>3. PICK v : v = [st |-> "connected", nb |-> nb]
    OBVIOUS
  <2>4. PICK c : c = Client(l, o)
    OBVIOUS
  <2>5. /\ c \in ConnObject /\ c.desc = conn[o].desc /\ c.ssl = NULL /\ ~c.cert
        /\ sock[fd(l)].nb \in BOOLEAN
    BY <2>1, <2>4, ClientIs
  <2>6. v \in SocketObject /\ v.st = "connected" /\ sock' = [sock EXCEPT ![f] = v]
    BY <2>2, <2>3, <2>5 DEF SocketObject, SocketState
  <2>7. heap' = [heap EXCEPT ![conn[o].desc].fd = f]
    BY <2>2
  <2>8. CASE event' \in BOOLEAN /\ conn' = [conn EXCEPT ![o] = c] /\ ssl' = ssl /\ x509' = x509
    <3>1. ssl' \in [SSLs -> SSLObject] /\ v.st # "closed"
      BY <2>6, <2>8, Types
    <3>2. Good(heap', conn', sock', ssl', x509 + Ref(c.cert))
      BY ONLY <2>1, <2>5, <2>6, <2>7, <2>8, <3>1, Risky = {}, Holds, o \in Conns, f \in Fds \ Open, OpensHere
    <3>3. x509 + Ref(c.cert) = x509
      BY <2>5, Types DEF Ref
    <3> QED BY <2>8, <3>2, <3>3 DEF Kept
  <2>9. CASE AcceptSSL(l, o, c, f)
    <3>1. CASE event' = TRUE /\ conn' = [conn EXCEPT ![o] = [c EXCEPT !.ssl = NULL]] /\ UNCHANGED <<ssl, x509>>
      <4>1. [c EXCEPT !.ssl = NULL] = c
        BY <2>5 DEF ConnObject
      <4> QED BY <2>8, <3>1, <4>1
    <3>2. ASSUME NEW s \in SSLs, NEW h \in {"up", "failed"}, NEW cert \in BOOLEAN, NEW mine,
                 mine = (h = "up" /\ PeerCert(conn[l].ssl)),
                 ssl[s].st = "free", cert => h = "up",
                 ssl' = [ssl EXCEPT ![s] = [st |-> h, fd |-> f, cert |-> cert]],
                 conn' = [conn EXCEPT ![o] = [c EXCEPT !.ssl = s, !.cert = IF h = "up" THEN mine ELSE @]],
                 x509' = x509 + Ref(mine),
                 event' = (h = "failed")
          PROVE  Kept
      <4>1. mine \in BOOLEAN /\ (mine => h = "up")
        BY <3>2
      <4>2. PICK r : r = [c EXCEPT !.ssl = s, !.cert = IF h = "up" THEN mine ELSE @]
        OBVIOUS
      <4>3. /\ r \in ConnObject /\ r.desc = conn[o].desc /\ r.ssl = s /\ r.blocking = c.blocking
            /\ r.cert = (IF h = "up" THEN mine ELSE c.cert)
        BY <2>5, <4>1, <4>2 DEF ConnObject
      <4>4. r.cert = mine /\ s # NULL /\ (r.cert => h = "up")
        <5>1. c.cert = FALSE
          BY <2>5 DEF ConnObject
        <5> QED BY <4>1, <4>3, <5>1, NULLAssumption
      <4>5. PICK w : w = [st |-> h, fd |-> f, cert |-> cert]
        OBVIOUS
      <4>6. w \in SSLObject /\ w.st = h /\ w.fd = f /\ (w.cert => h = "up") /\ h # "free"
        BY <3>2, <4>5 DEF SSLObject, SSLState
      <4>7. /\ ssl' \in [SSLs -> SSLObject] /\ ssl'[s] = w /\ SameBut(ssl, ssl', SSLs, s)
        BY <3>2, <4>5, <4>6, Types DEF SameBut
      <4>8. Good(heap', conn', sock', ssl', x509 + Ref(r.cert))
        <5>1. /\ conn' = [conn EXCEPT ![o] = r] /\ (r.cert => r.ssl # NULL /\ ssl'[r.ssl].st = "up")
              /\ r.ssl \in SSLs /\ ssl[r.ssl].st = "free" /\ SameBut(ssl, ssl', SSLs, r.ssl)
              /\ ssl'[r.ssl].st # "free" /\ (ssl'[r.ssl].cert => ssl'[r.ssl].st = "up")
              /\ ssl'[r.ssl].fd = f /\ v.st = "connected" /\ v.st # "closed"
          BY <2>6, <3>2, <4>2, <4>3, <4>4, <4>6, <4>7
        <5> QED BY ONLY <2>1, <2>6, <2>7, <4>3, <4>7, <5>1, Risky = {}, Holds, o \in Conns, f \in Fds \ Open, OpensHere
      <4> QED BY <3>2, <4>4, <4>8 DEF Kept
    <3>3. CASE ~(event' = TRUE /\ conn' = [conn EXCEPT ![o] = [c EXCEPT !.ssl = NULL]] /\ UNCHANGED <<ssl, x509>>)
      <4>1. PICK s \in SSLs, h \in {"up", "failed"}, cert \in BOOLEAN :
              /\ ssl[s].st = "free" /\ (cert => h = "up")
              /\ ssl' = [ssl EXCEPT ![s] = [st |-> h, fd |-> f, cert |-> cert]]
              /\ conn' = [conn EXCEPT ![o] = [c EXCEPT !.ssl = s,
                                                      !.cert = IF h = "up" THEN h = "up" /\ PeerCert(conn[l].ssl) ELSE @]]
              /\ x509' = x509 + Ref(h = "up" /\ PeerCert(conn[l].ssl))
              /\ event' = (h = "failed")
        BY <2>9, <3>3 DEF AcceptSSL
      <4>2. PICK mine : mine = (h = "up" /\ PeerCert(conn[l].ssl))
        OBVIOUS
      <4> QED BY <3>2, <4>1, <4>2
    <3> QED BY <3>1, <3>3
  <2> QED BY <2>2, <2>4, <2>8, <2>9
<1> QED BY <1>1, <1>2

(* CloseConn of a connection without copies. *)
LEMMA CloseConnKeeps ==
  ASSUME Holds, NEW o \in Conns, conn[o] # NoConn, ~HasCopies(o), CloseConn(o), event' \in BOOLEAN
  PROVE  Kept
<1>1. PICK d \in Ids : d = conn[o].desc
  BY FoundHere
<1>2. PICK r : r = [conn[o] EXCEPT !.connected = FALSE, !.listening = FALSE]
  OBVIOUS
<1>3. /\ sock' = Without(sock, heap[d].fd) /\ heap' = [heap EXCEPT ![d].fd = DESCRIPTOR_NULL]
      /\ conn' = [conn EXCEPT ![o] = r] /\ ssl' = ssl /\ x509' = x509
  BY <1>1, <1>2 DEF CloseConn, Closed, Without, fd
<1>4. r \in ConnObject
  BY <1>2, FoundHere, FlagsReset
<1>5. conn' \in ConnTables /\ conn'[o] = r /\ SameBut(conn, conn', Conns, o)
  BY <1>3, <1>4, Replaced
<1>6. /\ heap' \in Heaps /\ heap'[d].fd = DESCRIPTOR_NULL /\ heap'[d].cnt = heap[d].cnt
      /\ SameBut(heap, heap', Ids, d)
  BY <1>3, FdSet
<1>7. Good(heap', conn', Without(sock, heap[d].fd), ssl, x509)
  <2>1. /\ Good(heap, conn, sock, ssl, x509) /\ o \in Conns /\ conn[o] # NoConn /\ IsLast(heap, conn[o].desc)
    BY DEF Holds, HasCopies
  <2> QED BY ONLY <1>1, <1>2, <1>5, <1>6, <2>1, Closes
<1> QED BY <1>3, <1>7 DEF Kept

LEMMA CloseKeeps ==
  ASSUME Risky = {}, Holds, NEW o \in Conns, Close(o)
  PROVE  Kept
<1>1. conn[o] # NoConn /\ ~HasCopies(o) /\ CloseConn(o) /\ event' \in BOOLEAN
  BY DEF Close
<1> QED BY <1>1, CloseConnKeeps

LEMMA ShutdownKeeps ==
  ASSUME Risky = {}, Holds, NEW o \in Conns, Shutdown(o)
  PROVE  Kept
<1>1. conn[o] # NoConn /\ ~HasCopies(o)
  BY DEF Shutdown
<1>2. CASE Reported
  BY <1>2, ReportedKeeps
<1>3. CASE event' = FALSE /\ UNCHANGED <<heap, conn, sock, ssl, x509>>
  BY <1>3, QuietKeeps
<1>4. CASE CloseConn(o) /\ event' \in BOOLEAN
  BY <1>1, <1>4, CloseConnKeeps
<1> QED BY <1>2, <1>3, <1>4 DEF Shutdown

-----------------------------------------------------------------------------
(* The invariant *)

LEMMA ConnInvInit ==
  ASSUME Init
  PROVE  ConnInv
<1>1. heap = [d \in Ids |-> Deleted] /\ conn = [o \in Conns |-> NoConn] /\ sock = [f \in Fds |-> NoSocket]
      /\ ssl = [s \in SSLs |-> FreeSSL] /\ x509 = 0 /\ event = FALSE
  BY DEF Init
<1>2. /\ Deleted \in [cnt : Nat, fd : Fds \cup {DESCRIPTOR_NULL}, fp : {DESCRIPTOR_NULL}]
      /\ Deleted.cnt = 0 /\ Deleted.fd = DESCRIPTOR_NULL
  BY DEF Deleted, NewDescriptor
<1>3. NoSocket \in SocketObject /\ NoSocket.st = "closed"
  BY DEF NoSocket, SocketObject, SocketState
<1>4. FreeSSL \in SSLObject /\ FreeSSL.st = "free" /\ ~FreeSSL.cert /\ FreeSSL.fd = DESCRIPTOR_NULL
  BY DEF FreeSSL, SSLObject, SSLState
<1>5. Typed(heap, conn, sock, ssl)
  BY <1>1, <1>2, <1>3, <1>4 DEF Typed, Heaps, ConnTables
<1>6. \A o \in Conns : conn[o] = NoConn
  BY <1>1
<1>7. Counted(heap, conn)
  <2>1. ASSUME NEW d \in Ids PROVE heap[d].cnt = Count(conn, d) /\ heap[d].fd = DESCRIPTOR_NULL
    <3>1. Own(conn, d) = {}
      BY <1>6 DEF Own
    <3> QED BY <1>1, <1>2, <3>1, FS_EmptySet DEF Count
  <2> QED BY <2>1 DEF Counted
<1>8. OneHolder(heap, sock)
  BY <1>1, <1>2, <1>3, NullIsNoFd DEF OneHolder
<1>9. SSLsHeld(conn, ssl)
  BY <1>1, <1>4, <1>6 DEF SSLsHeld
<1>10. SharedTogether(conn) /\ Members(heap, conn, sock, ssl)
  BY <1>6 DEF SharedTogether, Members
<1>11. x509 = Cardinality(Certs(conn))
  <2>1. Certs(conn) = {}
    BY <1>6 DEF Certs
  <2> QED BY <1>1, <2>1, FS_EmptySet
<1> QED BY <1>1, <1>5, <1>7, <1>8, <1>9, <1>10, <1>11 DEF ConnInv, Good

LEMMA ConnInvNext ==
  ASSUME Risky = {}, ConnInv, [Next]_vars
  PROVE  ConnInv'
<1>1. Holds /\ event \in BOOLEAN
  BY DEF ConnInv, Holds
<1>2. CASE UNCHANGED vars
  BY <1>2 DEF vars, ConnInv, Good, Typed, Counted, OneHolder, SSLsHeld, SharedTogether, Members, Member, FdOf,
              Certs, Count, Own
<1>3. CASE Next
  <2>1. ASSUME NEW f \in Fds, KernelConnects(f) PROVE Kept
    BY <1>1, <2>1, KernelConnectsKeeps
  <2>2. ASSUME NEW o \in Conns,
               \/ Construct(o) \/ Destroy(o) \/ Clear(o)
               \/ InitConn(o) \/ SetSocketBlocking(o) \/ SetSocketNonblocking(o)
        PROVE  Kept
    BY <1>1, <2>2, ConstructKeeps, DestroyKeeps, ClearKeeps, InitConnKeeps, SetSocketBlockingKeeps,
       SetSocketNonblockingKeeps
  <2>3. ASSUME NEW o \in Conns,
               \/ Connect(o) \/ SetConnected(o) \/ HandshakeInIO(o)
               \/ Bind(o) \/ Listen(o) \/ Close(o) \/ Shutdown(o)
        PROVE  Kept
    BY <1>1, <2>3, ConnectKeeps, SetConnectedKeeps, HandshakeInIOKeeps, BindKeeps, ListenKeeps, CloseKeeps,
       ShutdownKeeps
  <2>4. ASSUME NEW o \in Conns, NEW s \in Conns, CopyConstruct(o, s) \/ Assign(o, s) \/ Accept(s, o) PROVE Kept
    BY <1>1, <2>4, CopyConstructKeeps, AssignKeeps, AcceptKeeps
  <2>5. ASSUME NEW o \in Conns, NEW b \in BOOLEAN, SetFlag(o, b) \/ Socket(o, b) PROVE Kept
    BY <1>1, <2>5, SetFlagKeeps, SocketKeeps
  <2>6. Kept
    BY <1>3, <2>1, <2>2, <2>3, <2>4, <2>5 DEF Next
  <2>7. Kept => ConnInv'
    BY DEF Kept, ConnInv, Good, Typed, Counted, OneHolder, SSLsHeld, SharedTogether, Members, Member, FdOf,
           Certs, Count, Own
  <2> QED BY <2>6, <2>7
<1> QED BY <1>2, <1>3

LEMMA ConnInvAlways ==
  ASSUME Risky = {}
  PROVE  Spec => []ConnInv
<1>1. Init => ConnInv
  BY ConnInvInit
<1>2. ConnInv /\ [Next]_vars => ConnInv'
  BY ConnInvNext
<1> QED BY <1>1, <1>2, PTL DEF Spec

(* Objects, sockets and SSL objects have their types in every reachable      *)
(* state of the classes' use.                                                *)
THEOREM TypeOKHolds ==
  ASSUME Risky = {}
  PROVE  Spec => []TypeOK
<1>1. ConnInv => TypeOK
  <2> SUFFICES ASSUME ConnInv PROVE TypeOK
    OBVIOUS
  <2>1. Holds
    BY DEF ConnInv, Holds
  <2>2. heap \in [Ids -> DescriptorObject]
    BY <2>1, Types DEF Heaps, DescriptorObject
  <2> QED BY <2>1, <2>2, Types DEF TypeOK, ConnInv, ConnTables, SocketObject, SSLObject
<1> QED BY <1>1, ConnInvAlways, PTL

(* However connections are copied, assigned, cleared and destroyed, each SSL *)
(* object and each certificate that OpenSSL gave out is some connection's,   *)
(* and no connection has one that another has freed.                         *)
THEOREM SSLOwnedHolds ==
  ASSUME Risky = {}
  PROVE  Spec => []SSLOwned
<1>1. ConnInv => SSLOwned
  <2> SUFFICES ASSUME ConnInv PROVE SSLOwned
    OBVIOUS
  <2>1. Holds /\ SSLsHeld(conn, ssl) /\ x509 = Cardinality(Certs(conn))
    BY DEF ConnInv, Holds, Good
  <2>2. ASSUME NEW o \in Conns, conn[o] # NoConn PROVE conn[o].ssl \in SSLs \cup {NULL}
    BY <2>1, <2>2, FoundHere
  <2>3. {s \in SSLs : ssl[s].st # "free"} = {conn[o].ssl : o \in Constructed} \ {NULL}
    BY <2>1, <2>2, NULLAssumption DEF SSLsHeld, Constructed
  <2>4. Certs(conn) = {o \in Constructed : conn[o].cert}
    BY DEF Certs, Constructed
  <2> QED BY <2>1, <2>3, <2>4 DEF SSLOwned
<1> QED BY <1>1, ConnInvAlways, PTL

(* What says it is connected has a connected socket, and its SSL is not on a *)
(* descriptor that the kernel has given to somebody else since.              *)
THEOREM ConnectedIsOpenHolds ==
  ASSUME Risky = {}
  PROVE  Spec => []ConnectedIsOpen
<1>1. ConnInv => ConnectedIsOpen
  <2> SUFFICES ASSUME ConnInv, NEW o \in Conns, conn[o] # NoConn, conn[o].connected
               PROVE  /\ fd(o) # DESCRIPTOR_NULL /\ sock[fd(o)].st = "connected"
                      /\ conn[o].ssl # NULL => ssl[conn[o].ssl].fd \in {DESCRIPTOR_NULL, fd(o)}
    BY DEF ConnectedIsOpen, Constructed
  <2>1. Holds
    BY DEF ConnInv, Holds
  <2> QED BY <2>1, FoundHere DEF Member
<1> QED BY <1>1, ConnInvAlways, PTL

-----------------------------------------------------------------------------
(* Connections share sockets as SharedHandle says. *)

Refines == [SH!Next]_(SH!vars)

LEMMA MappedIs ==
  ASSUME Holds
  PROVE  /\ \A o \in Conns : /\ conn[o] = NoConn => HandleOf[o] = DESCRIPTOR_NULL
                             /\ conn[o] # NoConn => HandleOf[o] = conn[o].desc /\ HandleOf[o] \in Ids
                                                    /\ HandleOf[o] # DESCRIPTOR_NULL
                                                    /\ OpenIn[HandleOf[o]] = fd(o)
         /\ \A d \in Ids : OpenIn[d] = heap[d].fd
<1>1. \A d \in Ids : OpenIn[d] = heap[d].fd
  BY DEF OpenIn
<1>2. ASSUME NEW o \in Conns, conn[o] # NoConn
      PROVE  /\ HandleOf[o] = conn[o].desc /\ HandleOf[o] \in Ids
             /\ HandleOf[o] # DESCRIPTOR_NULL /\ OpenIn[HandleOf[o]] = fd(o)
  BY <1>1, <1>2, FoundHere, NullIsNoFd DEF HandleOf, fd
<1> QED BY <1>1, <1>2 DEF HandleOf

LEMMA HandleChanges ==
  ASSUME NEW o \in Conns, SameBut(conn, conn', Conns, o), NEW d, d \in Ids \cup {DESCRIPTOR_NULL},
         d = IF conn'[o] = NoConn THEN DESCRIPTOR_NULL ELSE conn'[o].desc
  PROVE  HandleOf' = [HandleOf EXCEPT ![o] = d]
BY DEF HandleOf, SameBut

LEMMA HandlesStay ==
  ASSUME \A o \in Conns : (conn'[o] = NoConn <=> conn[o] = NoConn) /\ (conn[o] # NoConn => conn'[o].desc = conn[o].desc)
  PROVE  HandleOf' = HandleOf
BY DEF HandleOf

LEMMA OpenInChanges ==
  ASSUME NEW d \in Ids, NEW f, f = heap'[d].fd, \A e \in Ids \ {d} : heap'[e].fd = heap[e].fd
  PROVE  OpenIn' = [OpenIn EXCEPT ![d] = f]
BY DEF OpenIn

LEMMA OpenInStays ==
  ASSUME \A e \in Ids : heap'[e].fd = heap[e].fd
  PROVE  OpenIn' = OpenIn
BY DEF OpenIn

(* The sockets without that of f are those that stay open. *)
LEMMA OpenWithout ==
  ASSUME NEW f, sock' = Without(sock, f)
  PROVE  Open' = Open \ {f}
BY DEF Open, Without, NoSocket

(* A Descriptor is counted once exactly if nobody else has its handle. *)
LEMMA OthersThere ==
  ASSUME Holds, NEW o \in Conns, conn[o] # NoConn
  PROVE  IsLast(heap, conn[o].desc) <=> ~\E p \in Conns \ {o} : HandleOf[p] = HandleOf[o]
<1>1. Typed(heap, conn, sock, ssl) /\ Counted(heap, conn)
  BY DEF Holds, Good
<1>2. conn[o].desc \in Ids /\ HandleOf[o] = conn[o].desc /\ HandleOf[o] # DESCRIPTOR_NULL
  BY MappedIs, FoundHere
<1>3. \A p \in Conns : HandleOf[p] = HandleOf[o] <=> conn[p] # NoConn /\ conn[p].desc = conn[o].desc
  BY <1>2, MappedIs
<1>4. ASSUME IsLast(heap, conn[o].desc) PROVE ~\E p \in Conns \ {o} : HandleOf[p] = HandleOf[o]
  <2>1. \A p \in Conns \ {o} : conn[p] # NoConn => conn[p].desc # conn[o].desc
    BY <1>1, <1>4, OwnerAlone DEF IsLast
  <2> QED BY <1>3, <2>1
<1>5. ASSUME ~\E p \in Conns \ {o} : HandleOf[p] = HandleOf[o] PROVE IsLast(heap, conn[o].desc)
  <2>1. Own(conn, conn[o].desc) = {o}
    BY <1>3, <1>5 DEF Own
  <2>2. Count(conn, conn[o].desc) = 1
    BY <2>1, FS_Singleton DEF Count
  <2> QED BY <1>1, <1>2, <2>2 DEF Counted, IsLast
<1> QED BY <1>4, <1>5

(* o lets go of its Descriptor, as the destructor, operator= and clear do;   *)
(* whatever it gets next, what is open is the same.                          *)
LEMMA LettingGo ==
  ASSUME Holds, NEW o \in Conns, conn[o] # NoConn,
         NEW h1, h1 = Dropped(heap, conn[o].desc), \A e \in Ids : heap'[e].fd = h1[e].fd,
         sock' = LastCloses(o)
  PROVE  OpenIn' = SH!Emptied(o) /\ Open' = Open \ SH!Left(o)
<1>1. PICK d \in Ids : d = conn[o].desc
  BY FoundHere
<1>2. HandleOf[o] = d /\ OpenIn[d] = fd(o) /\ fd(o) = heap[d].fd
  BY <1>1, MappedIs DEF fd
<1>3. /\ SameBut(heap, h1, Ids, d)
      /\ h1[d].fd = IF IsLast(heap, d) THEN DESCRIPTOR_NULL ELSE heap[d].fd
  <2>1. heap[d].cnt # 0
    BY <1>1, OwnerAlone DEF Holds, Good
  <2> QED BY <1>1, <2>1, Types, DroppedIs
<1>4. \A e \in Ids \ {d} : heap'[e].fd = heap[e].fd
  BY <1>3 DEF SameBut
<1>5. CASE IsLast(heap, d)
  <2>1. ~\E p \in Conns \ {o} : HandleOf[p] = HandleOf[o]
    BY <1>1, <1>5, OthersThere
  <2>2. OpenIn' = [OpenIn EXCEPT ![d] = DESCRIPTOR_NULL]
    BY <1>3, <1>4, <1>5, OpenInChanges
  <2>3. Open' = Open \ {fd(o)}
    <3>1. sock' = Without(sock, fd(o))
      BY <1>1, <1>5 DEF LastCloses, Closed, Without
    <3> QED BY <3>1, OpenWithout
  <2>4. DESCRIPTOR_NULL \notin Open
    BY NullIsNoFd DEF Open
  <2>5. SH!Emptied(o) = [OpenIn EXCEPT ![d] = DESCRIPTOR_NULL] /\ SH!Left(o) = {fd(o)} \ {DESCRIPTOR_NULL}
    BY <1>2, <2>1 DEF SH!Emptied, SH!Left
  <2> QED BY <2>2, <2>3, <2>4, <2>5
<1>6. CASE ~IsLast(heap, d)
  <2>1. \E p \in Conns \ {o} : HandleOf[p] = HandleOf[o]
    BY <1>1, <1>6, OthersThere
  <2>2. SH!Emptied(o) = OpenIn /\ SH!Left(o) = {}
    BY <2>1 DEF SH!Emptied, SH!Left
  <2>3. OpenIn' = OpenIn
    BY <1>3, <1>4, <1>6, OpenInStays
  <2>4. sock' = sock
    BY <1>1, <1>6 DEF LastCloses
  <2> QED BY <2>2, <2>3, <2>4 DEF Open
<1> QED BY <1>5, <1>6

(* Steps that change neither who has which Descriptor nor what is open. *)
LEMMA StutterRefines ==
  ASSUME HandleOf' = HandleOf, OpenIn' = OpenIn, Open' = Open
  PROVE  Refines
BY DEF Refines, SH!vars

(* A connection keeps its Descriptor. *)
Stays(o) ==
  conn' = conn \/ \E r \in ConnObject : r.desc = conn[o].desc /\ conn' = [conn EXCEPT ![o] = r]

LEMMA StaysHandles ==
  ASSUME Holds, NEW o \in Conns, conn[o] # NoConn, Stays(o)
  PROVE  HandleOf' = HandleOf
<1>1. CASE conn' = conn
  BY <1>1 DEF HandleOf
<1>2. CASE \E r \in ConnObject : r.desc = conn[o].desc /\ conn' = [conn EXCEPT ![o] = r]
  <2>1. PICK r \in ConnObject : r.desc = conn[o].desc /\ conn' = [conn EXCEPT ![o] = r]
    BY <1>2
  <2>2. conn'[o] = r /\ SameBut(conn, conn', Conns, o) /\ r # NoConn
    BY <2>1, Replaced, NoConnAssumption
  <2> QED BY <2>1, <2>2, HandlesStay DEF SameBut
<1> QED BY <1>1, <1>2 DEF Stays

LEMMA QuietRefines ==
  ASSUME Holds, NEW o \in Conns, conn[o] # NoConn, heap' = heap, Stays(o),
         \A f \in Fds : sock'[f].st = "closed" <=> sock[f].st = "closed"
  PROVE  Refines
<1>1. HandleOf' = HandleOf
  BY StaysHandles
<1>2. OpenIn' = OpenIn
  BY OpenInStays
<1>3. Open' = Open
  BY DEF Open
<1> QED BY <1>1, <1>2, <1>3, StutterRefines

LEMMA ReportedRefines ==
  ASSUME UNCHANGED <<heap, conn, sock>>
  PROVE  Refines
<1>1. HandleOf' = HandleOf /\ OpenIn' = OpenIn /\ Open' = Open
  BY DEF HandleOf, OpenIn, Open
<1> QED BY <1>1, StutterRefines

(* Setting flags keeps the Descriptor. *)
LEMMA FlagsStay ==
  ASSUME Holds, NEW o \in Conns, conn[o] # NoConn, NEW a, NEW b, a \in BOOLEAN, b \in BOOLEAN
  PROVE  /\ conn' = [conn EXCEPT ![o].family = b] => Stays(o)
         /\ conn' = [conn EXCEPT ![o].blocking = b] => Stays(o)
         /\ conn' = [conn EXCEPT ![o].listening = b] => Stays(o)
         /\ conn' = [conn EXCEPT ![o].connected = b] => Stays(o)
         /\ conn' = [conn EXCEPT ![o].connected = a, ![o].cert = b] => Stays(o)
         /\ conn' = [conn EXCEPT ![o].connected = a, ![o].listening = b] => Stays(o)
<1> DEFINE In(r) == r \in ConnObject /\ r.desc = conn[o].desc
<1>1. conn[o] \in ConnObject
  BY FoundHere
<1>2. /\ In([conn[o] EXCEPT !.family = b]) /\ In([conn[o] EXCEPT !.blocking = b])
      /\ In([conn[o] EXCEPT !.listening = b]) /\ In([conn[o] EXCEPT !.connected = b])
  BY <1>1 DEF ConnObject
<1>3. In([conn[o] EXCEPT !.connected = a, !.cert = b]) /\ In([conn[o] EXCEPT !.connected = a, !.listening = b])
  BY <1>1 DEF ConnObject
<1>4. ASSUME NEW r, In(r), conn' = [conn EXCEPT ![o] = r] PROVE Stays(o)
  BY <1>4 DEF Stays
<1> HIDE DEF In
<1>5. conn' = [conn EXCEPT ![o].family = b] => Stays(o)
  BY <1>2, <1>4
<1>6. conn' = [conn EXCEPT ![o].blocking = b] => Stays(o)
  BY <1>2, <1>4
<1>7. conn' = [conn EXCEPT ![o].listening = b] => Stays(o)
  BY <1>2, <1>4
<1>8. conn' = [conn EXCEPT ![o].connected = b] => Stays(o)
  BY <1>2, <1>4
<1>9. conn' = [conn EXCEPT ![o].connected = a, ![o].cert = b] => Stays(o)
  BY <1>3, <1>4
<1>10. conn' = [conn EXCEPT ![o].connected = a, ![o].listening = b] => Stays(o)
  BY <1>3, <1>4
<1> QED BY <1>5, <1>6, <1>7, <1>8, <1>9, <1>10

(* So does a socket that changes its state or mode. *)
LEMMA SocketStays ==
  ASSUME Holds, NEW f \in Fds, sock[f].st # "closed", NEW st \in SocketState, st # "closed"
  PROVE  /\ sock' = [sock EXCEPT ![f].st = st] => \A g \in Fds : sock'[g].st = "closed" <=> sock[g].st = "closed"
         /\ sock' = [sock EXCEPT ![f].nb = TRUE] => \A g \in Fds : sock'[g].st = "closed" <=> sock[g].st = "closed"
<1>1. sock[f] \in SocketObject
  BY Types
<1>2. [sock[f] EXCEPT !.nb = TRUE].st = sock[f].st
  BY <1>1 DEF SocketObject
<1>3. sock' = [sock EXCEPT ![f].nb = TRUE] => sock'[f].st = sock[f].st /\ SameBut(sock, sock', Fds, f)
  BY <1>2, Types DEF SameBut
<1>4. sock' = [sock EXCEPT ![f].st = st] => sock'[f].st = st /\ SameBut(sock, sock', Fds, f)
  BY StateSet
<1> QED BY <1>3, <1>4 DEF SameBut

LEMMA SetUpRefines ==
  ASSUME Risky = {}, Holds, NEW o \in Conns,
         \/ InitConn(o)
         \/ \E b \in BOOLEAN : SetFlag(o, b)
         \/ SetSocketBlocking(o)
         \/ SetSocketNonblocking(o)
         \/ SetConnected(o)
         \/ HandshakeInIO(o)
         \/ Bind(o)
  PROVE  Refines
<1>1. CASE InitConn(o)
  <2>1. PICK family \in {conn[o].family, TRUE} : conn' = [conn EXCEPT ![o].family = family]
    BY <1>1 DEF InitConn
  <2>2. conn[o] # NoConn /\ heap' = heap /\ sock' = sock
    BY <1>1 DEF InitConn
  <2>3. family \in BOOLEAN
    BY <2>2, FoundHere DEF ConnObject
  <2> QED BY <2>1, <2>2, <2>3, FlagsStay, QuietRefines
<1>2. CASE \E b \in BOOLEAN : SetFlag(o, b)
  <2>1. PICK b \in BOOLEAN : conn' = [conn EXCEPT ![o].blocking = b]
    BY <1>2 DEF SetFlag
  <2>2. conn[o] # NoConn /\ heap' = heap /\ sock' = sock
    BY <1>2 DEF SetFlag
  <2> QED BY <2>1, <2>2, FlagsStay, QuietRefines
<1>3. CASE SetSocketBlocking(o) \/ SetSocketNonblocking(o)
  <2>1. CASE Reported
    BY <2>1, ReportedRefines DEF Reported
  <2>2. CASE ~Reported
    <3>1. /\ conn[o] # NoConn /\ fd(o) # DESCRIPTOR_NULL /\ heap' = heap
          /\ sock' = [sock EXCEPT ![fd(o)].nb = TRUE] \/ sock' = sock
          /\ conn' = [conn EXCEPT ![o].blocking = TRUE] \/ conn' = [conn EXCEPT ![o].blocking = FALSE]
      BY <1>3, <2>2 DEF SetSocketBlocking, SetSocketNonblocking
    <3>2. fd(o) \in Fds /\ sock[fd(o)] \in SocketObject
      BY <3>1, FoundHere, Types
    <3>3. Stays(o)
      BY <3>1, FlagsStay
    <3>4. \A g \in Fds : sock'[g].st = "closed" <=> sock[g].st = "closed"
      <4>1. [sock[fd(o)] EXCEPT !.nb = TRUE].st = sock[fd(o)].st
        BY <3>2 DEF SocketObject
      <4> QED BY <3>1, <3>2, <4>1, Types
    <3> QED BY <3>1, <3>3, <3>4, QuietRefines
  <2> QED BY <2>1, <2>2
<1>4. CASE SetConnected(o)
  <2>1. conn[o] # NoConn /\ heap' = heap /\ sock' = sock /\ conn' = [conn EXCEPT ![o].connected = TRUE]
    BY <1>4 DEF SetConnected
  <2> QED BY <2>1, FlagsStay, QuietRefines
<1>5. CASE HandshakeInIO(o) \/ Bind(o)
  BY <1>5, ReportedRefines DEF HandshakeInIO, Bind
<1> QED BY <1>1, <1>2, <1>3, <1>4, <1>5

LEMMA KernelRefines ==
  ASSUME Holds, NEW f \in Fds, KernelConnects(f)
  PROVE  Refines
<1>1. PICK st \in {"connected", "new"} : sock' = [sock EXCEPT ![f].st = st]
  BY DEF KernelConnects
<1>2. sock[f].st = "connecting" /\ heap' = heap /\ conn' = conn /\ st \in SocketState /\ st # "closed"
  BY DEF KernelConnects, SocketState
<1>3. Open' = Open
  BY <1>1, <1>2, SocketStays DEF Open
<1>4. HandleOf' = HandleOf /\ OpenIn' = OpenIn
  BY <1>2 DEF HandleOf, OpenIn
<1> QED BY <1>3, <1>4, StutterRefines

LEMMA ConnectRefines ==
  ASSUME Holds, NEW o \in Conns, Connect(o) \/ Listen(o)
  PROVE  Refines
<1>1. CASE Reported
  BY <1>1, ReportedRefines DEF Reported
<1>2. CASE ~Reported
  <2>1. /\ conn[o] # NoConn /\ fd(o) # DESCRIPTOR_NULL /\ heap' = heap
        /\ \E st \in {"connecting", "connected", "listening"} : sock' = [sock EXCEPT ![fd(o)].st = st]
    BY <1>2 DEF Connect, Listen
  <2>2. PICK st \in {"connecting", "connected", "listening"} : sock' = [sock EXCEPT ![fd(o)].st = st]
    BY <2>1
  <2>3. /\ conn[o].connected \in BOOLEAN /\ conn[o].cert \in BOOLEAN
        /\ fd(o) \in Fds /\ sock[fd(o)].st # "closed" /\ st \in SocketState /\ st # "closed"
    BY <2>1, FoundHere DEF ConnObject, SocketState
  <2>4. \A g \in Fds : sock'[g].st = "closed" <=> sock[g].st = "closed"
    BY <2>2, <2>3, SocketStays
  <2>5. CASE Listen(o)
    <3>1. conn' = [conn EXCEPT ![o].listening = TRUE]
      BY <1>2, <2>5 DEF Listen
    <3> QED BY <2>1, <2>4, <3>1, FlagsStay, QuietRefines
  <2>6. CASE Connect(o)
    <3>1. \/ conn' = conn
          \/ \E s \in {"connecting", "connected"} : conn' = [conn EXCEPT ![o].connected = @ \/ s = "connected"]
          \/ \E s \in {"connecting", "connected"} : ConnectSSL(o, s)
      BY <1>2, <2>6 DEF Connect
    <3>2. CASE conn' = conn
      BY <2>1, <2>4, <3>2, QuietRefines DEF Stays
    <3>3. ASSUME NEW s, conn' = [conn EXCEPT ![o].connected = @ \/ s = "connected"] PROVE Refines
      <4>1. PICK b : b = (conn[o].connected \/ s = "connected")
        OBVIOUS
      <4>2. b \in BOOLEAN /\ conn' = [conn EXCEPT ![o].connected = b]
        BY <3>3, <4>1
      <4> QED BY <2>1, <2>4, <4>2, FlagsStay, QuietRefines
    <3>4. ASSUME NEW s, ConnectSSL(o, s) PROVE Refines
      <4>1. PICK h \in Handshakes(s, sock[fd(o)].nb), cert \in BOOLEAN :
              conn' = [conn EXCEPT ![o].connected = @ \/ s = "connected",
                                   ![o].cert = IF h = "up" THEN cert ELSE @]
        BY <3>4 DEF ConnectSSL
      <4>2. PICK a : a = (conn[o].connected \/ s = "connected")
        OBVIOUS
      <4>3. PICK b : b = IF h = "up" THEN cert ELSE conn[o].cert
        OBVIOUS
      <4>4. a \in BOOLEAN /\ b \in BOOLEAN /\ conn' = [conn EXCEPT ![o].connected = a, ![o].cert = b]
        BY <2>3, <4>1, <4>2, <4>3
      <4> QED BY <2>1, <2>4, <4>4, FlagsStay, QuietRefines
    <3> QED BY <3>1, <3>2, <3>3, <3>4
  <2> QED BY <2>5, <2>6
<1> QED BY <1>1, <1>2

(* o gets a Descriptor of its own. *)
LEMMA NewHandle ==
  ASSUME NEW o \in Conns, NEW d \in Ids, conn' = [conn EXCEPT ![o] = NewConn(d)], conn \in ConnTables
  PROVE  HandleOf' = [HandleOf EXCEPT ![o] = d]
<1>1. NewConn(d) # NoConn /\ NewConn(d).desc = d
  <2>1. NewConn(d) \in ConnObject /\ NewConn(d).desc = d
    BY DEF NewConn, ConnObject
  <2> QED BY <2>1, NoConnAssumption
<1>2. conn'[o] # NoConn /\ conn'[o].desc = d /\ SameBut(conn, conn', Conns, o)
  BY <1>1 DEF ConnTables, SameBut
<1> QED BY <1>2, HandleChanges

LEMMA ConstructRefines ==
  ASSUME Holds, NEW o \in Conns, Construct(o)
  PROVE  Refines
<1>1. PICK d \in Unused(heap) :
        heap' = [heap EXCEPT ![d] = NewDescriptor] /\ conn' = [conn EXCEPT ![o] = NewConn(d)]
  BY DEF Construct
<1>2. conn[o] = NoConn /\ sock' = sock
  BY DEF Construct
<1>3. d \in Ids /\ heap[d].cnt = 0 /\ heap[d].fd = DESCRIPTOR_NULL
  BY Types DEF Unused, Counted
<1>4. OpenIn' = OpenIn
  <2>1. NewDescriptor.fd = DESCRIPTOR_NULL
    BY DEF NewDescriptor
  <2>2. \A e \in Ids : heap'[e].fd = heap[e].fd
    BY <1>1, <1>3, <2>1, Types DEF Heaps
  <2> QED BY <2>2, OpenInStays
<1>5. HandleOf' = [HandleOf EXCEPT ![o] = d]
  BY <1>1, <1>3, Types, NewHandle
<1>6. HandleOf[o] = DESCRIPTOR_NULL
  BY <1>2, MappedIs
<1>7. ~SH!Owned(d)
  <2>1. ASSUME NEW p \in Conns, HandleOf[p] = d PROVE FALSE
    <3>1. conn[p] # NoConn /\ conn[p].desc = d
      BY <1>3, <2>1, MappedIs, NullIsNoFd
    <3> QED BY <1>3, <3>1, OwnerAlone DEF Holds, Good
  <2> QED BY <2>1 DEF SH!Owned
<1>8. SH!Create(o)
  BY <1>2, <1>3, <1>4, <1>5, <1>6, <1>7 DEF SH!Create, Open
<1> QED BY <1>8 DEF Refines, SH!Next

LEMMA SharedFds ==
  ASSUME NEW h \in Heaps, NEW d \in Ids
  PROVE  \A e \in Ids : Shared(h, d)[e].fd = h[e].fd
<1>1. CASE h[d].cnt = 0
  BY <1>1 DEF Shared
<1>2. CASE h[d].cnt # 0
  BY <1>2, SharedIs DEF SameBut
<1> QED BY <1>1, <1>2

LEMMA CopyConstructRefines ==
  ASSUME Holds, NEW o \in Conns, NEW p \in Conns, CopyConstruct(o, p)
  PROVE  Refines
<1> DEFINE cert == PeerCert(conn[p].ssl)
<1>1. /\ conn[o] = NoConn /\ conn[p] # NoConn /\ sock' = sock
      /\ conn' = [conn EXCEPT ![o] = [conn[p] EXCEPT !.cert = cert]]
      /\ heap' = Shared(heap, conn[p].desc)
  BY DEF CopyConstruct
<1>2. conn[p] \in ConnObject /\ conn[p].desc \in Ids /\ cert \in BOOLEAN
  BY <1>1, FoundHere, CertIsBoolean DEF PeerCert
<1> HIDE DEF cert
<1>3. OpenIn' = OpenIn
  BY <1>1, <1>2, Types, SharedFds, OpenInStays
<1>4. HandleOf' = [HandleOf EXCEPT ![o] = conn[p].desc]
  <2>1. PICK r : r = [conn[p] EXCEPT !.cert = cert]
    OBVIOUS
  <2>2. r \in ConnObject /\ r.desc = conn[p].desc /\ r # NoConn
    BY <1>2, <2>1, NoConnAssumption DEF ConnObject
  <2>3. conn'[o] = r /\ SameBut(conn, conn', Conns, o)
    BY <1>1, <2>1, <2>2, Replaced
  <2> QED BY <1>2, <2>2, <2>3, HandleChanges
<1>5. HandleOf[o] = DESCRIPTOR_NULL /\ HandleOf[p] = conn[p].desc /\ HandleOf[p] # DESCRIPTOR_NULL
  BY <1>1, MappedIs
<1>6. SH!Copy(o, p)
  BY <1>1, <1>3, <1>4, <1>5 DEF SH!Copy, Open
<1> QED BY <1>6 DEF Refines, SH!Next

LEMMA DroppedHeap ==
  ASSUME Holds, NEW o \in Conns, conn[o] # NoConn
  PROVE  Dropped(heap, conn[o].desc) \in Heaps
<1>1. conn[o].desc \in Ids /\ heap[conn[o].desc].cnt # 0
  BY FoundHere, OwnerAlone DEF Holds, Good
<1> QED BY <1>1, Types, DroppedIs

(* An assignment between objects that share already is nothing at all. *)
LEMMA AssignRefines ==
  ASSUME Risky = {}, Holds, NEW o \in Conns, NEW p \in Conns, Assign(o, p)
  PROVE  Refines
<1> DEFINE cert == conn[p].ssl # NULL /\ ssl'[conn[p].ssl].cert
<1>1. /\ conn[o] # NoConn /\ conn[p] # NoConn /\ o # p /\ sock' = LastCloses(o)
      /\ heap' = Shared(Dropped(heap, conn[o].desc), conn[p].desc)
      /\ conn' = [conn EXCEPT ![o] = [conn[p] EXCEPT !.cert = cert]]
      /\ ssl' = LastFrees(o)
  BY DEF Assign
<1>2. conn[p] \in ConnObject /\ conn[p].desc \in Ids /\ conn[p].ssl \in SSLs \cup {NULL}
  BY <1>1, FoundHere
<1>3. cert \in BOOLEAN
  <2>1. ssl' \in [SSLs -> SSLObject]
    <3>1. Good(Dropped(heap, conn[o].desc), [conn EXCEPT ![o] = NoConn], LastCloses(o), LastFrees(o),
               x509 - Ref(conn[o].cert))
      BY <1>1, LetsGo
    <3> QED BY <1>1, <3>1 DEF Good, Typed
  <2> QED BY <1>2, <2>1 DEF SSLObject
<1> HIDE DEF cert
<1>4. OpenIn' = SH!Emptied(o) /\ Open' = Open \ SH!Left(o)
  <2>1. PICK h1 : h1 = Dropped(heap, conn[o].desc)
    OBVIOUS
  <2>2. \A e \in Ids : heap'[e].fd = h1[e].fd
    BY <1>1, <1>2, <2>1, DroppedHeap, SharedFds
  <2> QED BY <1>1, <2>1, <2>2, LettingGo
<1>5. HandleOf' = [HandleOf EXCEPT ![o] = conn[p].desc]
  <2>1. PICK r : r = [conn[p] EXCEPT !.cert = cert]
    OBVIOUS
  <2>2. r \in ConnObject /\ r.desc = conn[p].desc /\ r # NoConn
    BY <1>2, <1>3, <2>1, NoConnAssumption DEF ConnObject
  <2>3. conn'[o] = r /\ SameBut(conn, conn', Conns, o)
    BY <1>1, <2>1, <2>2, Replaced
  <2> QED BY <1>2, <2>2, <2>3, HandleChanges
<1>6. HandleOf[o] # DESCRIPTOR_NULL /\ HandleOf[p] = conn[p].desc /\ HandleOf[p] # DESCRIPTOR_NULL
  BY <1>1, MappedIs
<1>7. CASE HandleOf[o] # HandleOf[p]
  <2>1. SH!Assign(o, p)
    BY <1>4, <1>5, <1>6, <1>7 DEF SH!Assign
  <2> QED BY <2>1 DEF Refines, SH!Next
<1>8. CASE HandleOf[o] = HandleOf[p]
  <2>1. \E q \in Conns \ {o} : HandleOf[q] = HandleOf[o]
    BY <1>1, <1>8
  <2>2. OpenIn' = OpenIn /\ Open' = Open
    BY <1>4, <2>1 DEF SH!Emptied, SH!Left
  <2>3. HandleOf' = HandleOf
    BY <1>5, <1>6, <1>8 DEF HandleOf
  <2> QED BY <2>2, <2>3, StutterRefines
<1> QED BY <1>7, <1>8

LEMMA DestroyRefines ==
  ASSUME Holds, NEW o \in Conns, Destroy(o)
  PROVE  Refines
<1>1. /\ conn[o] # NoConn /\ sock' = LastCloses(o) /\ heap' = Dropped(heap, conn[o].desc)
      /\ conn' = [conn EXCEPT ![o] = NoConn]
  BY DEF Destroy
<1>2. OpenIn' = SH!Emptied(o) /\ Open' = Open \ SH!Left(o)
  BY <1>1, LettingGo
<1>3. HandleOf' = [HandleOf EXCEPT ![o] = DESCRIPTOR_NULL]
  <2>1. conn'[o] = NoConn /\ SameBut(conn, conn', Conns, o)
    BY <1>1, Types DEF ConnTables, SameBut
  <2> QED BY <2>1, HandleChanges
<1>4. HandleOf[o] # DESCRIPTOR_NULL
  BY <1>1, MappedIs
<1>5. SH!Drop(o)
  BY <1>2, <1>3, <1>4 DEF SH!Drop
<1> QED BY <1>5 DEF Refines, SH!Next

LEMMA ClearRefines ==
  ASSUME Holds, NEW o \in Conns, Clear(o)
  PROVE  Refines
<1>1. PICK h1 : h1 = Dropped(heap, conn[o].desc)
  OBVIOUS
<1>2. PICK d \in Unused(h1) : heap' = [h1 EXCEPT ![d] = NewDescriptor] /\ conn' = [conn EXCEPT ![o] = NewConn(d)]
  BY <1>1 DEF Clear
<1>3. conn[o] # NoConn /\ sock' = LastCloses(o)
  BY DEF Clear
<1>4. PICK c1 : c1 = [conn EXCEPT ![o] = NoConn]
  OBVIOUS
<1>5. Good(h1, c1, LastCloses(o), LastFrees(o), x509 - Ref(conn[o].cert))
  BY <1>1, <1>3, <1>4, LetsGo
<1>6. d \in Ids /\ h1[d].cnt = 0 /\ h1 \in Heaps /\ h1[d].fd = DESCRIPTOR_NULL /\ Count(c1, d) = 0
  BY <1>5 DEF Unused, Good, Typed, Counted
<1>7. OpenIn' = SH!Emptied(o) /\ Open' = Open \ SH!Left(o)
  <2>1. NewDescriptor.fd = DESCRIPTOR_NULL
    BY DEF NewDescriptor
  <2>2. \A e \in Ids : heap'[e].fd = h1[e].fd
    BY <1>2, <1>6, <2>1 DEF Heaps
  <2> QED BY <1>1, <1>3, <2>2, LettingGo
<1>8. HandleOf' = [HandleOf EXCEPT ![o] = d]
  BY <1>2, <1>6, Types, NewHandle
<1>9. HandleOf[o] # DESCRIPTOR_NULL
  BY <1>3, MappedIs
<1>10. ASSUME NEW p \in Conns \ {o}, HandleOf[p] = d PROVE FALSE
  <2>1. conn[p] # NoConn /\ conn[p].desc = d
    BY <1>6, <1>10, MappedIs, NullIsNoFd
  <2>2. c1[p] = conn[p]
    BY <1>4, Types DEF ConnTables
  <2>3. p \in Own(c1, d)
    BY <2>1, <2>2 DEF Own
  <2> QED BY <1>6, <2>3, OwnerCounted
<1>11. SH!Renew(o)
  BY <1>6, <1>7, <1>8, <1>9, <1>10 DEF SH!Renew
<1> QED BY <1>11 DEF Refines, SH!Next

(* Socket and Accept open a new socket for o. *)
LEMMA OpeningRefines ==
  ASSUME Holds, NEW o \in Conns, conn[o] # NoConn, fd(o) = DESCRIPTOR_NULL, Stays(o),
         NEW f \in Fds \ Open, NEW v, v.st # "closed", sock' = [sock EXCEPT ![f] = v],
         heap' = [heap EXCEPT ![conn[o].desc].fd = f]
  PROVE  Refines
<1>1. PICK d \in Ids : d = conn[o].desc
  BY FoundHere
<1>2. HandleOf[o] = d /\ d # DESCRIPTOR_NULL /\ OpenIn[d] = DESCRIPTOR_NULL
  BY <1>1, MappedIs
<1>3. heap'[d].fd = f /\ SameBut(heap, heap', Ids, d)
  <2>1. heap' = [heap EXCEPT ![d].fd = f] /\ f \in Fds
    BY <1>1
  <2> QED BY <2>1, FdSet
<1>4. OpenIn' = [OpenIn EXCEPT ![d] = f]
  BY ONLY <1>3, d \in Ids, OpenInChanges DEF SameBut
<1>5. Open' = Open \cup {f}
  BY Types DEF Open
<1>6. HandleOf' = HandleOf
  BY StaysHandles
<1>7. SH!Open(o, f)
  BY <1>2, <1>4, <1>5, <1>6 DEF SH!Open
<1> QED BY <1>7 DEF Refines, SH!Next

LEMMA SocketRefines ==
  ASSUME Risky = {}, Holds, NEW o \in Conns, NEW withSSL \in BOOLEAN, Socket(o, withSSL)
  PROVE  Refines
<1>1. conn[o] # NoConn /\ fd(o) = DESCRIPTOR_NULL
  BY DEF Socket, MayOpen
<1>2. CASE heap' = [heap EXCEPT ![conn[o].desc].fd = DESCRIPTOR_NULL] /\ UNCHANGED <<conn, sock>>
  <2>1. PICK d \in Ids : d = conn[o].desc
    BY <1>1, FoundHere
  <2>2. heap[d].fd = DESCRIPTOR_NULL
    BY <1>1, <2>1 DEF fd
  <2>3. [heap[d] EXCEPT !.fd = DESCRIPTOR_NULL].fd = DESCRIPTOR_NULL
    BY <2>1, Types DEF Heaps
  <2>4. \A e \in Ids : heap'[e].fd = heap[e].fd
    BY <1>2, <2>1, <2>2, <2>3, Types DEF Heaps
  <2>5. OpenIn' = OpenIn /\ HandleOf' = HandleOf /\ Open' = Open
    BY <1>2, <2>4, OpenInStays DEF HandleOf, Open
  <2> QED BY <2>5, StutterRefines
<1>3. CASE \E f \in Fds \ Open :
             /\ heap' = [heap EXCEPT ![conn[o].desc].fd = f]
             /\ sock' = [sock EXCEPT ![f] = [st |-> "new", nb |-> ~conn[o].blocking]]
             /\ conn' = conn \/ \E s \in SSLs \cup {NULL} : conn' = [conn EXCEPT ![o].ssl = s]
  <2>1. PICK f \in Fds \ Open :
             /\ heap' = [heap EXCEPT ![conn[o].desc].fd = f]
             /\ sock' = [sock EXCEPT ![f] = [st |-> "new", nb |-> ~conn[o].blocking]]
             /\ conn' = conn \/ \E s \in SSLs \cup {NULL} : conn' = [conn EXCEPT ![o].ssl = s]
    BY <1>3
  <2>2. PICK v : v = [st |-> "new", nb |-> ~conn[o].blocking]
    OBVIOUS
  <2>3. Stays(o)
    <3>1. CASE conn' = conn
      BY <3>1 DEF Stays
    <3>2. ASSUME NEW s \in SSLs \cup {NULL}, conn' = [conn EXCEPT ![o].ssl = s] PROVE Stays(o)
      <4>1. PICK r : r = [conn[o] EXCEPT !.ssl = s]
        OBVIOUS
      <4>2. r \in ConnObject /\ r.desc = conn[o].desc
        BY <1>1, <4>1, FoundHere DEF ConnObject
      <4>3. conn' = [conn EXCEPT ![o] = r]
        BY <3>2, <4>1
      <4> QED BY <4>2, <4>3 DEF Stays
    <3> QED BY <2>1, <3>1, <3>2
  <2>4. v.st # "closed" /\ sock' = [sock EXCEPT ![f] = v]
    BY <2>1, <2>2
  <2>5. heap' = [heap EXCEPT ![conn[o].desc].fd = f]
    BY <2>1
  <2> QED BY ONLY <1>1, <2>3, <2>4, <2>5, Holds, o \in Conns, f \in Fds \ Open, OpeningRefines
<1>4. \/ heap' = [heap EXCEPT ![conn[o].desc].fd = DESCRIPTOR_NULL] /\ UNCHANGED <<conn, sock>>
      \/ \E f \in Fds \ Open :
             /\ heap' = [heap EXCEPT ![conn[o].desc].fd = f]
             /\ sock' = [sock EXCEPT ![f] = [st |-> "new", nb |-> ~conn[o].blocking]]
             /\ conn' = conn \/ \E s \in SSLs \cup {NULL} : conn' = [conn EXCEPT ![o].ssl = s]
  BY DEF Socket
<1> QED BY <1>2, <1>3, <1>4

LEMMA AcceptRefines ==
  ASSUME Risky = {}, Holds, NEW l \in Conns, NEW o \in Conns, Accept(l, o)
  PROVE  Refines
<1>1. CASE Reported
  BY <1>1, ReportedRefines DEF Reported
<1>2. CASE ~Reported
  <2>1. /\ conn[l] # NoConn /\ conn[o] # NoConn /\ MayOpen(o) /\ fd(o) = DESCRIPTOR_NULL
        /\ conn[o].blocking \/ ~conn[l].blocking
        /\ fd(l) # DESCRIPTOR_NULL
    BY <1>2 DEF Accept, MayOpen
  <2>2. PICK f \in Fds \ Open, nb \in {FALSE, sock[fd(l)].nb} :
          /\ sock' = [sock EXCEPT ![f] = [st |-> "connected", nb |-> nb]]
          /\ heap' = [heap EXCEPT ![conn[o].desc].fd = f]
          /\ conn' = [conn EXCEPT ![o] = Client(l, o)] \/ AcceptSSL(l, o, Client(l, o), f)
    BY <1>2 DEF Accept, Client
  <2>3. PICK v : v = [st |-> "connected", nb |-> nb]
    OBVIOUS
  <2>4. PICK c : c = Client(l, o)
    OBVIOUS
  <2>5. c \in ConnObject /\ c.desc = conn[o].desc
    BY <2>1, <2>4, ClientIs
  <2>6. Stays(o)
    <3>1. CASE conn' = [conn EXCEPT ![o] = c]
      BY <2>5, <3>1 DEF Stays
    <3>2. CASE AcceptSSL(l, o, c, f)
      <4>1. \/ conn' = [conn EXCEPT ![o] = [c EXCEPT !.ssl = NULL]]
            \/ \E s \in SSLs, h \in {"up", "failed"} :
                 conn' = [conn EXCEPT ![o] = [c EXCEPT !.ssl = s,
                                                       !.cert = IF h = "up" THEN h = "up" /\ PeerCert(conn[l].ssl) ELSE @]]
        BY <3>2 DEF AcceptSSL
      <4>2. CASE conn' = [conn EXCEPT ![o] = [c EXCEPT !.ssl = NULL]]
        <5>1. PICK r : r = [c EXCEPT !.ssl = NULL]
          OBVIOUS
        <5>2. r \in ConnObject /\ r.desc = conn[o].desc
          BY <2>5, <5>1 DEF ConnObject
        <5> QED BY <4>2, <5>1, <5>2 DEF Stays
      <4>3. ASSUME NEW s \in SSLs, NEW h,
                   conn' = [conn EXCEPT ![o] = [c EXCEPT !.ssl = s,
                                                         !.cert = IF h = "up" THEN h = "up" /\ PeerCert(conn[l].ssl) ELSE @]]
            PROVE  Stays(o)
        <5>1. PICK b : b = IF h = "up" THEN h = "up" /\ PeerCert(conn[l].ssl) ELSE c.cert
          OBVIOUS
        <5>2. b \in BOOLEAN
          <6>1. c.cert \in BOOLEAN
            BY <2>5 DEF ConnObject
          <6>2. (h = "up" /\ PeerCert(conn[l].ssl)) \in BOOLEAN
            OBVIOUS
          <6> QED BY <5>1, <6>1, <6>2
        <5>3. PICK r : r = [c EXCEPT !.ssl = s, !.cert = b]
          OBVIOUS
        <5>4. r \in ConnObject /\ r.desc = conn[o].desc
          BY <2>5, <5>2, <5>3 DEF ConnObject
        <5>5. conn' = [conn EXCEPT ![o] = r]
          BY <4>3, <5>1, <5>3
        <5> QED BY <5>4, <5>5 DEF Stays
      <4> QED BY <4>1, <4>2, <4>3
    <3> QED BY <2>2, <2>4, <3>1, <3>2
  <2>7. v.st # "closed" /\ sock' = [sock EXCEPT ![f] = v]
    BY <2>2, <2>3
  <2> QED BY <2>1, <2>2, <2>6, <2>7, OpeningRefines
<1> QED BY <1>1, <1>2

(* Closing what is not open is nothing at all. *)
LEMMA CloseConnRefines ==
  ASSUME Holds, NEW o \in Conns, conn[o] # NoConn, CloseConn(o)
  PROVE  Refines
<1>1. PICK d \in Ids : d = conn[o].desc
  BY FoundHere
<1>2. HandleOf[o] = d /\ d # DESCRIPTOR_NULL /\ OpenIn[d] = fd(o) /\ heap[d].fd = fd(o)
  BY <1>1, MappedIs DEF fd
<1>3. OpenIn' = [OpenIn EXCEPT ![d] = DESCRIPTOR_NULL]
  <2>1. heap' = [heap EXCEPT ![d].fd = DESCRIPTOR_NULL]
    BY <1>1 DEF CloseConn
  <2>2. [heap[d] EXCEPT !.fd = DESCRIPTOR_NULL].fd = DESCRIPTOR_NULL
    BY Types DEF Heaps
  <2>3. heap'[d].fd = DESCRIPTOR_NULL /\ \A e \in Ids \ {d} : heap'[e].fd = heap[e].fd
    BY <2>1, <2>2, Types DEF Heaps
  <2> QED BY <2>3, OpenInChanges
<1>4. Open' = Open \ {fd(o)}
  <2>1. sock' = Without(sock, fd(o))
    BY DEF CloseConn, Closed, Without
  <2> QED BY <2>1, OpenWithout
<1>5. HandleOf' = HandleOf
  <2>1. Stays(o)
    BY FlagsStay DEF CloseConn
  <2> QED BY <2>1, StaysHandles
<1>6. CASE fd(o) = DESCRIPTOR_NULL
  <2>1. OpenIn' = OpenIn
    BY <1>2, <1>3, <1>6 DEF OpenIn
  <2>2. Open' = Open
    BY <1>4, <1>6, NullIsNoFd DEF Open
  <2> QED BY <1>5, <2>1, <2>2, StutterRefines
<1>7. CASE fd(o) # DESCRIPTOR_NULL
  <2>1. SH!Close(o)
    BY <1>2, <1>3, <1>4, <1>5, <1>7 DEF SH!Close
  <2> QED BY <2>1 DEF Refines, SH!Next
<1> QED BY <1>6, <1>7

LEMMA ClosingRefines ==
  ASSUME Holds, NEW o \in Conns, Close(o) \/ Shutdown(o)
  PROVE  Refines
<1>1. conn[o] # NoConn
  BY DEF Close, Shutdown
<1>2. CASE CloseConn(o)
  BY <1>1, <1>2, CloseConnRefines
<1>3. CASE UNCHANGED <<heap, conn, sock>>
  BY <1>3, ReportedRefines
<1> QED BY <1>2, <1>3 DEF Close, Shutdown, Reported

LEMMA NextRefines ==
  ASSUME Risky = {}, ConnInv, [Next]_vars
  PROVE  Refines
<1>1. Holds
  BY DEF ConnInv, Holds
<1>2. CASE UNCHANGED vars
  BY <1>2, ReportedRefines DEF vars
<1>3. CASE Next
  <2>1. ASSUME NEW f \in Fds, KernelConnects(f) PROVE Refines
    BY <1>1, <2>1, KernelRefines
  <2>2. ASSUME NEW o \in Conns, Construct(o) \/ Destroy(o) \/ Clear(o) PROVE Refines
    BY <1>1, <2>2, ConstructRefines, DestroyRefines, ClearRefines
  <2>3. ASSUME NEW o \in Conns,
               \/ InitConn(o) \/ SetSocketBlocking(o) \/ SetSocketNonblocking(o)
               \/ SetConnected(o) \/ HandshakeInIO(o) \/ Bind(o)
        PROVE  Refines
    BY <1>1, <2>3, SetUpRefines
  <2>4. ASSUME NEW o \in Conns, Connect(o) \/ Listen(o) PROVE Refines
    BY <1>1, <2>4, ConnectRefines
  <2>5. ASSUME NEW o \in Conns, Close(o) \/ Shutdown(o) PROVE Refines
    BY <1>1, <2>5, ClosingRefines
  <2>6. ASSUME NEW o \in Conns, NEW s \in Conns, CopyConstruct(o, s) \/ Assign(o, s) \/ Accept(s, o) PROVE Refines
    BY <1>1, <2>6, CopyConstructRefines, AssignRefines, AcceptRefines
  <2>7. ASSUME NEW o \in Conns, NEW b \in BOOLEAN, SetFlag(o, b) PROVE Refines
    BY <1>1, <2>7, SetUpRefines
  <2>8. ASSUME NEW o \in Conns, NEW b \in BOOLEAN, Socket(o, b) PROVE Refines
    BY <1>1, <2>8, SocketRefines
  <2> QED BY <1>3, <2>1, <2>2, <2>3, <2>4, <2>5, <2>6, <2>7, <2>8 DEF Next
<1> QED BY <1>2, <1>3

(* Whatever is done with connections and their copies, which of them share a *)
(* socket, which sockets are open, and when each is closed is as             *)
(* SharedHandle says, which has no counts: at its last owner's end or a      *)
(* Close, and not before.                                                    *)
THEOREM ImplementsSharedHandleHolds ==
  ASSUME Risky = {}
  PROVE  Spec => ImplementsSharedHandle
<1>1. Init => SH!Init
  <2> SUFFICES ASSUME Init PROVE SH!Init
    OBVIOUS
  <2>1. HandleOf = [o \in Conns |-> DESCRIPTOR_NULL]
    BY DEF Init, HandleOf
  <2>2. OpenIn = [d \in Ids |-> DESCRIPTOR_NULL]
    BY DEF Init, OpenIn, Deleted, NewDescriptor
  <2>3. Open = {}
    BY DEF Init, Open, NoSocket
  <2> QED BY <2>1, <2>2, <2>3 DEF SH!Init
<1>2. ConnInv /\ [Next]_vars => [SH!Next]_(SH!vars)
  BY NextRefines DEF Refines
<1>3. Spec => []ConnInv
  BY ConnInvAlways
<1>4. Spec => Init /\ [][Next]_vars
  BY DEF Spec
<1>5. Spec => SH!Spec
  BY <1>1, <1>2, <1>3, <1>4, PTL DEF SH!Spec
<1> QED BY <1>5 DEF ImplementsSharedHandle
=============================================================================

------------------------------ MODULE SSLConn -------------------------------
(* The life of connections: SSLConn on TCPConn on IPComm.  Objects are       *)
(* copied, assigned, cleared and destroyed while they share a socket through *)
(* a Descriptor; an SSLConn also has an SSL* and a certificate of its peer.  *)
EXTENDS Descriptor, FiniteSets

CONSTANTS
  Conns,          \* the places where an SSLConn may be constructed
  NoConn,         \* nothing is constructed there
  SSLs,           \* addresses of OpenSSL connection objects
  NULL,           \* no SSL*
  Risky           \* uses of the classes that they do not provide for

(* The uses that Risky may hold:                                             *)
(*   self          an object is assigned to itself                           *)
(*   again         Socket or Accept of an object whose SSL of an earlier     *)
(*                 connection is still there                                 *)
(*   reopen        Socket or Accept of an object whose socket is open        *)
(*   copied_first  Socket or Accept makes an SSL for an object with copies   *)
(*   late_flag     the blocking flag is set without the socket, or while     *)
(*                 copies of the object exist                                *)
(*   close_copied  Close or Shutdown of an object with copies                *)
Risks == {"self", "again", "reopen", "copied_first", "late_flag", "close_copied"}

ASSUME RiskyAssumption == Risky \subseteq Risks
ASSUME NULLAssumption == NULL \notin SSLs
ASSUME ConnsAssumption == IsFiniteSet(Conns)
ASSUME IdsAssumption == DESCRIPTOR_NULL \notin Ids

VARIABLES
  heap,           \* the Descriptor objects by address
  conn,           \* the data members of each object
  sock,           \* the kernel's sockets by descriptor
  ssl,            \* the SSL objects
  x509,           \* references to certificates that were taken and not freed
  event           \* whether the last call left an event in error

vars == <<heap, conn, sock, ssl, x509, event>>

(* Sockets, as far as the kernel distinguishes them here. *)
SocketState == {"closed", "new", "connecting", "connected", "listening"}
NoSocket == [st |-> "closed", nb |-> FALSE]

(* An SSL object is new until SSL_connect or SSL_accept, and then what they  *)
(* came to; cert is whether the peer sent a certificate.                     *)
SSLState == {"free", "new", "want", "failed", "up"}
FreeSSL == [st |-> "free", fd |-> DESCRIPTOR_NULL, cert |-> FALSE]

ConnObject == [desc : Ids, connected : BOOLEAN, listening : BOOLEAN, blocking : BOOLEAN,
               family : BOOLEAN, ssl : SSLs \cup {NULL}, cert : BOOLEAN]

ASSUME NoConnAssumption == NoConn \notin ConnObject

(* The members that the constructors set, apart from the descriptor; family  *)
(* is whether address_family_ is known.                                      *)
NewConn(d) == [desc |-> d, connected |-> FALSE, listening |-> FALSE, blocking |-> TRUE,
               family |-> FALSE, ssl |-> NULL, cert |-> FALSE]

Constructed == {o \in Conns : conn[o] # NoConn}

fd(o) == heap[conn[o].desc].fd

HasCopies(o) == ~IsLast(heap, conn[o].desc)

(* What callers of Socket and Accept see to, but for the uses in Risky. *)
MayOpen(o) ==
  /\ "reopen" \in Risky \/ fd(o) = DESCRIPTOR_NULL
  /\ "again" \in Risky \/ conn[o].ssl = NULL
  /\ "copied_first" \in Risky \/ ~HasCopies(o)

Open == {f \in Fds : sock[f].st # "closed"}

Closed(F) == [f \in Fds |-> IF f \in F THEN NoSocket ELSE sock[f]]

(* SSL_get_peer_certificate: another reference, if there is a certificate. *)
PeerCert(s) == s # NULL /\ ssl[s].st = "up" /\ ssl[s].cert

Ref(cert) == IF cert THEN 1 ELSE 0

Reported ==
  /\ event' = TRUE
  /\ UNCHANGED <<heap, conn, sock, ssl, x509>>

Init ==
  /\ heap = [d \in Ids |-> Deleted]
  /\ conn = [o \in Conns |-> NoConn]
  /\ sock = [f \in Fds |-> NoSocket]
  /\ ssl = [s \in SSLs |-> FreeSSL]
  /\ x509 = 0
  /\ event = FALSE

-----------------------------------------------------------------------------
(* Construction, copying, destruction *)

Construct(o) ==
  /\ conn[o] = NoConn
  /\ \E d \in Unused(heap) :
       /\ heap' = [heap EXCEPT ![d] = NewDescriptor]
       /\ conn' = [conn EXCEPT ![o] = NewConn(d)]
  /\ event' = FALSE
  /\ UNCHANGED <<sock, ssl, x509>>

\* Mutant: the certificate is copied without a reference of its own.
CopyConstruct_SharesCert(o, s) ==
  /\ conn[o] = NoConn /\ conn[s] # NoConn
  /\ conn' = [conn EXCEPT ![o] = [conn[s] EXCEPT !.cert = PeerCert(conn[s].ssl)]]
  /\ heap' = Shared(heap, conn[s].desc)
  /\ event' = FALSE
  /\ UNCHANGED <<sock, ssl, x509>>

CopyConstruct(o, s) ==
  /\ conn[o] = NoConn /\ conn[s] # NoConn
  /\ conn' = [conn EXCEPT ![o] = [conn[s] EXCEPT !.cert = PeerCert(conn[s].ssl)]]
  /\ x509' = x509 + Ref(PeerCert(conn[s].ssl))
  /\ heap' = Shared(heap, conn[s].desc)
  /\ event' = FALSE
  /\ UNCHANGED <<sock, ssl>>

\* Mutants: every owner frees the SSL; nobody closes the socket.
LastFrees_Any(o) ==
  IF conn[o].ssl # NULL THEN [ssl EXCEPT ![conn[o].ssl] = FreeSSL] ELSE ssl
LastCloses_Never(o) == sock

(* What the last owner of a Descriptor does before it lets go of it: SSLConn *)
(* frees its SSL object, and later IPComm closes the socket.                 *)
LastFrees(o) ==
  IF conn[o].ssl # NULL /\ IsLast(heap, conn[o].desc)
  THEN [ssl EXCEPT ![conn[o].ssl] = FreeSSL] ELSE ssl

LastCloses(o) == IF IsLast(heap, conn[o].desc) THEN Closed({fd(o)}) ELSE sock

Assign(o, s) ==
  LET freed == LastFrees(o)
      cert == conn[s].ssl # NULL /\ freed[conn[s].ssl].cert
  IN
  /\ conn[o] # NoConn /\ conn[s] # NoConn
  /\ o # s \/ "self" \in Risky
  /\ ssl' = freed
  /\ sock' = LastCloses(o)
  /\ x509' = x509 - Ref(conn[o].cert) + Ref(cert)
  /\ heap' = Shared(Dropped(heap, conn[o].desc), conn[s].desc)
  /\ conn' = [conn EXCEPT ![o] = [conn[s] EXCEPT !.cert = cert]]
  /\ event' = FALSE

Destroy(o) ==
  /\ conn[o] # NoConn
  /\ ssl' = LastFrees(o)
  /\ sock' = LastCloses(o)
  /\ x509' = x509 - Ref(conn[o].cert)
  /\ heap' = Dropped(heap, conn[o].desc)
  /\ conn' = [conn EXCEPT ![o] = NoConn]
  /\ event' = FALSE

Clear(o) ==
  /\ conn[o] # NoConn
  /\ ssl' = LastFrees(o)
  /\ sock' = LastCloses(o)
  /\ x509' = x509 - Ref(conn[o].cert)
  /\ \E d \in Unused(Dropped(heap, conn[o].desc)) :
       /\ heap' = [Dropped(heap, conn[o].desc) EXCEPT ![d] = NewDescriptor]
       /\ conn' = [conn EXCEPT ![o] = NewConn(d)]
  /\ event' = FALSE

-----------------------------------------------------------------------------
(* Set-up *)

(* Init and InitServer; Init may fail before or after the family is set.     *)
InitConn(o) ==
  /\ conn[o] # NoConn
  /\ \E family \in {conn[o].family, TRUE} : conn' = [conn EXCEPT ![o].family = family]
  /\ event' \in {FALSE, TRUE} /\ (~event' => conn'[o].family)
  /\ UNCHANGED <<heap, sock, ssl, x509>>

(* set_blocking and set_nonblocking, of the flag only. *)
SetFlag(o, blocking) ==
  /\ conn[o] # NoConn
  /\ "late_flag" \in Risky \/ (fd(o) = DESCRIPTOR_NULL /\ ~HasCopies(o))
  /\ conn' = [conn EXCEPT ![o].blocking = blocking]
  /\ event' = FALSE
  /\ UNCHANGED <<heap, sock, ssl, x509>>

(* set_socket_blocking clears O_NONBLOCK only if it is not set: never.       *)
SetSocketBlocking(o) ==
  /\ conn[o] # NoConn
  /\ IF fd(o) = DESCRIPTOR_NULL THEN Reported
     ELSE /\ "late_flag" \in Risky \/ ~HasCopies(o)
          /\ conn' = [conn EXCEPT ![o].blocking = TRUE]
          /\ event' = FALSE
          /\ UNCHANGED <<heap, sock, ssl, x509>>

SetSocketNonblocking(o) ==
  /\ conn[o] # NoConn
  /\ IF fd(o) = DESCRIPTOR_NULL THEN Reported
     ELSE /\ "late_flag" \in Risky \/ ~HasCopies(o)
          /\ sock' = [sock EXCEPT ![fd(o)].nb = TRUE]
          /\ conn' = [conn EXCEPT ![o].blocking = FALSE]
          /\ event' = FALSE
          /\ UNCHANGED <<heap, ssl, x509>>

(* Socket, with an SSLContext or without.  SSL_new may fail.                 *)
Socket(o, withSSL) ==
  /\ conn[o] # NoConn
  /\ MayOpen(o)
  /\ \/ /\ heap' = [heap EXCEPT ![conn[o].desc].fd = DESCRIPTOR_NULL]
        /\ event' = TRUE
        /\ UNCHANGED <<conn, sock, ssl>>
     \/ \E f \in Fds \ Open :
          /\ heap' = [heap EXCEPT ![conn[o].desc].fd = f]
          /\ sock' = [sock EXCEPT ![f] = [st |-> "new", nb |-> ~conn[o].blocking]]
          /\ \/ ~withSSL /\ event' = FALSE /\ UNCHANGED <<conn, ssl>>
             \/ withSSL /\ event' = TRUE /\ conn' = [conn EXCEPT ![o].ssl = NULL] /\ UNCHANGED ssl
             \/ /\ withSSL /\ event' = FALSE
                /\ \E s \in SSLs :
                     /\ ssl[s].st = "free"
                     /\ ssl' = [ssl EXCEPT ![s].st = "new"]
                     /\ conn' = [conn EXCEPT ![o].ssl = s]
  /\ UNCHANGED x509

-----------------------------------------------------------------------------
(* Connecting *)

(* What SSL_connect and SSL_accept come to on socket f: the handshake is     *)
(* done, it wants to be called again (if the socket does not block), or it   *)
(* failed.                                                                   *)
Handshakes(st, nb) ==
  (IF st = "connected" THEN {"up", "failed"} ELSE {"failed"}) \cup (IF nb THEN {"want"} ELSE {})

(* The SSL part of Connect; st is what connect(2) left the socket in.        *)
ConnectSSL(o, st) ==
  LET s == conn[o].ssl
      f == fd(o)
  IN
  \E h \in Handshakes(st, sock[f].nb), cert \in BOOLEAN :
    /\ cert => h = "up"
    /\ ssl' = [ssl EXCEPT ![s] = [st |-> h, fd |-> f, cert |-> cert]]
    /\ x509' = x509 + Ref(cert)
    /\ conn' = [conn EXCEPT ![o].connected = @ \/ st = "connected",
                            ![o].cert = IF h = "up" THEN cert ELSE @]
    /\ event' = (h = "failed" \/ (h = "want" /\ conn[o].blocking))

(* connect(2) works once on a new socket: it connects, is under way, or      *)
(* fails.  Without an event, an SSLConn goes on to the handshake.            *)
Connect(o) ==
  /\ conn[o] # NoConn
  /\ IF ~conn[o].family \/ fd(o) = DESCRIPTOR_NULL \/ sock[fd(o)].st # "new" THEN Reported
     ELSE \/ Reported
          \/ \E st \in {"connecting", "connected"} :
               /\ st = "connecting" => sock[fd(o)].nb
               /\ sock' = [sock EXCEPT ![fd(o)].st = st]
               /\ CASE st = "connecting" /\ conn[o].blocking -> event' = TRUE /\ UNCHANGED <<conn, ssl, x509>>
                    [] conn[o].ssl = NULL -> /\ conn' = [conn EXCEPT ![o].connected = @ \/ st = "connected"]
                                             /\ event' = FALSE
                                             /\ UNCHANGED <<ssl, x509>>
                    [] OTHER -> ConnectSSL(o, st)
               /\ UNCHANGED heap

(* The kernel finishes a connect(2) that was under way, well or not. *)
KernelConnects(f) ==
  /\ sock[f].st = "connecting"
  /\ \E st \in {"connected", "new"} : sock' = [sock EXCEPT ![f].st = st]
  /\ UNCHANGED <<heap, conn, ssl, x509, event>>

(* The event loop sees that the socket is connected: set_connected(true).    *)
SetConnected(o) ==
  /\ conn[o] # NoConn /\ fd(o) # DESCRIPTOR_NULL
  /\ sock[fd(o)].st = "connected"
  /\ conn' = [conn EXCEPT ![o].connected = TRUE]
  /\ event' = FALSE
  /\ UNCHANGED <<heap, sock, ssl, x509>>

(* SSL_read and SSL_write go on with a handshake that is not done; a session *)
(* calls them while it is connected.                                         *)
HandshakeInIO(o) ==
  /\ conn[o] # NoConn /\ conn[o].connected /\ conn[o].ssl # NULL
  /\ ssl[conn[o].ssl].st = "want" /\ sock[ssl[conn[o].ssl].fd].st = "connected"
  /\ \E cert \in BOOLEAN : ssl' = [ssl EXCEPT ![conn[o].ssl].st = "up", ![conn[o].ssl].cert = cert]
  /\ event' = FALSE
  /\ UNCHANGED <<heap, conn, sock, x509>>

Listen(o) ==
  /\ conn[o] # NoConn
  /\ IF fd(o) = DESCRIPTOR_NULL \/ sock[fd(o)].st \notin {"new", "listening"} THEN Reported
     ELSE \/ Reported
          \/ /\ sock' = [sock EXCEPT ![fd(o)].st = "listening"]
             /\ conn' = [conn EXCEPT ![o].listening = TRUE]
             /\ event' = ~conn[o].family
             /\ UNCHANGED <<heap, ssl, x509>>

(* Bind changes nothing that is modelled. *)
Bind(o) ==
  /\ conn[o] # NoConn
  /\ event' \in BOOLEAN
  /\ ~conn[o].family \/ fd(o) = DESCRIPTOR_NULL => event'
  /\ UNCHANGED <<heap, conn, sock, ssl, x509>>

(* The SSL part of Accept, for a client c that has the socket f.  Any result *)
(* of SSL_accept but success is an event: SSL_get_error is asked about the   *)
(* listener's SSL, which knows of no reason.  The certificate is asked of    *)
(* the listener's SSL, too.                                                  *)
AcceptSSL(l, o, c, f) ==
  \/ /\ event' = TRUE
     /\ conn' = [conn EXCEPT ![o] = [c EXCEPT !.ssl = NULL]]
     /\ UNCHANGED <<ssl, x509>>
  \/ \E s \in SSLs, h \in {"up", "failed"}, cert \in BOOLEAN :
       LET mine == h = "up" /\ PeerCert(conn[l].ssl) IN
       /\ ssl[s].st = "free"
       /\ cert => h = "up"
       /\ ssl' = [ssl EXCEPT ![s] = [st |-> h, fd |-> f, cert |-> cert]]
       /\ conn' = [conn EXCEPT ![o] = [c EXCEPT !.ssl = s, !.cert = IF h = "up" THEN mine ELSE @]]
       /\ x509' = x509 + Ref(mine)
       /\ event' = (h = "failed")

(* Accept, into the object o.  The flag is passed on if it is nonblocking;   *)
(* what the socket does is the kernel's choice, as BSD's accept(2) passes    *)
(* O_NONBLOCK on and Linux's does not.  The name look-up may leave an event, *)
(* and then there is no handshake.                                           *)
Accept(l, o) ==
  /\ l # o /\ conn[l] # NoConn /\ conn[o] # NoConn
  /\ MayOpen(o)
  /\ "late_flag" \in Risky \/ conn[o].blocking \/ ~conn[l].blocking
  /\ \/ Reported
     \/ /\ conn[l].family /\ fd(l) # DESCRIPTOR_NULL /\ sock[fd(l)].st = "listening"
        /\ \E f \in Fds \ Open, nb \in {FALSE, sock[fd(l)].nb} :
             LET c == [conn[o] EXCEPT !.connected = TRUE, !.family = TRUE,
                                      !.blocking = @ /\ conn[l].blocking]
             IN
             /\ sock' = [sock EXCEPT ![f] = [st |-> "connected", nb |-> nb]]
             /\ heap' = [heap EXCEPT ![conn[o].desc].fd = f]
             /\ \/ event' = TRUE /\ conn' = [conn EXCEPT ![o] = c] /\ UNCHANGED <<ssl, x509>>
                \/ conn[l].ssl = NULL /\ event' = FALSE /\ conn' = [conn EXCEPT ![o] = c] /\ UNCHANGED <<ssl, x509>>
                \/ conn[l].ssl # NULL /\ AcceptSSL(l, o, c, f)

-----------------------------------------------------------------------------
(* Closing *)

\* Mutant: the flags stay.
CloseConn_KeepsFlags(o) ==
  /\ sock' = Closed({fd(o)})
  /\ heap' = [heap EXCEPT ![conn[o].desc].fd = DESCRIPTOR_NULL]
  /\ UNCHANGED <<conn, ssl, x509>>

(* The flags of this object are reset; the socket was that of its copies,    *)
(* too, and the SSL stays.                                                   *)
CloseConn(o) ==
  /\ sock' = Closed({fd(o)})
  /\ heap' = [heap EXCEPT ![conn[o].desc].fd = DESCRIPTOR_NULL]
  /\ conn' = [conn EXCEPT ![o].connected = FALSE, ![o].listening = FALSE]
  /\ UNCHANGED <<ssl, x509>>

Close(o) ==
  /\ conn[o] # NoConn
  /\ "close_copied" \in Risky \/ ~HasCopies(o)
  /\ CloseConn(o)
  /\ event' = FALSE

(* Shutdown of a nonblocking object may have to be called again. *)
Shutdown(o) ==
  /\ conn[o] # NoConn
  /\ "close_copied" \in Risky \/ ~HasCopies(o)
  /\ \/ conn[o].ssl # NULL /\ fd(o) = DESCRIPTOR_NULL /\ Reported
     \/ /\ conn[o].ssl # NULL /\ fd(o) # DESCRIPTOR_NULL
        /\ ~conn[o].blocking /\ event' = FALSE
        /\ UNCHANGED <<heap, conn, sock, ssl, x509>>
     \/ /\ conn[o].ssl = NULL \/ fd(o) # DESCRIPTOR_NULL
        /\ CloseConn(o)
        /\ event' \in BOOLEAN /\ (event' => conn[o].ssl # NULL)

Next ==
  \/ \E o \in Conns :
       \/ Construct(o) \/ Destroy(o) \/ Clear(o)
       \/ InitConn(o) \/ SetSocketBlocking(o) \/ SetSocketNonblocking(o)
       \/ Connect(o) \/ SetConnected(o) \/ HandshakeInIO(o)
       \/ Bind(o) \/ Listen(o) \/ Close(o) \/ Shutdown(o)
       \/ \E s \in Conns : CopyConstruct(o, s) \/ Assign(o, s) \/ Accept(s, o)
       \/ \E b \in BOOLEAN : SetFlag(o, b) \/ Socket(o, b)
  \/ \E f \in Fds : KernelConnects(f)

Spec == Init /\ [][Next]_vars

-----------------------------------------------------------------------------
(* Properties *)

Live == {d \in Ids : heap[d].cnt > 0}

(* Objects, sockets and SSL objects have their types. *)
TypeOK ==
  /\ heap \in [Ids -> DescriptorObject]
  /\ conn \in [Conns -> ConnObject \cup {NoConn}]
  /\ sock \in [Fds -> [st : SocketState, nb : BOOLEAN]]
  /\ ssl \in [SSLs -> [st : SSLState, fd : Fds \cup {DESCRIPTOR_NULL}, cert : BOOLEAN]]
  /\ x509 \in Nat
  /\ event \in BOOLEAN

(* Every SSL object and every certificate that was obtained is some          *)
(* connection's: none leaks when Socket, Connect, Accept, operator=, clear   *)
(* and the destructor pass SSL* and X509* around, and no connection has an   *)
(* SSL* that another one freed.                                              *)
SSLOwned ==
  /\ {s \in SSLs : ssl[s].st # "free"} = {conn[o].ssl : o \in Constructed} \ {NULL}
  /\ x509 = Cardinality({o \in Constructed : conn[o].cert})

(* An object that says it is connected has a connected socket, and its SSL,  *)
(* once it has a descriptor, is on that socket and not on one that somebody  *)
(* else opened since.                                                        *)
ConnectedIsOpen ==
  \A o \in Constructed :
    conn[o].connected =>
      /\ fd(o) # DESCRIPTOR_NULL /\ sock[fd(o)].st = "connected"
      /\ conn[o].ssl # NULL => ssl[conn[o].ssl].fd \in {DESCRIPTOR_NULL, fd(o)}

(* Whether an object thinks its socket blocks is what the socket does: the   *)
(* loops of Read and Write take EAGAIN and WANT_READ for errors on the one   *)
(* kind, and never return on the other if they are wrong.  "Routine to set   *)
(* an open file descriptor as "blocking"" (IPComm.cc:407).                   *)
ModeMatches ==
  \A o \in Constructed : fd(o) # DESCRIPTOR_NULL => sock[fd(o)].nb = ~conn[o].blocking

(* A blocking connection that was made without an event, and has no copies   *)
(* yet, has the certificate its peer sent.                                   *)
CertObtained ==
  \A o \in Constructed :
    ~event /\ conn[o].blocking /\ ~HasCopies(o) /\ PeerCert(conn[o].ssl) => conn[o].cert

(* The handle of a connection is its Descriptor, which has the socket open.  *)
HandleOf == [o \in Conns |-> IF conn[o] = NoConn THEN DESCRIPTOR_NULL ELSE conn[o].desc]
OpenIn == [d \in Ids |-> heap[d].fd]

(* Connections share sockets as SharedHandle says, which knows no counts.    *)
SH == INSTANCE SharedHandle WITH
  Owners <- Conns, Handles <- Ids, None <- DESCRIPTOR_NULL,
  handle <- HandleOf, open <- OpenIn, kernel <- Open
ImplementsSharedHandle == SH!Spec
=============================================================================

------------------------------ MODULE MsgQueue ------------------------------
(***************************************************************************)
(* What the outgoing half of a session promises its callers: messages are  *)
(* sent whole and in the order they were queued, each byte once; the only  *)
(* other thing that can happen is that everything still queued is given up *)
(* at once, in the middle of the message at the head at worst.             *)
(***************************************************************************)
EXTENDS Naturals, Sequences

CONSTANTS Msgs, Length   \* Length[m]: the bytes of message m

VARIABLES
    fifo,   \* the messages queued, oldest first
    sent,   \* how many bytes of the oldest are out
    out     \* every byte sent, a pair <<message, position>>

vars == <<fifo, sent, out>>

\* Bytes sent + 1 .. sent + n of the oldest message.
Bytes(n) == [k \in 1 .. n |-> <<Head(fifo), sent + k>>]

Left == Length[Head(fifo)] - sent

Init == fifo = <<>> /\ sent = 0 /\ out = <<>>

Queue(m) ==
    /\ fifo' = Append(fifo, m)
    /\ UNCHANGED <<sent, out>>

Send(n) ==
    /\ out' = out \o Bytes(n)
    /\ sent' = sent + n
    /\ UNCHANGED fifo

Done ==
    /\ fifo # <<>>
    /\ Left = 0
    /\ fifo' = Tail(fifo)
    /\ sent' = 0
    /\ UNCHANGED out

GiveUp(n) ==
    /\ out' = out \o Bytes(n)
    /\ fifo' = <<>>
    /\ sent' = 0

Next ==
    \/ \E m \in Msgs : Queue(m)
    \/ fifo # <<>> /\ \E n \in 0 .. Left : Send(n) \/ GiveUp(n)
    \/ Done

Spec == Init /\ [][Next]_vars
=============================================================================

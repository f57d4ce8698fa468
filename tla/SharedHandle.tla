---------------------------- MODULE SharedHandle ----------------------------
(* What copying a File or a connection promises: "safe copying" of something *)
(* that is open.  Owners refer to handles and a handle to what is open.      *)
(* There is no count: what a handle has open is closed when it is told to,   *)
(* or when its last owner lets go of it, and not before.                     *)
CONSTANTS Owners, Handles, Fds, None

VARIABLES
  handle,         \* the handle each owner refers to, or None
  open,           \* what each handle has open, or None
  kernel          \* what is open in the process

vars == <<handle, open, kernel>>

Owned(h) == \E o \in Owners : handle[o] = h

(* What is closed when o lets go of its handle. *)
Left(o) == IF \E p \in Owners \ {o} : handle[p] = handle[o] THEN {} ELSE {open[handle[o]]} \ {None}

(* The handle of o has nobody left: it has nothing open any more. *)
Emptied(o) ==
  IF \E p \in Owners \ {o} : handle[p] = handle[o] THEN open ELSE [open EXCEPT ![handle[o]] = None]

Init ==
  /\ handle = [o \in Owners |-> None]
  /\ open = [h \in Handles |-> None]
  /\ kernel = {}

(* A new owner with a handle of its own. *)
Create(o) ==
  /\ handle[o] = None
  /\ \E h \in Handles : ~Owned(h) /\ handle' = [handle EXCEPT ![o] = h]
  /\ UNCHANGED <<open, kernel>>

Copy(o, s) ==
  /\ handle[o] = None /\ handle[s] # None
  /\ handle' = [handle EXCEPT ![o] = handle[s]]
  /\ UNCHANGED <<open, kernel>>

(* o lets go of its handle for the one of s. *)
Assign(o, s) ==
  /\ handle[o] # None /\ handle[s] # None
  /\ handle[o] # handle[s]
  /\ handle' = [handle EXCEPT ![o] = handle[s]]
  /\ open' = Emptied(o)
  /\ kernel' = kernel \ Left(o)

(* o lets go of its handle for a new one. *)
Renew(o) ==
  /\ handle[o] # None
  /\ \E h \in Handles :
       /\ \A p \in Owners \ {o} : handle[p] # h
       /\ handle' = [handle EXCEPT ![o] = h]
  /\ open' = Emptied(o)
  /\ kernel' = kernel \ Left(o)

Drop(o) ==
  /\ handle[o] # None
  /\ handle' = [handle EXCEPT ![o] = None]
  /\ open' = Emptied(o)
  /\ kernel' = kernel \ Left(o)

Open(o, f) ==
  /\ handle[o] # None /\ open[handle[o]] = None
  /\ f \notin kernel
  /\ open' = [open EXCEPT ![handle[o]] = f]
  /\ kernel' = kernel \cup {f}
  /\ UNCHANGED handle

(* Close is for all owners of the handle. *)
Close(o) ==
  /\ handle[o] # None /\ open[handle[o]] # None
  /\ kernel' = kernel \ {open[handle[o]]}
  /\ open' = [open EXCEPT ![handle[o]] = None]
  /\ UNCHANGED handle

Next ==
  \E o \in Owners :
    \/ Create(o) \/ Renew(o) \/ Drop(o) \/ Close(o)
    \/ \E s \in Owners : Copy(o, s) \/ Assign(o, s)
    \/ \E f \in Fds : Open(o, f)

Spec == Init /\ [][Next]_vars
=============================================================================

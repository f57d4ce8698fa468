----------------------------- MODULE Descriptor -----------------------------
(* Descriptor of IP-Utils: the object that copies of a File or of a          *)
(* connection share.  It counts its owners, but the counting is done by hand *)
(* in the constructors, assignments and destructors of the owners.  A heap   *)
(* is a function from addresses to descriptors; an address whose count is 0  *)
(* holds no object.                                                          *)
EXTENDS Integers

CONSTANTS
  Ids,            \* addresses of Descriptor objects
  Fds             \* descriptors that open(2), socket(2), ... may return

(* 0 is the standard input and negative numbers are errors. *)
ASSUME FdsAssumption == Fds \subseteq Nat \ {0}

DESCRIPTOR_NULL == -1

(* A FILE* is identified by its fileno(3). *)
DescriptorObject == [cnt : Nat, fd : Fds \cup {0, DESCRIPTOR_NULL}, fp : Fds \cup {0, DESCRIPTOR_NULL}]

NewDescriptor == [cnt |-> 1, fd |-> DESCRIPTOR_NULL, fp |-> DESCRIPTOR_NULL]

Deleted == [NewDescriptor EXCEPT !.cnt = 0]

(* The descriptors an object keeps open; the standard input is not its own. *)
Held(r) == {r.fd, r.fp} \ {0, DESCRIPTOR_NULL}

IsLast(heap, d) == heap[d].cnt = 1

(* new Descriptor(): memory that no object uses.                             *)
Unused(heap) == {d \in Ids : heap[d].cnt = 0}

(* cnt_++; in memory that was freed it is lost. *)
Shared(heap, d) ==
  IF heap[d].cnt = 0 THEN heap ELSE [heap EXCEPT ![d].cnt = @ + 1]

(* if (!--cnt_) delete descriptor_;                                          *)
Dropped(heap, d) ==
  IF IsLast(heap, d) THEN [heap EXCEPT ![d] = Deleted]
                     ELSE [heap EXCEPT ![d].cnt = @ - 1]
=============================================================================

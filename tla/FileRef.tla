------------------------------ MODULE FileRef -------------------------------
(* File of IP-Utils, as far as its open descriptor goes: objects that are    *)
(* copied, assigned, cleared, named and destroyed in any order while they    *)
(* share Descriptors whose count each of them keeps.                         *)
EXTENDS Descriptor, FiniteSets

CONSTANTS
  Files,          \* the places where a File may be constructed
  NoFile,         \* nothing is constructed there
  Names,          \* names of files on disk
  Risky           \* uses of the class that it does not provide for

(* The uses that Risky may hold:                                             *)
(*   self     a File is assigned to itself                                   *)
(*   name     a File that is open or shared, and is not named stdin, is      *)
(*            named so, or the other way round                               *)
(*   adopt    set_fd or set_fp is given a descriptor that a File has already *)
Risks == {"self", "name", "adopt"}

(* A File that has no name, and so no file to open or close. *)
Unnamed == ""

ASSUME FilesAssumption == IsFiniteSet(Files)
ASSUME IdsAssumption == DESCRIPTOR_NULL \notin Ids
ASSUME NamesAssumption == {Unnamed, "stdin"} \cap Names = {}
ASSUME NoFileAssumption == Risky \subseteq Risks /\ NoFile \notin [name : Names \cup {Unnamed, "stdin"}, desc : Ids]

VARIABLES
  heap,           \* the Descriptor objects by address
  file,           \* name_ and descriptor_ of each File
  kernel,         \* open descriptors of the process, 0 among them
  event,          \* whether the last call left an event in error
  lost            \* history: descriptors that a File without a name left open

vars == <<heap, file, kernel, event, lost>>

Constructed == {f \in Files : file[f] # NoFile}

Desc(f) == heap[file[f].desc]

IsOpen(f) == Desc(f).fp # DESCRIPTOR_NULL \/ Desc(f).fd # DESCRIPTOR_NULL

(* Close and Fclose return early and close nothing. *)
CloseRefused(name, r) == name = Unnamed \/ (r.fd # DESCRIPTOR_NULL /\ r.fp # DESCRIPTOR_NULL)

ClosedBy(name, r) ==
  IF CloseRefused(name, r) \/ name = "stdin" THEN {} ELSE {r.fd, r.fp} \ {DESCRIPTOR_NULL}

\* Mutants: nothing is closed; the first owner to leave closes.
LastCloses_Never(name, d) == {}
LastCloses_Any(name, d) == ClosedBy(name, heap[d])

(* A File with that name lets go of its Descriptor: if it is the last owner, *)
(* it closes it first, if it can.                                            *)
LastCloses(name, d) == IF IsLast(heap, d) THEN ClosedBy(name, heap[d]) ELSE {}

LastRefused(name, d) ==
  /\ IsLast(heap, d)
  /\ {heap[d].fd, heap[d].fp} # {DESCRIPTOR_NULL}
  /\ CloseRefused(name, heap[d])

(* The Descriptor goes, and what a File without a name had open stays open. *)
LastLoses(name, d) == IF IsLast(heap, d) /\ name = Unnamed THEN Held(heap[d]) ELSE {}

LetGo(name, d) ==
  /\ kernel' = kernel \ LastCloses(name, d)
  /\ lost' = lost \cup LastLoses(name, d)
  /\ event' = LastRefused(name, d)

(* What callers have to see to, but for the misuses in Risky. *)
MayName(f, name) ==
  \/ "name" \in Risky
  \/ name = "stdin" <=> file[f].name = "stdin"
  \/ IsLast(heap, file[f].desc) /\ ~IsOpen(f)

Init ==
  /\ heap = [d \in Ids |-> Deleted]
  /\ file = [f \in Files |-> NoFile]
  /\ kernel = {0}
  /\ event = FALSE
  /\ lost = {}

Construct(f) ==
  /\ file[f] = NoFile
  /\ \E d \in Unused(heap) :
       /\ heap' = [heap EXCEPT ![d] = NewDescriptor]
       /\ file' = [file EXCEPT ![f] = [name |-> Unnamed, desc |-> d]]
  /\ event' = FALSE
  /\ UNCHANGED <<kernel, lost>>

CopyConstruct(f, s) ==
  /\ file[f] = NoFile /\ file[s] # NoFile
  /\ file' = [file EXCEPT ![f] = file[s]]
  /\ heap' = Shared(heap, file[s].desc)
  /\ event' = FALSE
  /\ UNCHANGED <<kernel, lost>>

(* operator=: name_ is the name of the source when the descriptor is closed. *)
Assign(f, s) ==
  LET name == file[s].name
      old == file[f].desc
  IN
  /\ file[f] # NoFile /\ file[s] # NoFile
  /\ f # s \/ "self" \in Risky
  /\ MayName(f, name) \/ ~IsLast(heap, old)
  /\ LetGo(name, old)
  /\ heap' = Shared(Dropped(heap, old), file[s].desc)
  /\ file' = [file EXCEPT ![f] = file[s]]

Destroy(f) ==
  LET old == file[f].desc IN
  /\ file[f] # NoFile
  /\ LetGo(file[f].name, old)
  /\ heap' = Dropped(heap, old)
  /\ file' = [file EXCEPT ![f] = NoFile]

\* Mutant: clear forgets to count itself out.
Clear_Keeps(f) ==
  /\ file[f] # NoFile
  /\ event' = FALSE
  /\ \E d \in Unused(heap) :
       /\ heap' = [heap EXCEPT ![d] = NewDescriptor]
       /\ file' = [file EXCEPT ![f] = [name |-> Unnamed, desc |-> d]]
  /\ UNCHANGED <<kernel, lost>>

(* clear: the name is gone before the descriptor is closed. *)
Clear(f) ==
  LET old == file[f].desc IN
  /\ file[f] # NoFile
  /\ LetGo(Unnamed, old)
  /\ \E d \in Unused(Dropped(heap, old)) :
       /\ heap' = [Dropped(heap, old) EXCEPT ![d] = NewDescriptor]
       /\ file' = [file EXCEPT ![f] = [name |-> Unnamed, desc |-> d]]

(* set_name, Init and InitFromBuf; a tainted name is refused. *)
SetName(f, name) ==
  /\ file[f] # NoFile
  /\ MayName(f, name)
  /\ \/ file' = [file EXCEPT ![f].name = name] /\ event' = FALSE
     \/ file' = file /\ event' = TRUE
  /\ UNCHANGED <<heap, kernel, lost>>

(* open(2) for Open and fopen(3) for Fopen, of a descriptor or of stdin. *)
Opened(f, field, fd) ==
  /\ heap' = [heap EXCEPT ![file[f].desc][field] = fd]
  /\ kernel' = kernel \cup {fd}
  /\ event' = FALSE
  /\ UNCHANGED <<file, lost>>

Reported ==
  /\ event' = TRUE
  /\ UNCHANGED <<heap, file, kernel, lost>>

Done ==
  /\ event' = FALSE
  /\ UNCHANGED <<heap, file, kernel, lost>>

OpenAs(f, field, fd) ==
  CASE file[f].name = Unnamed -> Reported
    [] file[f].name = "stdin" -> Opened(f, field, 0)
    [] OTHER -> (fd \notin kernel /\ Opened(f, field, fd)) \/ Reported

Open(f, fd) ==
  /\ file[f] # NoFile
  /\ IF IsOpen(f) THEN Reported ELSE OpenAs(f, "fd", fd)

(* Fopen of a File that has a stream returns quietly. *)
Fopen(f, fp) ==
  /\ file[f] # NoFile
  /\ CASE file[f].name = Unnamed \/ Desc(f).fd # DESCRIPTOR_NULL -> Reported
       [] Desc(f).fd = DESCRIPTOR_NULL /\ Desc(f).fp # DESCRIPTOR_NULL -> Done
       [] OTHER -> OpenAs(f, "fp", fp)

(* Close, with field "fd", and Fclose, with "fp". *)
CloseField(f, field) ==
  LET other == IF field = "fd" THEN "fp" ELSE "fd"
      r == Desc(f)
  IN
  IF file[f].name = Unnamed \/ r[other] # DESCRIPTOR_NULL THEN Reported
  ELSE IF r[field] = DESCRIPTOR_NULL \/ file[f].name = "stdin" THEN Done
  ELSE /\ kernel' = kernel \ {r[field]}
       /\ heap' = [heap EXCEPT ![file[f].desc][field] = DESCRIPTOR_NULL]
       /\ event' = FALSE
       /\ UNCHANGED <<file, lost>>

Close(f) == file[f] # NoFile /\ CloseField(f, "fd")
Fclose(f) == file[f] # NoFile /\ CloseField(f, "fp")

(* Unlink and Rename close the descriptor first, for all its owners; the     *)
(* name changes in this File only, and whether unlink(2) and rename(2) fail  *)
(* or not.                                                                   *)
CloseThenName(f, name) ==
  LET closes == ClosedBy(file[f].name, Desc(f)) IN
  IF file[f].name = Unnamed THEN Reported
  ELSE /\ kernel' = kernel \ closes
       /\ heap' = IF closes = {} THEN heap
                  ELSE [heap EXCEPT ![file[f].desc].fd = DESCRIPTOR_NULL, ![file[f].desc].fp = DESCRIPTOR_NULL]
       /\ file' = [file EXCEPT ![f].name = name]
       /\ event' \in BOOLEAN
       /\ UNCHANGED lost

Unlink(f) == file[f] # NoFile /\ CloseThenName(f, file[f].name)

Rename(f, name) ==
  /\ file[f] # NoFile
  /\ MayName(f, name)
  /\ CloseThenName(f, name)

(* set_fd and set_fp: a descriptor the caller opened. *)
Adopt(f, field, fd) ==
  /\ file[f] # NoFile
  /\ fd \notin kernel \/ "adopt" \in Risky
  /\ file[f].name # "stdin" \/ "name" \in Risky
  /\ IF IsOpen(f) THEN Reported ELSE Opened(f, field, fd)

Next ==
  \E f \in Files :
    \/ Construct(f) \/ Destroy(f) \/ Clear(f) \/ Close(f) \/ Fclose(f) \/ Unlink(f)
    \/ \E s \in Files : CopyConstruct(f, s) \/ Assign(f, s)
    \/ \E name \in Names \cup {"stdin"} : SetName(f, name) \/ Rename(f, name)
    \/ \E fd \in Fds : Open(f, fd) \/ Fopen(f, fd) \/ Adopt(f, "fd", fd) \/ Adopt(f, "fp", fd)

Spec == Init /\ [][Next]_vars

-----------------------------------------------------------------------------
(* Properties *)

Live == {d \in Ids : heap[d].cnt > 0}

(* Objects and memory have their types. *)
TypeOK ==
  /\ heap \in [Ids -> DescriptorObject]
  /\ file \in [Files -> [name : Names \cup {Unnamed, "stdin"}, desc : Ids] \cup {NoFile}]
  /\ kernel \subseteq Fds \cup {0}
  /\ event \in BOOLEAN
  /\ lost \subseteq Fds

(* cnt_ is the number of Files that point to the Descriptor, as the          *)
(* constructors, operator=, clear and the destructor have to keep it: a File *)
(* never points to a Descriptor that was deleted, and none is forgotten.     *)
CountIsOwners ==
  \A d \in Ids : heap[d].cnt = Cardinality({f \in Constructed : file[f].desc = d})

(* What the Files have open, and the standard input. *)
Accounted == kernel \ lost

(* What is open is what some Descriptor holds, or what the last owner of one *)
(* left open because it had no name: destroying, clearing and assigning      *)
(* leave nothing else open, and nobody holds what was closed, and may be open *)
(* for somebody else now, or what nobody will close.                         *)
NothingLeaks ==
  /\ lost \subseteq kernel
  /\ Accounted = {0} \cup UNION {Held(heap[d]) : d \in Live}

(* What a File with a name has open is closed by the step that takes it from *)
(* its last owner: "If the ref count is 0, the parent is then also           *)
(* responsible for destructing the Descriptor class (after closing the       *)
(* descriptor!)" (Descriptor.h:34-36).                                       *)
LastOwnerCloses ==
  [][\A f \in Constructed : file[f].name # Unnamed =>
       \A x \in Held(Desc(f)) \cap kernel' : \E d \in Ids : x \in Held(heap'[d])]_vars

(* No two Descriptors hold the same descriptor, which the first to lose its  *)
(* last File would close under the other; and none is open in both ways,     *)
(* when neither Close nor Fclose would close it.                             *)
HeldOnce ==
  /\ \A d \in Live : heap[d].fd = DESCRIPTOR_NULL \/ heap[d].fp = DESCRIPTOR_NULL
  /\ \A d, e \in Live : d # e => Held(heap[d]) \cap Held(heap[e]) = {}

(* What the invariants above rest on: an address without an object is clean; *)
(* Files that share a Descriptor are all named stdin or none of them; only   *)
(* those that are have the standard input open, and nothing else.            *)
DeletedClean == \A d \in Ids : heap[d].cnt = 0 => heap[d] = Deleted

StdinAgree ==
  \A f, g \in Constructed :
    file[f].desc = file[g].desc => (file[f].name = "stdin" <=> file[g].name = "stdin")

StdinHeld ==
  \A f \in Constructed :
    IF file[f].name = "stdin" THEN Held(Desc(f)) = {} ELSE 0 \notin {Desc(f).fd, Desc(f).fp}

FileInv ==
  TypeOK /\ CountIsOwners /\ NothingLeaks /\ HeldOnce /\ DeletedClean /\ StdinAgree /\ StdinHeld

(* The handle of a File is its Descriptor, and what a handle has open is     *)
(* what the Descriptor holds; -1 is the address of none.                     *)
None == DESCRIPTOR_NULL
HandleOf == [f \in Files |-> IF file[f] = NoFile THEN None ELSE file[f].desc]
OpenIn == [d \in Ids |-> IF Held(heap[d]) = {} THEN None ELSE CHOOSE x \in Held(heap[d]) : TRUE]

(* Files share what is open as SharedHandle says, which knows no counts.     *)
(* What was lost counts as closed: no File can get at it.                    *)
SH == INSTANCE SharedHandle WITH
  Owners <- Files, Handles <- Ids, handle <- HandleOf, open <- OpenIn, kernel <- Accounted \ {0}
ImplementsSharedHandle == SH!Spec
=============================================================================

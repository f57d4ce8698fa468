--------------------------- MODULE FileRefProofs ----------------------------
(* Proofs about FileRef, for any number of Files, Descriptors, descriptors   *)
(* and names, as long as no use is Risky.                                    *)
EXTENDS FileRef, FiniteSetTheorems, TLAPS

FileRec == [name : Names \cup {Unnamed, "stdin"}, desc : Ids]

(* The Files of fl that point to d, and how many they are. *)
Own(fl, d) == {f \in Files : fl[f] # NoFile /\ fl[f].desc = d}
Count(fl, d) == Cardinality(Own(fl, d))

LEMMA NoFileIsNoRec == NoFile \notin FileRec
BY NoFileAssumption DEF FileRec

LEMMA FdIsNotNull == \A x \in Fds : x \in Nat /\ x # 0 /\ x # DESCRIPTOR_NULL
BY FdsAssumption DEF DESCRIPTOR_NULL

LEMMA UnnamedIsNotStdin == Unnamed # "stdin"
BY DEF Unnamed

(* b is a but for what it has at x. *)
SameBut(a, b, S, x) == \A y \in S \ {x} : b[y] = a[y]

LEMMA OwnFinite ==
  ASSUME NEW fl, NEW d
  PROVE  IsFiniteSet(Own(fl, d)) /\ Count(fl, d) \in Nat
<1>1. IsFiniteSet(Own(fl, d))
  BY FilesAssumption, FS_Subset DEF Own
<1> QED BY <1>1, FS_CardinalityType DEF Count

(* How many point where when f points to nothing any more, ... *)
LEMMA CountLeft ==
  ASSUME NEW fl, NEW fl2, NEW f \in Files, NEW d, fl[f] # NoFile, fl[f].desc = d,
         fl2[f] = NoFile, SameBut(fl, fl2, Files, f)
  PROVE  Count(fl2, d) = Count(fl, d) - 1 /\ \A e : e # d => Count(fl2, e) = Count(fl, e)
<1>1. Own(fl2, d) = Own(fl, d) \ {f} /\ f \in Own(fl, d)
  BY DEF Own, SameBut
<1>2. Cardinality(Own(fl, d) \ {f}) = Cardinality(Own(fl, d)) - 1
  BY <1>1, OwnFinite, FS_RemoveElement
<1>3. ASSUME NEW e, e # d PROVE Own(fl2, e) = Own(fl, e)
  BY <1>3 DEF Own, SameBut
<1> QED BY <1>1, <1>2, <1>3 DEF Count

(* ... when it points to d and to nothing before, ... *)
LEMMA CountJoined ==
  ASSUME NEW fl, NEW fl2, NEW f \in Files, NEW d, fl[f] = NoFile,
         fl2[f] # NoFile, fl2[f].desc = d, SameBut(fl, fl2, Files, f)
  PROVE  Count(fl2, d) = Count(fl, d) + 1 /\ \A e : e # d => Count(fl2, e) = Count(fl, e)
<1>1. Own(fl2, d) = Own(fl, d) \cup {f} /\ f \notin Own(fl, d)
  BY DEF Own, SameBut
<1>2. Cardinality(Own(fl, d) \cup {f}) = Cardinality(Own(fl, d)) + 1
  BY <1>1, OwnFinite, FS_AddElement
<1>3. ASSUME NEW e, e # d PROVE Own(fl2, e) = Own(fl, e)
  BY <1>3 DEF Own, SameBut
<1> QED BY <1>1, <1>2, <1>3 DEF Count

(* ... and when all point where they did. *)
LEMMA CountStays ==
  ASSUME NEW fl, NEW fl2,
         \A g \in Files : (fl2[g] # NoFile <=> fl[g] # NoFile) /\ fl2[g].desc = fl[g].desc
  PROVE  \A e : Count(fl2, e) = Count(fl, e)
<1>1. ASSUME NEW e PROVE Own(fl2, e) = Own(fl, e)
  BY DEF Own
<1> QED BY <1>1 DEF Count

(* Who points to d is counted there. *)
LEMMA OwnerCounted ==
  ASSUME NEW fl, NEW d, NEW f \in Own(fl, d)
  PROVE  Count(fl, d) >= 1 /\ \A g \in Own(fl, d) : Count(fl, d) = 1 => g = f
<1>1. IsFiniteSet(Own(fl, d)) /\ Count(fl, d) \in Nat
  BY OwnFinite
<1>2. Cardinality(Own(fl, d) \ {f}) = Cardinality(Own(fl, d)) - 1 /\ IsFiniteSet(Own(fl, d) \ {f})
  BY <1>1, FS_RemoveElement
<1>3. Cardinality(Own(fl, d) \ {f}) \in Nat
  BY <1>2, FS_CardinalityType
<1>4. Count(fl, d) >= 1
  BY <1>1, <1>2, <1>3 DEF Count
<1>5. ASSUME NEW g \in Own(fl, d), Count(fl, d) = 1 PROVE g = f
  <2>1. Own(fl, d) \ {f} = {}
    BY <1>2, <1>5, FS_EmptySet DEF Count
  <2> QED BY <2>1, <1>5
<1> QED BY <1>4, <1>5

LEMMA CountIsCount ==
  /\ CountIsOwners <=> \A d \in Ids : heap[d].cnt = Count(file, d)
  /\ CountIsOwners' <=> \A d \in Ids : heap'[d].cnt = Count(file', d)
<1>1. \A d \in Ids : {f \in Constructed : file[f].desc = d} = Own(file, d)
  BY DEF Constructed, Own
<1>2. \A d \in Ids : {f \in Constructed' : file'[f].desc = d} = Own(file', d)
  BY DEF Constructed, Own
<1> QED BY <1>1, <1>2 DEF CountIsOwners, Count

(* What is open, descriptor by descriptor. *)
Holds(r, x) == x = r.fd \/ x = r.fp

AllHeld(hp, open) ==
  0 \in open /\ \A x \in Fds : x \in open <=> \E d \in Ids : Holds(hp[d], x)

LEMMA HeldIsHeld ==
  ASSUME NEW hp \in [Ids -> DescriptorObject], NEW open \in SUBSET (Fds \cup {0}),
         \A d \in Ids : hp[d].cnt = 0 => hp[d] = Deleted
  PROVE  open = {0} \cup UNION {Held(hp[d]) : d \in {e \in Ids : hp[e].cnt > 0}} <=> AllHeld(hp, open)
<1>1. ASSUME NEW x \in Fds, NEW d \in Ids
      PROVE  Holds(hp[d], x) <=> hp[d].cnt > 0 /\ x \in Held(hp[d])
  <2>1. hp[d].cnt \in Nat /\ (hp[d].cnt = 0 => ~Holds(hp[d], x))
    BY FdIsNotNull DEF DescriptorObject, Deleted, NewDescriptor, Holds
  <2> QED BY <2>1, FdIsNotNull DEF Held, Holds
<1>2. ASSUME NEW d \in Ids PROVE Held(hp[d]) \subseteq Fds
  BY DEF DescriptorObject, Held
<1> QED BY <1>1, <1>2, FdIsNotNull DEF AllHeld

(* What was lost is open, and nothing else is that no descriptor stands for. *)
LostOpen == lost \subseteq kernel /\ lost \subseteq Fds /\ kernel \subseteq Fds \cup {0}

LEMMA KernelHeld ==
  /\ TypeOK /\ DeletedClean => (NothingLeaks <=> LostOpen /\ AllHeld(heap, Accounted))
  /\ TypeOK' /\ DeletedClean' => (NothingLeaks' <=> LostOpen' /\ AllHeld(heap', Accounted'))
<1>1. TypeOK /\ DeletedClean => (NothingLeaks <=> LostOpen /\ AllHeld(heap, Accounted))
  <2>1. TypeOK => Accounted \in SUBSET (Fds \cup {0})
    BY DEF TypeOK, Accounted
  <2> QED BY <2>1, HeldIsHeld DEF TypeOK, DeletedClean, NothingLeaks, Live, LostOpen
<1>2. TypeOK' /\ DeletedClean' => (NothingLeaks' <=> LostOpen' /\ AllHeld(heap', Accounted'))
  <2>1. TypeOK' => Accounted' \in SUBSET (Fds \cup {0})
    BY DEF TypeOK, Accounted
  <2> QED BY <2>1, HeldIsHeld DEF TypeOK, DeletedClean, NothingLeaks, Live, LostOpen
<1> QED BY <1>1, <1>2

-----------------------------------------------------------------------------
(* The invariant *)

(* The parts of FileInv that are about one heap and one set of Files, so     *)
(* that they can be shown of those a step leads to.                          *)
OnceHeld(hp) ==
  /\ \A d \in Ids : hp[d].fd = DESCRIPTOR_NULL \/ hp[d].fp = DESCRIPTOR_NULL
  /\ \A d, e \in Ids, x \in Fds : Holds(hp[d], x) /\ Holds(hp[e], x) => d = e

LEMMA OnceIsOnce ==
  /\ TypeOK /\ DeletedClean => (HeldOnce <=> OnceHeld(heap))
  /\ TypeOK' /\ DeletedClean' => (HeldOnce' <=> OnceHeld(heap'))
<1>1. ASSUME NEW hp \in [Ids -> DescriptorObject], \A d \in Ids : hp[d].cnt = 0 => hp[d] = Deleted
      PROVE  OnceHeld(hp) <=>
               LET live == {d \in Ids : hp[d].cnt > 0} IN
               /\ \A d \in live : hp[d].fd = DESCRIPTOR_NULL \/ hp[d].fp = DESCRIPTOR_NULL
               /\ \A d, e \in live : d # e => Held(hp[d]) \cap Held(hp[e]) = {}
  <2> DEFINE live == {d \in Ids : hp[d].cnt > 0}
  <2>1. \A d \in Ids : hp[d].cnt \in Nat /\ hp[d].fd \in Fds \cup {0, DESCRIPTOR_NULL}
                         /\ hp[d].fp \in Fds \cup {0, DESCRIPTOR_NULL}
    BY DEF DescriptorObject
  <2>2. ASSUME NEW d \in Ids \ live PROVE hp[d].fd = DESCRIPTOR_NULL /\ hp[d].fp = DESCRIPTOR_NULL
    <3>1. hp[d].cnt = 0
      BY <2>1
    <3>2. hp[d] = Deleted
      BY <1>1, <3>1
    <3> QED BY <3>2 DEF Deleted, NewDescriptor
  <2>3. \A d \in Ids, x \in Fds : Holds(hp[d], x) <=> d \in live /\ x \in Held(hp[d])
    BY <2>1, <2>2, FdIsNotNull DEF Holds, Held
  <2>4. \A d \in Ids : Held(hp[d]) \subseteq Fds
    BY <2>1 DEF Held
  <2> QED BY <2>2, <2>3, <2>4 DEF OnceHeld
<1>2. TypeOK /\ DeletedClean => (HeldOnce <=> OnceHeld(heap))
  BY <1>1 DEF TypeOK, DeletedClean, HeldOnce, Live
<1>3. TypeOK' /\ DeletedClean' => (HeldOnce' <=> OnceHeld(heap'))
  BY <1>1 DEF TypeOK, DeletedClean, HeldOnce, Live
<1> QED BY <1>2, <1>3

Typed(hp, fl, open) ==
  hp \in [Ids -> DescriptorObject] /\ fl \in [Files -> FileRec \cup {NoFile}] /\ open \subseteq Fds \cup {0}

Counted(hp, fl) == \A d \in Ids : hp[d].cnt = Count(fl, d)

IsNull(r) == r.fd = DESCRIPTOR_NULL /\ r.fp = DESCRIPTOR_NULL

Clean(hp) == \A d \in Ids : hp[d].cnt = 0 => IsNull(hp[d])

SameStdin(fl) ==
  \A f, g \in Files : fl[f] # NoFile /\ fl[g] # NoFile /\ fl[f].desc = fl[g].desc =>
    (fl[f].name = "stdin" <=> fl[g].name = "stdin")

StdinOnly(hp, fl) ==
  \A f \in Files : fl[f] # NoFile =>
    /\ fl[f].name = "stdin" => \A x \in Fds : ~Holds(hp[fl[f].desc], x)
    /\ fl[f].name # "stdin" => ~Holds(hp[fl[f].desc], 0)

(* FileInv in that form. *)
Inv(hp, fl, open) ==
  /\ Typed(hp, fl, open) /\ Counted(hp, fl) /\ Clean(hp)
  /\ AllHeld(hp, open) /\ OnceHeld(hp) /\ SameStdin(fl) /\ StdinOnly(hp, fl)

LEMMA InvIsInv ==
  /\ FileInv => Inv(heap, file, Accounted) /\ LostOpen /\ event \in BOOLEAN
  /\ Inv(heap', file', Accounted') /\ LostOpen' /\ event' \in BOOLEAN => FileInv'
<1>1. ASSUME NEW r \in DescriptorObject
      PROVE  /\ Held(r) = {} <=> \A x \in Fds : ~Holds(r, x)
             /\ 0 \in {r.fd, r.fp} <=> Holds(r, 0)
             /\ r.cnt = 0 => (r = Deleted <=> IsNull(r))
  <2>1. Held(r) = {} <=> \A x \in Fds : ~Holds(r, x)
    BY FdIsNotNull DEF DescriptorObject, Held, Holds
  <2>2. r.cnt = 0 => (r = Deleted <=> IsNull(r))
    BY DEF DescriptorObject, Deleted, NewDescriptor, IsNull
  <2> QED BY <2>1, <2>2 DEF Holds
<1>2. ASSUME NEW hp \in [Ids -> DescriptorObject]
      PROVE  (\A d \in Ids : hp[d].cnt = 0 => hp[d] = Deleted) <=> Clean(hp)
  BY <1>1 DEF Clean
<1>3. ASSUME FileInv PROVE Inv(heap, file, Accounted) /\ LostOpen /\ event \in BOOLEAN
  <2>1. TypeOK /\ DeletedClean /\ NothingLeaks /\ HeldOnce /\ CountIsOwners /\ StdinHeld /\ StdinAgree
    BY <1>3 DEF FileInv
  <2>2. Counted(heap, file)
    BY <2>1, CountIsCount DEF Counted
  <2>3. AllHeld(heap, Accounted) /\ LostOpen /\ OnceHeld(heap)
    BY <2>1, KernelHeld, OnceIsOnce
  <2>4. Typed(heap, file, Accounted) /\ event \in BOOLEAN
    BY <2>1 DEF TypeOK, Typed, FileRec, Accounted
  <2>5. Clean(heap)
    BY <1>2, <2>1 DEF TypeOK, DeletedClean
  <2>6. SameStdin(file)
    BY <2>1 DEF StdinAgree, Constructed, SameStdin
  <2>7. \A f \in Files : file[f] # NoFile => heap[file[f].desc] \in DescriptorObject
    BY <2>4 DEF Typed, FileRec
  <2>8. StdinOnly(heap, file)
    BY <1>1, <2>1, <2>7 DEF StdinHeld, Constructed, Desc, StdinOnly
  <2> QED BY <2>2, <2>3, <2>4, <2>5, <2>6, <2>8 DEF Inv
<1>4. ASSUME Inv(heap', file', Accounted'), LostOpen', event' \in BOOLEAN PROVE FileInv'
  <2>1. /\ Typed(heap', file', Accounted') /\ Counted(heap', file') /\ Clean(heap')
        /\ AllHeld(heap', Accounted') /\ OnceHeld(heap') /\ SameStdin(file') /\ StdinOnly(heap', file')
    BY <1>4 DEF Inv
  <2>2. TypeOK'
    BY <1>4, <2>1 DEF Typed, TypeOK, FileRec, LostOpen
  <2>3. DeletedClean'
    BY <1>2, <2>1 DEF Typed, DeletedClean
  <2>4. CountIsOwners'
    BY <2>1, CountIsCount DEF Counted
  <2>5. NothingLeaks' /\ HeldOnce'
    BY <1>4, <2>1, <2>2, <2>3, KernelHeld, OnceIsOnce
  <2>6. \A f \in Files : file'[f] # NoFile => heap'[file'[f].desc] \in DescriptorObject
    BY <2>1 DEF Typed, FileRec
  <2>7. StdinHeld'
    BY <1>1, <2>1, <2>6 DEF StdinHeld, Constructed, Desc, StdinOnly
  <2>8. StdinAgree'
    BY <2>1 DEF SameStdin, StdinAgree, Constructed
  <2> QED BY <2>2, <2>3, <2>4, <2>5, <2>7, <2>8 DEF FileInv
<1> QED BY <1>3, <1>4

-----------------------------------------------------------------------------
(* What actions are made of keeps Inv. *)

(* f lets go of a Descriptor that other Files have, too. *)
LEMMA OneLeaves ==
  ASSUME NEW hp, NEW fl, NEW open, Inv(hp, fl, open),
         NEW f \in Files, fl[f] # NoFile, NEW d, d = fl[f].desc, hp[d].cnt # 1,
         NEW hp2 \in [Ids -> DescriptorObject], hp2[d].cnt = hp[d].cnt - 1,
         hp2[d].fd = hp[d].fd, hp2[d].fp = hp[d].fp, SameBut(hp, hp2, Ids, d),
         NEW fl2 \in [Files -> FileRec \cup {NoFile}],
         fl2[f] = NoFile, SameBut(fl, fl2, Files, f)
  PROVE  Inv(hp2, fl2, open)
<1>1. /\ Typed(hp, fl, open) /\ Counted(hp, fl) /\ Clean(hp)
      /\ AllHeld(hp, open) /\ OnceHeld(hp) /\ SameStdin(fl) /\ StdinOnly(hp, fl)
  BY DEF Inv
<1>2. d \in Ids /\ hp[d].cnt \in Nat
  BY <1>1 DEF Typed, FileRec, DescriptorObject
<1>3. Typed(hp2, fl2, open)
  BY <1>1 DEF Typed
<1>4. Counted(hp2, fl2)
  <2>1. Count(fl2, d) = Count(fl, d) - 1 /\ \A e : e # d => Count(fl2, e) = Count(fl, e)
    BY CountLeft
  <2> QED BY <1>1, <2>1 DEF Counted, SameBut
<1>5. Clean(hp2)
  <2>1. hp2[d].cnt # 0
    BY <1>2
  <2> QED BY <1>1, <2>1 DEF Clean, SameBut
<1>6. \A e \in Ids : hp2[e].fd = hp[e].fd /\ hp2[e].fp = hp[e].fp
  <2>1. ASSUME NEW e \in Ids PROVE hp2[e].fd = hp[e].fd /\ hp2[e].fp = hp[e].fp
    <3>1. CASE e = d
      BY <3>1
    <3>2. CASE e # d
      BY <3>2 DEF SameBut
    <3> QED BY <3>1, <3>2
  <2> QED BY <2>1
<1>7. \A e \in Ids : \A x : Holds(hp2[e], x) <=> Holds(hp[e], x)
  BY <1>6 DEF Holds
<1>8. AllHeld(hp2, open)
  BY <1>1, <1>7 DEF AllHeld
<1>9. OnceHeld(hp2)
  BY <1>1, <1>6, <1>7 DEF OnceHeld
<1>10. SameStdin(fl2)
  BY <1>1 DEF SameStdin, SameBut
<1>11. StdinOnly(hp2, fl2)
  <2>1. \A g \in Files : fl2[g] # NoFile => fl2[g] = fl[g] /\ fl[g].desc \in Ids
    BY <1>1 DEF Typed, FileRec, SameBut
  <2> QED BY <1>1, <1>7, <2>1 DEF StdinOnly
<1> QED BY <1>3, <1>4, <1>5, <1>8, <1>9, <1>10, <1>11 DEF Inv

(* f is the last to let go, and what was open is closed. *)
LEMMA LastLeaves ==
  ASSUME NEW hp, NEW fl, NEW open, Inv(hp, fl, open),
         NEW f \in Files, fl[f] # NoFile, NEW d, d = fl[f].desc, hp[d].cnt = 1,
         NEW hp2 \in [Ids -> DescriptorObject], hp2[d].cnt = 0,
         IsNull(hp2[d]), SameBut(hp, hp2, Ids, d),
         NEW fl2 \in [Files -> FileRec \cup {NoFile}],
         fl2[f] = NoFile, SameBut(fl, fl2, Files, f),
         NEW closes, 0 \notin closes, \A x \in Fds : x \in closes <=> Holds(hp[d], x)
  PROVE  Inv(hp2, fl2, open \ closes)
<1>1. /\ Typed(hp, fl, open) /\ Counted(hp, fl) /\ Clean(hp)
      /\ AllHeld(hp, open) /\ OnceHeld(hp) /\ SameStdin(fl) /\ StdinOnly(hp, fl)
  BY DEF Inv
<1>2. d \in Ids /\ hp[d].cnt \in Nat
  BY <1>1 DEF Typed, FileRec, DescriptorObject
<1>3. Typed(hp2, fl2, open \ closes)
  BY <1>1 DEF Typed
<1>4. Count(fl2, d) = Count(fl, d) - 1 /\ \A e : e # d => Count(fl2, e) = Count(fl, e)
  BY CountLeft
<1>5. Counted(hp2, fl2)
  <2>1. ASSUME NEW e \in Ids PROVE hp2[e].cnt = Count(fl2, e)
    <3>1. hp[e].cnt = Count(fl, e) /\ hp[d].cnt = Count(fl, d)
      BY <1>1, <1>2 DEF Counted
    <3>2. CASE e = d
      BY <1>4, <3>1, <3>2
    <3>3. CASE e # d
      BY <1>4, <3>1, <3>3 DEF SameBut
    <3> QED BY <3>2, <3>3
  <2> QED BY <2>1 DEF Counted
<1>6. Clean(hp2)
  BY <1>1, <1>2 DEF Clean, SameBut
<1>7. \A x \in Fds \cup {0} : ~Holds(hp2[d], x)
  BY FdIsNotNull DEF IsNull, Holds, DESCRIPTOR_NULL
<1>8. \A e \in Ids \ {d} : \A x : Holds(hp2[e], x) <=> Holds(hp[e], x)
  BY DEF SameBut
<1>9. AllHeld(hp2, open \ closes)
  <2>1. ASSUME NEW x \in Fds PROVE x \in open \ closes <=> \E e \in Ids : Holds(hp2[e], x)
    BY <1>1, <1>2, <1>7, <1>8 DEF AllHeld, OnceHeld
  <2> QED BY <1>1, <2>1 DEF AllHeld
<1>10. OnceHeld(hp2)
  BY <1>1, <1>7, <1>8 DEF OnceHeld, IsNull, SameBut
<1>11. SameStdin(fl2)
  BY <1>1 DEF SameStdin, SameBut
<1>12. \A g \in Files : fl2[g] # NoFile => fl2[g] = fl[g] /\ fl[g].desc \in Ids \ {d}
  <2>1. Count(fl, d) = 1 /\ f \in Own(fl, d)
    BY <1>1, <1>2 DEF Counted, Own
  <2>2. \A g \in Own(fl, d) : g = f
    BY <2>1, OwnerCounted
  <2> QED BY <1>1, <2>2 DEF Typed, FileRec, Own, SameBut
<1>13. StdinOnly(hp2, fl2)
  BY <1>1, <1>8, <1>12 DEF StdinOnly
<1> QED BY <1>3, <1>5, <1>6, <1>9, <1>10, <1>11, <1>13 DEF Inv

(* f gets a Descriptor: that of another File, or a new one. *)
LEMMA Joins ==
  ASSUME NEW hp, NEW fl, NEW open, Inv(hp, fl, open),
         NEW f \in Files, fl[f] = NoFile, NEW d \in Ids,
         NEW hp2 \in [Ids -> DescriptorObject], hp2[d].cnt = hp[d].cnt + 1,
         hp2[d].fd = hp[d].fd, hp2[d].fp = hp[d].fp, SameBut(hp, hp2, Ids, d),
         NEW fl2 \in [Files -> FileRec \cup {NoFile}],
         fl2[f] # NoFile, fl2[f].desc = d, SameBut(fl, fl2, Files, f),
         \/ \E s \in Files : fl[s] # NoFile /\ fl2[f] = fl[s]
         \/ hp[d].cnt = 0 /\ fl2[f].name # "stdin"
  PROVE  Inv(hp2, fl2, open)
<1>1. /\ Typed(hp, fl, open) /\ Counted(hp, fl) /\ Clean(hp)
      /\ AllHeld(hp, open) /\ OnceHeld(hp) /\ SameStdin(fl) /\ StdinOnly(hp, fl)
  BY DEF Inv
<1>2. hp[d].cnt \in Nat
  BY <1>1 DEF Typed, DescriptorObject
<1>3. Typed(hp2, fl2, open)
  BY <1>1 DEF Typed
<1>4. Counted(hp2, fl2)
  <2>1. Count(fl2, d) = Count(fl, d) + 1 /\ \A e : e # d => Count(fl2, e) = Count(fl, e)
    BY CountJoined
  <2> QED BY <1>1, <2>1 DEF Counted, SameBut
<1>5. Clean(hp2)
  <2>1. hp2[d].cnt # 0
    BY <1>2
  <2> QED BY <1>1, <2>1 DEF Clean, SameBut
<1>6. \A e \in Ids : hp2[e].fd = hp[e].fd /\ hp2[e].fp = hp[e].fp
  <2>1. ASSUME NEW e \in Ids PROVE hp2[e].fd = hp[e].fd /\ hp2[e].fp = hp[e].fp
    <3>1. CASE e = d
      BY <3>1
    <3>2. CASE e # d
      BY <3>2 DEF SameBut
    <3> QED BY <3>1, <3>2
  <2> QED BY <2>1
<1>7. \A e \in Ids : \A x : Holds(hp2[e], x) <=> Holds(hp[e], x)
  BY <1>6 DEF Holds
<1>8. AllHeld(hp2, open)
  BY <1>1, <1>7 DEF AllHeld
<1>9. OnceHeld(hp2)
  BY <1>1, <1>6, <1>7 DEF OnceHeld
<1>10. CASE \E s \in Files : fl[s] # NoFile /\ fl2[f] = fl[s]
  <2>1. PICK s \in Files : fl[s] # NoFile /\ fl2[f] = fl[s]
    BY <1>10
  <2>2. \A g \in Files : fl2[g] # NoFile =>
          \E h \in Files : fl[h] # NoFile /\ fl2[g] = fl[h] /\ fl[h].desc \in Ids
    BY <1>1, <2>1 DEF SameBut, Typed, FileRec
  <2>3. SameStdin(fl2)
    BY <1>1, <2>2 DEF SameStdin
  <2>4. StdinOnly(hp2, fl2)
    BY <1>1, <1>7, <2>2 DEF StdinOnly
  <2> QED BY <1>3, <1>4, <1>5, <1>8, <1>9, <2>3, <2>4 DEF Inv
<1>11. CASE hp[d].cnt = 0 /\ fl2[f].name # "stdin"
  <2>1. \A g \in Files \ {f} : fl2[g] # NoFile => fl2[g] = fl[g] /\ fl[g].desc \in Ids \ {d}
    <3>1. Count(fl, d) = 0
      BY <1>1, <1>11 DEF Counted
    <3>2. \A g \in Files : g \notin Own(fl, d)
      BY <3>1, OwnerCounted
    <3> QED BY <1>1, <3>2 DEF Typed, FileRec, Own, SameBut
  <2>2. SameStdin(fl2)
    BY <1>1, <2>1 DEF SameStdin
  <2>3. ~Holds(hp2[d], 0)
    BY <1>1, <1>11 DEF Clean, IsNull, Holds, DESCRIPTOR_NULL
  <2>4. StdinOnly(hp2, fl2)
    <3>1. ASSUME NEW g \in Files, fl2[g] # NoFile
          PROVE  /\ fl2[g].name = "stdin" => \A x \in Fds : ~Holds(hp2[fl2[g].desc], x)
                 /\ fl2[g].name # "stdin" => ~Holds(hp2[fl2[g].desc], 0)
      <4>1. CASE g = f
        BY <1>11, <2>3, <4>1
      <4>2. CASE g # f
        BY <1>1, <1>7, <2>1, <3>1, <4>2 DEF StdinOnly
      <4> QED BY <4>1, <4>2
    <3> QED BY <3>1 DEF StdinOnly
  <2> QED BY <1>3, <1>4, <1>5, <1>8, <1>9, <2>2, <2>4 DEF Inv
<1> QED BY <1>10, <1>11

(* What a File may come to have open: its name says what. *)
CanOpen(rec, open, x) == IF rec.name = "stdin" THEN x = 0 ELSE x \in Fds \ open

OpensOnly(r, x) ==
  /\ r.fd = DESCRIPTOR_NULL \/ r.fp = DESCRIPTOR_NULL
  /\ \A y \in Fds \cup {0} : Holds(r, y) <=> y = x

(* A Descriptor with an owner, f, that had nothing open opens x.             *)
LEMMA Opens ==
  ASSUME NEW hp, NEW fl, NEW open, Inv(hp, fl, open),
         NEW f \in Files, fl[f] # NoFile, NEW d, d = fl[f].desc, IsNull(hp[d]),
         NEW hp2 \in [Ids -> DescriptorObject], hp2[d].cnt = hp[d].cnt, SameBut(hp, hp2, Ids, d),
         NEW x \in Fds \cup {0}, OpensOnly(hp2[d], x), CanOpen(fl[f], open, x)
  PROVE  Inv(hp2, fl, open \cup {x})
<1>1. /\ Typed(hp, fl, open) /\ Counted(hp, fl) /\ Clean(hp)
      /\ AllHeld(hp, open) /\ OnceHeld(hp) /\ SameStdin(fl) /\ StdinOnly(hp, fl)
  BY DEF Inv
<1>2. d \in Ids /\ hp[d].cnt \in Nat
  BY <1>1 DEF Typed, FileRec, DescriptorObject
<1>3. Typed(hp2, fl, open \cup {x})
  BY <1>1 DEF Typed
<1>4. Counted(hp2, fl)
  BY <1>1, <1>2 DEF Counted, SameBut
<1>5. hp2[d].cnt # 0
  <2>1. f \in Own(fl, d)
    BY DEF Own
  <2>2. hp[d].cnt >= 1
    BY <1>1, <1>2, <2>1, OwnerCounted DEF Counted
  <2> QED BY <1>2, <2>2
<1>6. Clean(hp2)
  BY <1>1, <1>5 DEF Clean, SameBut
<1>7. \A y \in Fds \cup {0} : ~Holds(hp[d], y)
  BY FdIsNotNull DEF IsNull, Holds, DESCRIPTOR_NULL
<1>8. \A e \in Ids \ {d} : \A y : Holds(hp2[e], y) <=> Holds(hp[e], y)
  BY DEF SameBut
<1>9. AllHeld(hp2, open \cup {x})
  <2>1. ASSUME NEW y \in Fds PROVE y \in open \cup {x} <=> \E e \in Ids : Holds(hp2[e], y)
    BY <1>1, <1>2, <1>7, <1>8 DEF AllHeld, OpensOnly
  <2> QED BY <1>1, <2>1 DEF AllHeld
<1>10. OnceHeld(hp2)
  <2>1. x \in Fds => x \notin open
    BY FdIsNotNull DEF CanOpen
  <2>2. ASSUME NEW e \in Ids, NEW g \in Ids, NEW y \in Fds, Holds(hp2[e], y), Holds(hp2[g], y) PROVE e = g
    BY <1>1, <1>2, <1>8, <2>1, <2>2 DEF AllHeld, OnceHeld, OpensOnly
  <2>3. \A e \in Ids : hp2[e].fd = DESCRIPTOR_NULL \/ hp2[e].fp = DESCRIPTOR_NULL
    BY <1>1 DEF OnceHeld, SameBut, OpensOnly
  <2> QED BY <2>2, <2>3 DEF OnceHeld
<1>11. StdinOnly(hp2, fl)
  <2>1. ASSUME NEW g \in Files, fl[g] # NoFile
        PROVE  /\ fl[g].name = "stdin" => \A y \in Fds : ~Holds(hp2[fl[g].desc], y)
               /\ fl[g].name # "stdin" => ~Holds(hp2[fl[g].desc], 0)
    <3>1. CASE fl[g].desc = d
      <4>1. fl[g].name = "stdin" <=> fl[f].name = "stdin"
        BY <1>1, <2>1, <3>1 DEF SameStdin
      <4> QED BY <3>1, <4>1, FdIsNotNull DEF CanOpen, OpensOnly
    <3>2. CASE fl[g].desc # d
      <4>1. fl[g].desc \in Ids \ {d}
        BY <1>1, <2>1, <3>2 DEF Typed, FileRec
      <4> QED BY <1>1, <1>8, <2>1, <4>1 DEF StdinOnly
    <3> QED BY <3>1, <3>2
  <2> QED BY <2>1 DEF StdinOnly
<1> QED BY <1>1, <1>3, <1>4, <1>6, <1>9, <1>10, <1>11 DEF Inv

(* What a Descriptor has open is closed for all its owners. *)
LEMMA Closes ==
  ASSUME NEW hp, NEW fl, NEW open, Inv(hp, fl, open), NEW d \in Ids,
         NEW hp2 \in [Ids -> DescriptorObject], hp2[d].cnt = hp[d].cnt, IsNull(hp2[d]),
         SameBut(hp, hp2, Ids, d),
         NEW closes, 0 \notin closes, \A x \in Fds : x \in closes <=> Holds(hp[d], x)
  PROVE  Inv(hp2, fl, open \ closes)
<1>1. /\ Typed(hp, fl, open) /\ Counted(hp, fl) /\ Clean(hp)
      /\ AllHeld(hp, open) /\ OnceHeld(hp) /\ SameStdin(fl) /\ StdinOnly(hp, fl)
  BY DEF Inv
<1>2. Typed(hp2, fl, open \ closes)
  BY <1>1 DEF Typed
<1>3. Counted(hp2, fl)
  BY <1>1 DEF Counted, SameBut
<1>4. Clean(hp2)
  BY <1>1 DEF Clean, SameBut
<1>5. \A y \in Fds \cup {0} : ~Holds(hp2[d], y)
  BY FdIsNotNull DEF IsNull, Holds, DESCRIPTOR_NULL
<1>6. \A e \in Ids \ {d} : \A y : Holds(hp2[e], y) <=> Holds(hp[e], y)
  BY DEF SameBut
<1>7. AllHeld(hp2, open \ closes)
  <2>1. ASSUME NEW y \in Fds PROVE y \in open \ closes <=> \E e \in Ids : Holds(hp2[e], y)
    BY <1>1, <1>5, <1>6 DEF AllHeld, OnceHeld
  <2> QED BY <1>1, <2>1 DEF AllHeld
<1>8. OnceHeld(hp2)
  BY <1>1, <1>5, <1>6 DEF OnceHeld, IsNull, SameBut
<1>9. StdinOnly(hp2, fl)
  <2>1. \A g \in Files : fl[g] # NoFile => fl[g].desc \in Ids
    BY <1>1 DEF Typed, FileRec
  <2> QED BY <1>1, <1>5, <1>6, <2>1 DEF StdinOnly
<1> QED BY <1>1, <1>2, <1>3, <1>4, <1>7, <1>8, <1>9 DEF Inv

(* f gets another name: of the same sort, or while it has nothing open and   *)
(* shares nothing.                                                           *)
LEMMA IsNamed ==
  ASSUME NEW hp, NEW fl, NEW open, Inv(hp, fl, open),
         NEW f \in Files, fl[f] # NoFile,
         NEW fl2 \in [Files -> FileRec \cup {NoFile}],
         fl2[f] # NoFile, fl2[f].desc = fl[f].desc, SameBut(fl, fl2, Files, f),
         \/ fl2[f].name = "stdin" <=> fl[f].name = "stdin"
         \/ hp[fl[f].desc].cnt = 1 /\ IsNull(hp[fl[f].desc])
  PROVE  Inv(hp, fl2, open)
<1>1. /\ Typed(hp, fl, open) /\ Counted(hp, fl) /\ Clean(hp)
      /\ AllHeld(hp, open) /\ OnceHeld(hp) /\ SameStdin(fl) /\ StdinOnly(hp, fl)
  BY DEF Inv
<1>2. Typed(hp, fl2, open)
  BY <1>1 DEF Typed
<1>3. Counted(hp, fl2)
  <2>1. \A g \in Files : (fl2[g] # NoFile <=> fl[g] # NoFile) /\ fl2[g].desc = fl[g].desc
    BY DEF SameBut
  <2>2. \A e : Count(fl2, e) = Count(fl, e)
    BY <2>1, CountStays
  <2> QED BY <1>1, <2>2 DEF Counted
<1>4. CASE fl2[f].name = "stdin" <=> fl[f].name = "stdin"
  <2>1. \A g \in Files :
          /\ fl2[g] # NoFile <=> fl[g] # NoFile
          /\ fl2[g].desc = fl[g].desc
          /\ fl2[g].name = "stdin" <=> fl[g].name = "stdin"
    BY <1>4 DEF SameBut
  <2>2. SameStdin(fl2)
    BY <1>1, <2>1 DEF SameStdin
  <2>3. StdinOnly(hp, fl2)
    BY <1>1, <2>1 DEF StdinOnly
  <2> QED BY <1>1, <1>2, <1>3, <2>2, <2>3 DEF Inv
<1>5. CASE hp[fl[f].desc].cnt = 1 /\ IsNull(hp[fl[f].desc])
  <2>1. f \in Own(fl, fl[f].desc)
    BY DEF Own
  <2> fl[f].desc \in Ids
    BY <1>1 DEF Typed, FileRec
  <2> Count(fl, fl[f].desc) = 1
    BY <1>1, <1>5 DEF Counted
  <2> \A g \in Own(fl, fl[f].desc) : g = f
    BY <2>1, OwnerCounted
  <2>2. \A g \in Files \ {f} : fl2[g] = fl[g] /\ (fl2[g] # NoFile => fl2[g].desc # fl2[f].desc)
    BY DEF Own, SameBut
  <2>3. SameStdin(fl2)
    BY <1>1, <2>2 DEF SameStdin
  <2>4. \A y \in Fds \cup {0} : ~Holds(hp[fl2[f].desc], y)
    BY <1>5, FdIsNotNull DEF IsNull, Holds, DESCRIPTOR_NULL
  <2>5. StdinOnly(hp, fl2)
    BY <1>1, <2>2, <2>4 DEF StdinOnly
  <2> QED BY <1>1, <1>2, <1>3, <2>3, <2>5 DEF Inv
<1> QED BY <1>4, <1>5

-----------------------------------------------------------------------------
(* The operators of the module, in those terms *)

(* What a File closes when it may: all that its Descriptor has open. *)
LEMMA ClosedIsHeld ==
  ASSUME Inv(heap, file, Accounted), NEW f \in Files, file[f] # NoFile, NEW name,
         \/ IsNull(Desc(f))
         \/ name # Unnamed /\ (name = "stdin" <=> file[f].name = "stdin")
  PROVE  /\ 0 \notin ClosedBy(name, Desc(f))
         /\ \A x \in Fds : x \in ClosedBy(name, Desc(f)) <=> Holds(Desc(f), x)
<1>1. /\ Typed(heap, file, Accounted) /\ OnceHeld(heap) /\ StdinOnly(heap, file)
  BY DEF Inv
<1>2. file[f].desc \in Ids
  BY <1>1 DEF Typed, FileRec
<1>3. Desc(f).fd = DESCRIPTOR_NULL \/ Desc(f).fp = DESCRIPTOR_NULL
  BY <1>1, <1>2 DEF OnceHeld, Desc
<1>4. /\ file[f].name = "stdin" => \A x \in Fds : ~Holds(Desc(f), x)
      /\ file[f].name # "stdin" => ~Holds(Desc(f), 0)
  BY <1>1 DEF StdinOnly, Desc
<1>5. \A x \in Fds \cup {0} : x # DESCRIPTOR_NULL
  BY FdIsNotNull DEF DESCRIPTOR_NULL
<1>6. CASE IsNull(Desc(f))
  <2>1. ClosedBy(name, Desc(f)) = {}
    BY <1>6 DEF ClosedBy, IsNull
  <2>2. \A x \in Fds : ~Holds(Desc(f), x)
    BY <1>5, <1>6 DEF IsNull, Holds
  <2> QED BY <2>1, <2>2
<1>7. CASE name # Unnamed /\ name = "stdin" /\ file[f].name = "stdin"
  <2>1. ClosedBy(name, Desc(f)) = {}
    BY <1>7 DEF ClosedBy
  <2> QED BY <1>4, <1>7, <2>1
<1>8. CASE name # Unnamed /\ name # "stdin" /\ file[f].name # "stdin"
  <2>1. ClosedBy(name, Desc(f)) = {Desc(f).fd, Desc(f).fp} \ {DESCRIPTOR_NULL}
    BY <1>3, <1>8 DEF ClosedBy, CloseRefused
  <2>2. 0 \notin {Desc(f).fd, Desc(f).fp}
    BY <1>4, <1>8 DEF Holds
  <2> QED BY <1>5, <2>1, <2>2 DEF Holds
<1> QED BY <1>6, <1>7, <1>8

(* What goes with the last owner: it is closed, or lost. *)
Gone(name, d) == LastCloses(name, d) \cup LastLoses(name, d)

LEMMA GoneIsHeld ==
  ASSUME Inv(heap, file, Accounted), NEW f \in Files, file[f] # NoFile,
         NEW d, d = file[f].desc, IsLast(heap, d), NEW name,
         IsNull(heap[d]) \/ name = Unnamed \/ (name = "stdin" <=> file[f].name = "stdin")
  PROVE  0 \notin Gone(name, d) /\ \A x \in Fds : x \in Gone(name, d) <=> Holds(heap[d], x)
<1>1. CASE name = Unnamed
  <2>1. LastCloses(name, d) = {} /\ LastLoses(name, d) = Held(heap[d])
    BY <1>1 DEF LastCloses, LastLoses, ClosedBy, CloseRefused
  <2> QED BY <2>1, FdIsNotNull DEF Gone, Held, Holds
<1>2. CASE name # Unnamed
  <2>1. LastCloses(name, d) = ClosedBy(name, Desc(f)) /\ LastLoses(name, d) = {}
    BY <1>2 DEF LastCloses, LastLoses, Desc
  <2>2. IsNull(Desc(f)) \/ (name # Unnamed /\ (name = "stdin" <=> file[f].name = "stdin"))
    BY <1>2 DEF Desc
  <2>3. 0 \notin ClosedBy(name, Desc(f)) /\ \A x \in Fds : x \in ClosedBy(name, Desc(f)) <=> Holds(Desc(f), x)
    BY <2>2, ClosedIsHeld
  <2> QED BY <2>1, <2>3 DEF Gone, Desc
<1> QED BY <1>1, <1>2

(* What is lost is lost at once and for good, and what was closed was not    *)
(* lost.                                                                     *)
LEMMA LostStays ==
  ASSUME Inv(heap, file, Accounted), LostOpen, NEW d \in Ids,
         NEW closes, NEW loses, closes = {} \/ loses = {},
         \A x \in Fds : x \in closes \/ x \in loses => Holds(heap[d], x), loses \subseteq Fds,
         kernel' = kernel \ closes, lost' = lost \cup loses
  PROVE  LostOpen' /\ Accounted' = Accounted \ (closes \cup loses)
<1>1. \A x \in Fds : Holds(heap[d], x) => x \in kernel /\ x \notin lost
  BY DEF Inv, AllHeld, Accounted
<1>2. Accounted' = Accounted \ (closes \cup loses)
  BY DEF Accounted
<1>3. lost' \subseteq kernel'
  BY <1>1 DEF LostOpen
<1> QED BY <1>2, <1>3 DEF LostOpen

LEMMA LostStill ==
  ASSUME Inv(heap, file, Accounted), LostOpen, NEW d \in Ids,
         NEW closes, \A x \in Fds : x \in closes <=> Holds(heap[d], x),
         kernel' = kernel \ closes, lost' = lost
  PROVE  LostOpen' /\ Accounted' = Accounted \ closes
<1>1. lost' = lost \cup {}
  OBVIOUS
<1>2. LostOpen' /\ Accounted' = Accounted \ (closes \cup {})
  BY <1>1, LostStays
<1> QED BY <1>2

LEMMA Leaves ==
  ASSUME Inv(heap, file, Accounted), LostOpen, NEW f \in Files, file[f] # NoFile,
         NEW d, d = file[f].desc, NEW name,
         \/ ~IsLast(heap, d)
         \/ IsNull(heap[d])
         \/ name = Unnamed
         \/ name = "stdin" <=> file[f].name = "stdin",
         LetGo(name, d)
  PROVE  LostOpen' /\ event' \in BOOLEAN /\ Accounted' = Accounted \ Gone(name, d)
<1>1. d \in Ids /\ heap[d] \in DescriptorObject
  BY DEF Inv, Typed, FileRec
<1>2. /\ kernel' = kernel \ LastCloses(name, d) /\ lost' = lost \cup LastLoses(name, d)
      /\ event' \in BOOLEAN
  BY DEF LetGo, LastRefused
<1>3. LastLoses(name, d) \subseteq Fds
  BY <1>1 DEF LastLoses, Held, DescriptorObject
<1>4. LastCloses(name, d) = {} \/ LastLoses(name, d) = {}
  BY DEF LastCloses, LastLoses, ClosedBy, CloseRefused
<1>5. \A x \in Fds : x \in LastCloses(name, d) \/ x \in LastLoses(name, d) => Holds(heap[d], x)
  <2>1. CASE IsLast(heap, d)
    BY <2>1, GoneIsHeld DEF Gone
  <2>2. CASE ~IsLast(heap, d)
    BY <2>2 DEF LastCloses, LastLoses
  <2> QED BY <2>1, <2>2
<1>6. LostOpen' /\ Accounted' = Accounted \ (LastCloses(name, d) \cup LastLoses(name, d))
  BY <1>1, <1>2, <1>3, <1>4, <1>5, LostStays
<1> QED BY <1>2, <1>6 DEF Gone

(* What the destructor, operator= and clear do first. *)
LEMMA LetsGo ==
  ASSUME Inv(heap, file, Accounted), NEW f \in Files, file[f] # NoFile,
         NEW d, d = file[f].desc, NEW name,
         \/ ~IsLast(heap, d)
         \/ IsNull(heap[d])
         \/ name = Unnamed
         \/ name = "stdin" <=> file[f].name = "stdin"
  PROVE  Inv(Dropped(heap, d), [file EXCEPT ![f] = NoFile], Accounted \ Gone(name, d))
<1> DEFINE hp2 == Dropped(heap, d)
           fl2 == [file EXCEPT ![f] = NoFile]
<1>1. /\ Typed(heap, file, Accounted) /\ Counted(heap, file)
  BY DEF Inv
<1>2. d \in Ids /\ heap[d] \in DescriptorObject /\ heap[d].cnt \in Nat
  BY <1>1 DEF Typed, FileRec, DescriptorObject
<1>3. fl2 \in [Files -> FileRec \cup {NoFile}] /\ fl2[f] = NoFile /\ SameBut(file, fl2, Files, f)
  BY <1>1 DEF Typed, SameBut
<1>4. heap[d].cnt >= 1
  <2>1. f \in Own(file, d)
    BY DEF Own
  <2> QED BY <1>1, <1>2, <2>1, OwnerCounted DEF Counted
<1>5. CASE IsLast(heap, d)
  <2>1. hp2 = [heap EXCEPT ![d] = Deleted]
    BY <1>5 DEF Dropped
  <2>2. Deleted \in DescriptorObject /\ Deleted.cnt = 0 /\ IsNull(Deleted)
    BY DEF Deleted, NewDescriptor, DescriptorObject, IsNull
  <2>3. hp2 \in [Ids -> DescriptorObject] /\ hp2[d] = Deleted /\ SameBut(heap, hp2, Ids, d)
    BY <1>1, <1>2, <2>1, <2>2 DEF Typed, SameBut
  <2>5. /\ 0 \notin Gone(name, d)
        /\ \A x \in Fds : x \in Gone(name, d) <=> Holds(heap[d], x)
    BY <1>5, GoneIsHeld
  <2>6. heap[d].cnt = 1 /\ hp2[d].cnt = 0 /\ IsNull(hp2[d])
    BY <1>5, <2>2, <2>3 DEF IsLast
  <2> HIDE DEF hp2, fl2
  <2>7. Inv(hp2, fl2, Accounted \ Gone(name, d))
    BY <1>3, <2>3, <2>5, <2>6, LastLeaves
  <2> QED BY <2>7 DEF hp2, fl2
<1>6. CASE ~IsLast(heap, d)
  <2>1. hp2 = [heap EXCEPT ![d].cnt = @ - 1]
    BY <1>6 DEF Dropped
  <2>2. heap[d].cnt - 1 \in Nat
    BY <1>2, <1>4
  <2>3. [heap[d] EXCEPT !.cnt = @ - 1] \in DescriptorObject
    BY <1>2, <2>2 DEF DescriptorObject
  <2>4. hp2[d] = [heap[d] EXCEPT !.cnt = @ - 1]
    BY <1>1, <1>2, <2>1 DEF Typed
  <2>5. hp2[d].cnt = heap[d].cnt - 1 /\ hp2[d].fd = heap[d].fd /\ hp2[d].fp = heap[d].fp
    BY <1>2, <2>4 DEF DescriptorObject
  <2>6. hp2 \in [Ids -> DescriptorObject] /\ SameBut(heap, hp2, Ids, d)
    BY <1>1, <1>2, <2>1, <2>3 DEF Typed, SameBut
  <2>7. Accounted \ Gone(name, d) = Accounted
    BY <1>6 DEF Gone, LastCloses, LastLoses
  <2>8. heap[d].cnt # 1
    BY <1>6 DEF IsLast
  <2> HIDE DEF hp2, fl2
  <2>9. Inv(hp2, fl2, Accounted)
    BY <1>3, <2>5, <2>6, <2>8, OneLeaves
  <2> QED BY <2>7, <2>9 DEF hp2, fl2
<1> QED BY <1>5, <1>6

(* Shared: another File for the Descriptor of s. *)
LEMMA SharedJoins ==
  ASSUME NEW hp, NEW fl, NEW open, Inv(hp, fl, open),
         NEW f \in Files, fl[f] = NoFile, NEW s \in Files, fl[s] # NoFile,
         NEW fl2 \in [Files -> FileRec \cup {NoFile}], fl2[f] = fl[s], SameBut(fl, fl2, Files, f)
  PROVE  Inv(Shared(hp, fl[s].desc), fl2, open)
<1> DEFINE d == fl[s].desc
           hp2 == Shared(hp, d)
<1>1. /\ Typed(hp, fl, open) /\ Counted(hp, fl)
  BY DEF Inv
<1>2. d \in Ids /\ hp[d] \in DescriptorObject /\ hp[d].cnt \in Nat
  BY <1>1 DEF Typed, FileRec, DescriptorObject
<1>3. hp[d].cnt # 0
  <2>1. s \in Own(fl, d)
    BY DEF Own
  <2> QED BY <1>1, <1>2, <2>1, OwnerCounted DEF Counted
<1>4. hp2 = [hp EXCEPT ![d].cnt = @ + 1]
  BY <1>3 DEF Shared
<1>5. [hp[d] EXCEPT !.cnt = @ + 1] \in DescriptorObject
  BY <1>2 DEF DescriptorObject
<1>6. hp2[d] = [hp[d] EXCEPT !.cnt = @ + 1]
  BY <1>1, <1>2, <1>4 DEF Typed
<1>7. hp2[d].cnt = hp[d].cnt + 1 /\ hp2[d].fd = hp[d].fd /\ hp2[d].fp = hp[d].fp
  BY <1>2, <1>6 DEF DescriptorObject
<1>8. hp2 \in [Ids -> DescriptorObject] /\ SameBut(hp, hp2, Ids, d)
  BY <1>1, <1>2, <1>4, <1>5 DEF Typed, SameBut
<1>9. fl2[f] # NoFile /\ fl2[f].desc = d /\ \E t \in Files : fl[t] # NoFile /\ fl2[f] = fl[t]
  OBVIOUS
<1> HIDE DEF hp2, d
<1>10. Inv(hp2, fl2, open)
  BY <1>2, <1>7, <1>8, <1>9, Joins
<1> QED BY <1>10 DEF hp2, d

(* new Descriptor() for a File without a name. *)
LEMMA NewJoins ==
  ASSUME NEW hp, NEW fl, NEW open, Inv(hp, fl, open),
         NEW f \in Files, fl[f] = NoFile, NEW d \in Unused(hp),
         NEW fl2, fl2 = [fl EXCEPT ![f] = [name |-> Unnamed, desc |-> d]]
  PROVE  Inv([hp EXCEPT ![d] = NewDescriptor], fl2, open)
<1> DEFINE hp2 == [hp EXCEPT ![d] = NewDescriptor]
           rec == [name |-> Unnamed, desc |-> d]
<1>1. Typed(hp, fl, open) /\ Clean(hp)
  BY DEF Inv
<1>2. d \in Ids /\ hp[d].cnt = 0
  BY DEF Unused
<1>3. IsNull(hp[d])
  BY <1>1, <1>2 DEF Clean
<1>4. NewDescriptor \in DescriptorObject /\ NewDescriptor.cnt = 1 /\ IsNull(NewDescriptor)
  BY DEF NewDescriptor, DescriptorObject, IsNull
<1>5. hp2 \in [Ids -> DescriptorObject] /\ hp2[d] = NewDescriptor /\ SameBut(hp, hp2, Ids, d)
  BY <1>1, <1>2, <1>4 DEF Typed, SameBut
<1>6. hp2[d].cnt = hp[d].cnt + 1 /\ hp2[d].fd = hp[d].fd /\ hp2[d].fp = hp[d].fp
  BY <1>2, <1>3, <1>4, <1>5 DEF IsNull
<1>7. rec \in FileRec /\ rec.desc = d /\ rec.name # "stdin"
  BY <1>2, UnnamedIsNotStdin DEF FileRec
<1>8. fl2 \in [Files -> FileRec \cup {NoFile}] /\ fl2[f] = rec /\ SameBut(fl, fl2, Files, f)
  BY <1>1, <1>7 DEF Typed, SameBut
<1>9. fl2[f] # NoFile /\ fl2[f].desc = d /\ fl2[f].name # "stdin"
  BY <1>7, <1>8, NoFileIsNoRec
<1> HIDE DEF hp2, rec
<1>10. Inv(hp2, fl2, open)
  BY <1>2, <1>5, <1>6, <1>8, <1>9, Joins
<1> QED BY <1>10 DEF hp2

WithField(hp, d, field, x) == [hp EXCEPT ![d][field] = x]
WithNone(hp, d) == [hp EXCEPT ![d].fd = DESCRIPTOR_NULL, ![d].fp = DESCRIPTOR_NULL]

(* One of fd_ and fp_ is set in a Descriptor that has nothing open, ... *)
LEMMA FieldOpened ==
  ASSUME NEW hp \in [Ids -> DescriptorObject], NEW d \in Ids, IsNull(hp[d]),
         NEW field \in {"fd", "fp"}, NEW x \in Fds \cup {0},
         NEW hp2, hp2 = WithField(hp, d, field, x)
  PROVE  /\ hp2 \in [Ids -> DescriptorObject] /\ SameBut(hp, hp2, Ids, d)
         /\ hp2[d].cnt = hp[d].cnt /\ OpensOnly(hp2[d], x)
<1>1. x \in Nat /\ x # DESCRIPTOR_NULL
  BY FdIsNotNull DEF DESCRIPTOR_NULL
<1>2. /\ hp2[d] \in DescriptorObject /\ hp2[d].cnt = hp[d].cnt
      /\ \/ hp2[d].fd = DESCRIPTOR_NULL /\ hp2[d].fp = x
         \/ hp2[d].fd = x /\ hp2[d].fp = DESCRIPTOR_NULL
  <2>1. CASE field = "fd"
    <3>1. hp2[d] = [hp[d] EXCEPT !.fd = x]
      BY <2>1 DEF WithField
    <3> QED BY <3>1 DEF DescriptorObject, IsNull
  <2>2. CASE field = "fp"
    <3>1. hp2[d] = [hp[d] EXCEPT !.fp = x]
      BY <2>2 DEF WithField
    <3> QED BY <3>1 DEF DescriptorObject, IsNull
  <2> QED BY <2>1, <2>2
<1>3. hp2 \in [Ids -> DescriptorObject] /\ SameBut(hp, hp2, Ids, d)
  BY <1>2 DEF SameBut, WithField
<1>4. OpensOnly(hp2[d], x)
  BY <1>1, <1>2, FdIsNotNull DEF OpensOnly, Holds, DESCRIPTOR_NULL
<1> QED BY <1>2, <1>3, <1>4

(* ... is reset when the other one is not open, ... *)
LEMMA FieldClosed ==
  ASSUME NEW hp \in [Ids -> DescriptorObject], NEW d \in Ids,
         NEW field, NEW other, (field = "fd" /\ other = "fp") \/ (field = "fp" /\ other = "fd"),
         hp[d][other] = DESCRIPTOR_NULL,
         NEW hp2, hp2 = WithField(hp, d, field, DESCRIPTOR_NULL)
  PROVE  /\ hp2 \in [Ids -> DescriptorObject] /\ SameBut(hp, hp2, Ids, d)
         /\ hp2[d].cnt = hp[d].cnt /\ IsNull(hp2[d])
<1>1. hp2[d] \in DescriptorObject /\ hp2[d].cnt = hp[d].cnt /\ IsNull(hp2[d])
  <2>1. CASE field = "fd" /\ other = "fp"
    <3>1. hp2[d] = [hp[d] EXCEPT !.fd = DESCRIPTOR_NULL] /\ hp[d].fp = DESCRIPTOR_NULL
      BY <2>1 DEF WithField
    <3> QED BY <3>1 DEF DescriptorObject, IsNull
  <2>2. CASE field = "fp" /\ other = "fd"
    <3>1. hp2[d] = [hp[d] EXCEPT !.fp = DESCRIPTOR_NULL] /\ hp[d].fd = DESCRIPTOR_NULL
      BY <2>2 DEF WithField
    <3> QED BY <3>1 DEF DescriptorObject, IsNull
  <2> QED BY <2>1, <2>2
<1>2. hp2 \in [Ids -> DescriptorObject] /\ SameBut(hp, hp2, Ids, d)
  BY <1>1 DEF SameBut, WithField
<1> QED BY <1>1, <1>2

(* ... and both are. *)
LEMMA BothClosed ==
  ASSUME NEW hp \in [Ids -> DescriptorObject], NEW d \in Ids,
         NEW hp2, hp2 = WithNone(hp, d)
  PROVE  /\ hp2 \in [Ids -> DescriptorObject] /\ SameBut(hp, hp2, Ids, d)
         /\ hp2[d].cnt = hp[d].cnt /\ IsNull(hp2[d])
<1>1. hp2[d] = [hp[d] EXCEPT !.fd = DESCRIPTOR_NULL, !.fp = DESCRIPTOR_NULL]
  BY DEF WithNone
<1>2. hp2[d] \in DescriptorObject /\ hp2[d].cnt = hp[d].cnt /\ IsNull(hp2[d])
  BY <1>1 DEF DescriptorObject, IsNull
<1>3. hp2 \in [Ids -> DescriptorObject] /\ SameBut(hp, hp2, Ids, d)
  BY <1>2 DEF SameBut, WithNone
<1> QED BY <1>2, <1>3

Kept == Inv(heap', file', Accounted') /\ LostOpen' /\ event' \in BOOLEAN

(* What is opened anew was not lost. *)
LEMMA OpenedAnew ==
  ASSUME LostOpen, NEW x \in Fds \cup {0}, NEW rec, CanOpen(rec, kernel, x),
         kernel' = kernel \cup {x}, lost' = lost
  PROVE  CanOpen(rec, Accounted, x) /\ Accounted' = Accounted \cup {x} /\ LostOpen'
<1>1. x \notin lost
  BY FdIsNotNull DEF LostOpen, CanOpen
<1>2. Accounted' = Accounted \cup {x}
  BY <1>1 DEF Accounted
<1>3. CanOpen(rec, Accounted, x)
  BY DEF CanOpen, Accounted
<1> QED BY <1>2, <1>3 DEF LostOpen

(* open(2) and fopen(3), or the standard input. *)
LEMMA OpenedKeeps ==
  ASSUME Inv(heap, file, Accounted), LostOpen, NEW f \in Files, file[f] # NoFile, IsNull(Desc(f)),
         NEW field \in {"fd", "fp"}, NEW x \in Fds \cup {0},
         CanOpen(file[f], kernel, x),
         Opened(f, field, x)
  PROVE  Kept
<1> DEFINE d == file[f].desc
<1>1. heap \in [Ids -> DescriptorObject] /\ d \in Ids /\ IsNull(heap[d])
  BY DEF Inv, Typed, FileRec, Desc
<1>2. /\ heap' = WithField(heap, d, field, x) /\ kernel' = kernel \cup {x} /\ file' = file
      /\ event' = FALSE /\ lost' = lost
  BY DEF Opened, WithField
<1>3. /\ heap' \in [Ids -> DescriptorObject] /\ SameBut(heap, heap', Ids, d)
      /\ heap'[d].cnt = heap[d].cnt /\ OpensOnly(heap'[d], x)
  BY <1>1, <1>2, FieldOpened
<1>4. CanOpen(file[f], Accounted, x) /\ Accounted' = Accounted \cup {x} /\ LostOpen'
  BY <1>2, OpenedAnew
<1> HIDE DEF d
<1>5. d = file[f].desc
  BY DEF d
<1>6. Inv(heap', file, Accounted \cup {x})
  BY <1>1, <1>3, <1>4, <1>5, Opens
<1> QED BY <1>2, <1>4, <1>6 DEF Kept

-----------------------------------------------------------------------------
(* The actions *)

LEMMA StaysAccounted ==
  ASSUME LostOpen, kernel' = kernel, lost' = lost
  PROVE  LostOpen' /\ Accounted' = Accounted
BY DEF LostOpen, Accounted

LEMMA QuietKeeps ==
  ASSUME Inv(heap, file, Accounted), LostOpen, Reported \/ Done
  PROVE  Kept
<1>1. heap' = heap /\ file' = file /\ kernel' = kernel /\ lost' = lost /\ event' \in BOOLEAN
  BY DEF Reported, Done
<1> QED BY <1>1, StaysAccounted DEF Kept

LEMMA NothingOpen ==
  ASSUME NEW f
  PROVE  /\ IsNull(Desc(f)) <=> ~IsOpen(f)
         /\ IsNull(Desc(f)) <=> {Desc(f).fd, Desc(f).fp} = {DESCRIPTOR_NULL}
BY DEF IsNull, IsOpen

LEMMA ConstructKeeps ==
  ASSUME Inv(heap, file, Accounted), LostOpen, NEW f \in Files, Construct(f)
  PROVE  Kept
<1>1. PICK d \in Unused(heap) :
        heap' = [heap EXCEPT ![d] = NewDescriptor] /\ file' = [file EXCEPT ![f] = [name |-> Unnamed, desc |-> d]]
  BY DEF Construct
<1>2. file[f] = NoFile /\ kernel' = kernel /\ lost' = lost /\ event' \in BOOLEAN
  BY DEF Construct
<1>3. Inv(heap', file', Accounted)
  BY <1>1, <1>2, NewJoins
<1> QED BY <1>2, <1>3, StaysAccounted DEF Kept

LEMMA CopyConstructKeeps ==
  ASSUME Inv(heap, file, Accounted), LostOpen, NEW f \in Files, NEW s \in Files, CopyConstruct(f, s)
  PROVE  Kept
<1>1. /\ file[f] = NoFile /\ file[s] # NoFile
      /\ file' = [file EXCEPT ![f] = file[s]] /\ heap' = Shared(heap, file[s].desc)
      /\ kernel' = kernel /\ lost' = lost /\ event' \in BOOLEAN
  BY DEF CopyConstruct
<1>2. file \in [Files -> FileRec \cup {NoFile}]
  BY DEF Inv, Typed
<1>3. file' \in [Files -> FileRec \cup {NoFile}] /\ file'[f] = file[s] /\ SameBut(file, file', Files, f)
  BY <1>1, <1>2 DEF SameBut
<1>4. Inv(Shared(heap, file[s].desc), file', Accounted)
  BY <1>1, <1>3, SharedJoins
<1> QED BY <1>1, <1>4, StaysAccounted DEF Kept

LEMMA AssignKeeps ==
  ASSUME Risky = {}, Inv(heap, file, Accounted), LostOpen, NEW f \in Files, NEW s \in Files, Assign(f, s)
  PROVE  Kept
<1> DEFINE name == file[s].name
           old == file[f].desc
           fl1 == [file EXCEPT ![f] = NoFile]
<1>1. /\ file[f] # NoFile /\ file[s] # NoFile /\ f # s
      /\ LetGo(name, old) /\ (MayName(f, name) \/ ~IsLast(heap, old))
      /\ heap' = Shared(Dropped(heap, old), file[s].desc)
      /\ file' = [file EXCEPT ![f] = file[s]]
  BY DEF Assign
<1>2. \/ ~IsLast(heap, old)
      \/ IsNull(heap[old])
      \/ name = "stdin" <=> file[f].name = "stdin"
  <2>1. (name = "stdin" <=> file[f].name = "stdin") \/ ~IsOpen(f) \/ ~IsLast(heap, old)
    BY <1>1 DEF MayName
  <2> QED BY <2>1, NothingOpen DEF Desc
<1>3. Inv(Dropped(heap, old), fl1, Accounted \ Gone(name, old))
  BY <1>1, <1>2, LetsGo
<1>4. file \in [Files -> FileRec \cup {NoFile}]
  BY DEF Inv, Typed
<1>5. fl1[f] = NoFile /\ fl1[s] = file[s] /\ fl1[s] # NoFile
  BY <1>1, <1>4
<1>6. file' \in [Files -> FileRec \cup {NoFile}] /\ file'[f] = fl1[s] /\ SameBut(fl1, file', Files, f)
  BY <1>1, <1>4, <1>5 DEF SameBut
<1>7. LostOpen' /\ event' \in BOOLEAN /\ Accounted' = Accounted \ Gone(name, old)
  BY <1>1, <1>2, Leaves
<1> HIDE DEF fl1
<1>8. Inv(Shared(Dropped(heap, old), fl1[s].desc), file', Accounted \ Gone(name, old))
  BY <1>3, <1>5, <1>6, SharedJoins
<1>9. Inv(heap', file', Accounted')
  BY <1>1, <1>5, <1>7, <1>8
<1> QED BY <1>7, <1>9 DEF Kept

LEMMA DestroyKeeps ==
  ASSUME Risky = {}, Inv(heap, file, Accounted), LostOpen, NEW f \in Files, Destroy(f)
  PROVE  Kept
<1> DEFINE name == file[f].name
           old == file[f].desc
<1>1. /\ file[f] # NoFile /\ LetGo(name, old)
      /\ heap' = Dropped(heap, old)
      /\ file' = [file EXCEPT ![f] = NoFile]
  BY DEF Destroy
<1>2. Inv(Dropped(heap, old), [file EXCEPT ![f] = NoFile], Accounted \ Gone(name, old))
  BY <1>1, LetsGo
<1>3. LostOpen' /\ event' \in BOOLEAN /\ Accounted' = Accounted \ Gone(name, old)
  BY <1>1, Leaves
<1> QED BY <1>1, <1>2, <1>3 DEF Kept

LEMMA ClearKeeps ==
  ASSUME Risky = {}, Inv(heap, file, Accounted), LostOpen, NEW f \in Files, Clear(f)
  PROVE  Kept
<1> DEFINE old == file[f].desc
           hp1 == Dropped(heap, old)
           fl1 == [file EXCEPT ![f] = NoFile]
<1>1. file[f] # NoFile /\ LetGo(Unnamed, old)
  BY DEF Clear
<1>2. PICK d \in Unused(hp1) : /\ heap' = [hp1 EXCEPT ![d] = NewDescriptor]
                               /\ file' = [file EXCEPT ![f] = [name |-> Unnamed, desc |-> d]]
  BY DEF Clear
<1>4. Inv(hp1, fl1, Accounted \ Gone(Unnamed, old))
  BY <1>1, LetsGo
<1>5. file \in [Files -> FileRec \cup {NoFile}]
  BY DEF Inv, Typed
<1>6. fl1[f] = NoFile /\ file' = [fl1 EXCEPT ![f] = [name |-> Unnamed, desc |-> d]]
  BY <1>2, <1>5
<1>7. LostOpen' /\ event' \in BOOLEAN /\ Accounted' = Accounted \ Gone(Unnamed, old)
  BY <1>1, Leaves
<1> HIDE DEF fl1, hp1
<1>8. Inv([hp1 EXCEPT ![d] = NewDescriptor], file', Accounted \ Gone(Unnamed, old))
  BY <1>4, <1>6, NewJoins
<1> QED BY <1>1, <1>2, <1>7, <1>8 DEF Kept

(* A File that is given a name may have it. *)
LEMMA NamedKeeps ==
  ASSUME NEW hp, NEW open, Inv(hp, file, open), NEW f \in Files, file[f] # NoFile,
         NEW name \in Names \cup {Unnamed, "stdin"},
         \/ name = "stdin" <=> file[f].name = "stdin"
         \/ hp[file[f].desc].cnt = 1 /\ IsNull(hp[file[f].desc]),
         NEW fl2, fl2 = [file EXCEPT ![f].name = name]
  PROVE  Inv(hp, fl2, open)
<1>1. file \in [Files -> FileRec \cup {NoFile}]
  BY DEF Inv, Typed
<1>2. file[f] \in FileRec
  BY <1>1
<1>3. fl2[f] = [file[f] EXCEPT !.name = name]
  BY <1>1
<1>4. fl2[f] \in FileRec /\ fl2[f].desc = file[f].desc /\ fl2[f].name = name
  BY <1>2, <1>3 DEF FileRec
<1>5. fl2 \in [Files -> FileRec \cup {NoFile}] /\ SameBut(file, fl2, Files, f)
  BY <1>1, <1>4 DEF SameBut
<1>6. fl2[f] # NoFile
  BY <1>4, NoFileIsNoRec
<1> QED BY <1>4, <1>5, <1>6, IsNamed

LEMMA MayNameMeans ==
  ASSUME Risky = {}, NEW f, NEW name, MayName(f, name)
  PROVE  \/ name = "stdin" <=> file[f].name = "stdin"
         \/ heap[file[f].desc].cnt = 1 /\ IsNull(heap[file[f].desc])
BY NothingOpen DEF MayName, IsLast, Desc

LEMMA SetNameKeeps ==
  ASSUME Risky = {}, Inv(heap, file, Accounted), LostOpen, NEW f \in Files, NEW name \in Names \cup {"stdin"},
         SetName(f, name)
  PROVE  Kept
<1>1. /\ file[f] # NoFile /\ MayName(f, name) /\ heap' = heap /\ kernel' = kernel /\ lost' = lost
      /\ event' \in BOOLEAN
      /\ file' = file \/ file' = [file EXCEPT ![f].name = name]
  BY DEF SetName
<1>2. Inv(heap, [file EXCEPT ![f].name = name], Accounted)
  BY <1>1, MayNameMeans, NamedKeeps
<1> QED BY <1>1, <1>2, StaysAccounted DEF Kept

LEMMA OpenAsKeeps ==
  ASSUME Inv(heap, file, Accounted), LostOpen, NEW f \in Files, file[f] # NoFile, IsNull(Desc(f)),
         NEW field \in {"fd", "fp"}, NEW fd \in Fds, OpenAs(f, field, fd)
  PROVE  Kept
<1>1. CASE file[f].name = Unnamed
  <2>1. Reported
    BY <1>1, UnnamedIsNotStdin DEF OpenAs
  <2> QED BY <2>1, QuietKeeps
<1>2. CASE file[f].name # Unnamed /\ file[f].name = "stdin"
  <2>1. Opened(f, field, 0)
    BY <1>2, UnnamedIsNotStdin DEF OpenAs
  <2>2. CanOpen(file[f], kernel, 0) /\ 0 \in Fds \cup {0}
    BY <1>2 DEF CanOpen
  <2> QED BY <2>1, <2>2, OpenedKeeps
<1>3. CASE file[f].name # Unnamed /\ file[f].name # "stdin"
  <2>1. (fd \notin kernel /\ Opened(f, field, fd)) \/ Reported
    BY <1>3 DEF OpenAs
  <2>2. CASE fd \notin kernel /\ Opened(f, field, fd)
    <3>1. CanOpen(file[f], kernel, fd) /\ fd \in Fds \cup {0}
      BY <1>3, <2>2 DEF CanOpen
    <3> QED BY <2>2, <3>1, OpenedKeeps
  <2> QED BY <2>1, <2>2, QuietKeeps
<1> QED BY <1>1, <1>2, <1>3

LEMMA OpenKeeps ==
  ASSUME Inv(heap, file, Accounted), LostOpen, NEW f \in Files, NEW fd \in Fds, Open(f, fd)
  PROVE  Kept
<1>1. file[f] # NoFile /\ (Reported \/ (~IsOpen(f) /\ OpenAs(f, "fd", fd)))
  BY DEF Open
<1>2. CASE ~IsOpen(f) /\ OpenAs(f, "fd", fd)
  BY <1>1, <1>2, NothingOpen, OpenAsKeeps
<1> QED BY <1>1, <1>2, QuietKeeps

LEMMA FopenKeeps ==
  ASSUME Inv(heap, file, Accounted), LostOpen, NEW f \in Files, NEW fp \in Fds, Fopen(f, fp)
  PROVE  Kept
<1>1. file[f] # NoFile /\ (Reported \/ Done \/ (IsNull(Desc(f)) /\ OpenAs(f, "fp", fp)))
  BY DEF Fopen, IsNull
<1>2. CASE IsNull(Desc(f)) /\ OpenAs(f, "fp", fp)
  BY <1>1, <1>2, OpenAsKeeps
<1> QED BY <1>1, <1>2, QuietKeeps

LEMMA AdoptKeeps ==
  ASSUME Risky = {}, Inv(heap, file, Accounted), LostOpen, NEW f \in Files, NEW field \in {"fd", "fp"}, NEW fd \in Fds,
         Adopt(f, field, fd)
  PROVE  Kept
<1>1. /\ file[f] # NoFile /\ fd \notin kernel /\ file[f].name # "stdin"
      /\ Reported \/ (~IsOpen(f) /\ Opened(f, field, fd))
  BY DEF Adopt
<1>2. CASE ~IsOpen(f) /\ Opened(f, field, fd)
  <2>1. CanOpen(file[f], kernel, fd) /\ fd \in Fds \cup {0}
    BY <1>1 DEF CanOpen
  <2> QED BY <1>1, <1>2, <2>1, NothingOpen, OpenedKeeps
<1> QED BY <1>1, <1>2, QuietKeeps

(* Closing one of fd_ and fp_, when the other is not open. *)
LEMMA CloseFieldKeeps ==
  ASSUME Inv(heap, file, Accounted), LostOpen, NEW f \in Files, file[f] # NoFile,
         NEW field, NEW other, (field = "fd" /\ other = "fp") \/ (field = "fp" /\ other = "fd"),
         CloseField(f, field)
  PROVE  Kept
<1> DEFINE d == file[f].desc
<1>1. Typed(heap, file, Accounted) /\ StdinOnly(heap, file)
  BY DEF Inv
<1>2. d \in Ids /\ heap[d] \in DescriptorObject
  BY <1>1 DEF Typed, FileRec
<1>3. \/ Reported \/ Done
      \/ /\ Desc(f)[other] = DESCRIPTOR_NULL /\ file[f].name # "stdin"
         /\ kernel' = kernel \ {Desc(f)[field]}
         /\ heap' = [heap EXCEPT ![d][field] = DESCRIPTOR_NULL]
         /\ event' = FALSE /\ file' = file /\ lost' = lost
  BY DEF CloseField
<1>4. ASSUME Desc(f)[other] = DESCRIPTOR_NULL, file[f].name # "stdin", kernel' = kernel \ {Desc(f)[field]},
             heap' = [heap EXCEPT ![d][field] = DESCRIPTOR_NULL], event' = FALSE, file' = file,
             lost' = lost
      PROVE  Kept
  <2>1. heap[d][other] = DESCRIPTOR_NULL /\ heap' = WithField(heap, d, field, DESCRIPTOR_NULL)
    BY <1>4 DEF Desc, WithField
  <2>2. /\ heap' \in [Ids -> DescriptorObject] /\ SameBut(heap, heap', Ids, d)
        /\ heap'[d].cnt = heap[d].cnt /\ IsNull(heap'[d])
    BY <1>1, <1>2, <2>1, FieldClosed DEF Typed
  <2>3. ~Holds(heap[d], 0)
    BY <1>1, <1>4 DEF StdinOnly
  <2>4. 0 \notin {Desc(f)[field]} /\ \A x \in Fds : x \in {Desc(f)[field]} <=> Holds(heap[d], x)
    <3>1. CASE field = "fd" /\ other = "fp"
      BY <1>4, <2>3, <3>1, FdIsNotNull DEF Holds, Desc
    <3>2. CASE field = "fp" /\ other = "fd"
      BY <1>4, <2>3, <3>2, FdIsNotNull DEF Holds, Desc
    <3> QED BY <3>1, <3>2
  <2> HIDE DEF d
  <2>5. Inv(heap', file, Accounted \ {Desc(f)[field]})
    BY <1>2, <2>2, <2>4, Closes
  <2>6. LostOpen' /\ Accounted' = Accounted \ {Desc(f)[field]}
    BY <1>2, <1>4, <2>4, LostStill
  <2> QED BY <1>4, <2>5, <2>6 DEF Kept
<1> QED BY <1>3, <1>4, QuietKeeps

(* Unlink and Rename. *)
LEMMA CloseThenNameKeeps ==
  ASSUME Inv(heap, file, Accounted), LostOpen, NEW f \in Files, file[f] # NoFile,
         NEW name \in Names \cup {Unnamed, "stdin"},
         \/ name = "stdin" <=> file[f].name = "stdin"
         \/ heap[file[f].desc].cnt = 1 /\ IsNull(heap[file[f].desc]),
         CloseThenName(f, name)
  PROVE  Kept
<1> DEFINE d == file[f].desc
           closes == ClosedBy(file[f].name, Desc(f))
           hp2 == IF closes = {} THEN heap ELSE WithNone(heap, d)
<1>1. CASE file[f].name = Unnamed
  <2>1. Reported
    BY <1>1 DEF CloseThenName
  <2> QED BY <2>1, QuietKeeps
<1>2. CASE file[f].name # Unnamed
  <2>1. /\ kernel' = kernel \ closes /\ heap' = hp2
        /\ file' = [file EXCEPT ![f].name = name] /\ event' \in BOOLEAN /\ lost' = lost
    BY <1>2 DEF CloseThenName, WithNone
  <2>2. 0 \notin closes /\ \A x \in Fds : x \in closes <=> Holds(heap[d], x)
    BY <1>2, ClosedIsHeld DEF Desc
  <2>3. Typed(heap, file, Accounted)
    BY DEF Inv
  <2>4. d \in Ids /\ heap[d] \in DescriptorObject
    BY <2>3 DEF Typed, FileRec
  <2>5. Inv(hp2, file, Accounted \ closes) /\ (IsNull(heap[d]) => hp2 = heap)
    <3>1. CASE closes = {}
      BY <3>1
    <3>2. CASE closes # {}
      <4>1. /\ hp2 \in [Ids -> DescriptorObject] /\ SameBut(heap, hp2, Ids, d)
            /\ hp2[d].cnt = heap[d].cnt /\ IsNull(hp2[d])
        BY <2>3, <2>4, <3>2, BothClosed DEF Typed
      <4>2. ~IsNull(heap[d])
        <5>1. ASSUME IsNull(heap[d]) PROVE closes = {}
          <6>1. Desc(f).fd = DESCRIPTOR_NULL /\ Desc(f).fp = DESCRIPTOR_NULL
            BY <5>1 DEF IsNull, Desc
          <6> QED BY <6>1 DEF ClosedBy
        <5> QED BY <3>2, <5>1
      <4> HIDE DEF hp2, d, closes
      <4>3. Inv(hp2, file, Accounted \ closes)
        BY <2>2, <2>4, <4>1, Closes
      <4> QED BY <4>2, <4>3
    <3> QED BY <3>1, <3>2
  <2>6. \/ name = "stdin" <=> file[f].name = "stdin"
        \/ hp2[d].cnt = 1 /\ IsNull(hp2[d])
    BY <2>5
  <2> HIDE DEF hp2, closes
  <2>7. Inv(hp2, [file EXCEPT ![f].name = name], Accounted \ closes)
    BY <2>5, <2>6, NamedKeeps
  <2>8. LostOpen' /\ Accounted' = Accounted \ closes
    BY <2>1, <2>2, <2>4, LostStill
  <2> QED BY <2>1, <2>7, <2>8 DEF Kept
<1> QED BY <1>1, <1>2

-----------------------------------------------------------------------------
(* The theorems *)

LEMMA InitKeeps ==
  Init => FileInv
<1> SUFFICES ASSUME Init PROVE FileInv
  OBVIOUS
<1>1. /\ heap = [d \in Ids |-> Deleted] /\ file = [f \in Files |-> NoFile] /\ kernel = {0}
      /\ event = FALSE /\ lost = {}
  BY DEF Init
<1>2. Deleted \in DescriptorObject /\ Deleted.cnt = 0 /\ IsNull(Deleted)
  BY DEF Deleted, NewDescriptor, DescriptorObject, IsNull
<1>3. Constructed = {}
  BY <1>1 DEF Constructed
<1>4. TypeOK
  BY <1>1, <1>2 DEF TypeOK
<1>5. CountIsOwners
  <2>1. \A d \in Ids : {f \in Constructed : file[f].desc = d} = {}
    BY <1>3
  <2> QED BY <1>1, <1>2, <2>1, FS_EmptySet DEF CountIsOwners
<1>6. Live = {}
  BY <1>1, <1>2 DEF Live
<1>7. NothingLeaks /\ HeldOnce
  BY <1>1, <1>6 DEF NothingLeaks, HeldOnce, Accounted
<1>8. DeletedClean /\ StdinAgree /\ StdinHeld
  BY <1>1, <1>3 DEF DeletedClean, StdinAgree, StdinHeld
<1> QED BY <1>4, <1>5, <1>7, <1>8 DEF FileInv

LEMMA StepKept ==
  ASSUME Risky = {}, FileInv, Next
  PROVE  Kept
<1>1. Inv(heap, file, Accounted) /\ LostOpen /\ event \in BOOLEAN
  BY InvIsInv
<1>2. PICK f \in Files :
          \/ Construct(f) \/ Destroy(f) \/ Clear(f) \/ Close(f) \/ Fclose(f) \/ Unlink(f)
          \/ \E s \in Files : CopyConstruct(f, s) \/ Assign(f, s)
          \/ \E name \in Names \cup {"stdin"} : SetName(f, name) \/ Rename(f, name)
          \/ \E fd \in Fds : Open(f, fd) \/ Fopen(f, fd) \/ Adopt(f, "fd", fd) \/ Adopt(f, "fp", fd)
  BY DEF Next
<1>3. CASE Construct(f) \/ Destroy(f) \/ Clear(f)
  BY <1>1, <1>3, ConstructKeeps, DestroyKeeps, ClearKeeps
<1>4. CASE Close(f) \/ Fclose(f)
  BY <1>1, <1>4, CloseFieldKeeps DEF Close, Fclose
<1>5. CASE Unlink(f)
  <2>1. file[f] # NoFile /\ CloseThenName(f, file[f].name)
    BY <1>5 DEF Unlink
  <2>2. file[f].name \in Names \cup {Unnamed, "stdin"}
    BY <1>1, <2>1 DEF Inv, Typed, FileRec
  <2> QED BY <1>1, <2>1, <2>2, CloseThenNameKeeps
<1>6. ASSUME NEW s \in Files, CopyConstruct(f, s) \/ Assign(f, s) PROVE Kept
  BY <1>1, <1>6, CopyConstructKeeps, AssignKeeps
<1>7. ASSUME NEW name \in Names \cup {"stdin"}, SetName(f, name) PROVE Kept
  BY <1>1, <1>7, SetNameKeeps
<1>8. ASSUME NEW name \in Names \cup {"stdin"}, Rename(f, name) PROVE Kept
  <2>1. file[f] # NoFile /\ MayName(f, name) /\ CloseThenName(f, name)
    BY <1>8 DEF Rename
  <2> QED BY <1>1, <2>1, MayNameMeans, CloseThenNameKeeps
<1>9. ASSUME NEW fd \in Fds, Open(f, fd) \/ Fopen(f, fd) PROVE Kept
  BY <1>1, <1>9, OpenKeeps, FopenKeeps
<1>10. ASSUME NEW fd \in Fds, Adopt(f, "fd", fd) \/ Adopt(f, "fp", fd) PROVE Kept
  BY <1>1, <1>10, AdoptKeeps
<1> QED BY <1>2, <1>3, <1>4, <1>5, <1>6, <1>7, <1>8, <1>9, <1>10

LEMMA NextKeeps ==
  ASSUME Risky = {}, FileInv, [Next]_vars
  PROVE  FileInv'
<1>1. Inv(heap, file, Accounted) /\ LostOpen /\ event \in BOOLEAN
  BY InvIsInv
<1>2. CASE Next
  BY <1>2, StepKept, InvIsInv DEF Kept
<1>3. CASE UNCHANGED vars
  <2>1. heap' = heap /\ file' = file /\ kernel' = kernel /\ lost' = lost /\ event' = event
    BY <1>3 DEF vars
  <2> QED BY <1>1, <2>1, StaysAccounted, InvIsInv
<1> QED BY <1>2, <1>3

(* As long as no use is Risky, the count of a Descriptor, what the Files and *)
(* Descriptors have and what the process has open agree: FileInv is          *)
(* inductive over the constructors, operator=, clear, the destructor and     *)
(* every call that opens, closes or names a File.                            *)
THEOREM FileInvHolds ==
  ASSUME Risky = {}
  PROVE  Spec => []FileInv
<1>1. Init => FileInv
  BY InitKeeps
<1>2. FileInv /\ [Next]_vars => FileInv'
  BY NextKeeps
<1> QED BY <1>1, <1>2, PTL DEF Spec

(* cnt_ is the number of Files that point to the Descriptor, whatever is     *)
(* copied, assigned, cleared and destroyed, in whatever order.               *)
THEOREM CountIsOwnersHolds ==
  ASSUME Risky = {}
  PROVE  Spec => []CountIsOwners
<1>1. FileInv => CountIsOwners
  BY DEF FileInv
<1> QED BY <1>1, FileInvHolds, PTL

(* What is open is what some Descriptor holds, or what the last owner of one *)
(* left open because it had no name, as clear of an open File does: no other *)
(* copy, assignment or destruction leaves anything open, and no File has     *)
(* what is closed or what was left so.                                       *)
THEOREM NothingLeaksHolds ==
  ASSUME Risky = {}
  PROVE  Spec => []NothingLeaks
<1>1. FileInv => NothingLeaks
  BY DEF FileInv
<1> QED BY <1>1, FileInvHolds, PTL

-----------------------------------------------------------------------------
(* FileRef implements SharedHandle. h and op are the mapped handles and what *)
(* they have open, in the state (hp, fl).                                    *)
Mapped(h, op, hp, fl) ==
  /\ h \in [Files -> Ids \cup {None}] /\ op \in [Ids -> Fds \cup {None}]
  /\ \A f \in Files : IF fl[f] = NoFile THEN h[f] = None ELSE h[f] = fl[f].desc
  /\ \A d \in Ids, x \in Fds : op[d] = x <=> Holds(hp[d], x)

LEMMA NoneIsNone == None \notin Ids /\ None \notin Fds /\ None # 0
BY IdsAssumption, FdIsNotNull DEF None, DESCRIPTOR_NULL

LEMMA OneHeld ==
  ASSUME NEW hp, NEW fl, NEW open, Inv(hp, fl, open), NEW d \in Ids
  PROVE  LET o == IF Held(hp[d]) = {} THEN None ELSE CHOOSE x \in Held(hp[d]) : TRUE
         IN  o \in Fds \cup {None} /\ \A x \in Fds : o = x <=> Holds(hp[d], x)
<1>1. Typed(hp, fl, open) /\ OnceHeld(hp)
  BY DEF Inv
<1>2. /\ hp[d].fd \in Fds \cup {0, DESCRIPTOR_NULL} /\ hp[d].fp \in Fds \cup {0, DESCRIPTOR_NULL}
      /\ hp[d].fd = DESCRIPTOR_NULL \/ hp[d].fp = DESCRIPTOR_NULL
  BY <1>1 DEF Typed, DescriptorObject, OnceHeld
<1>3. \A x : x \in Held(hp[d]) <=> x \in Fds /\ Holds(hp[d], x)
  BY <1>2, FdIsNotNull DEF Held, Holds
<1>4. \A x, y \in Held(hp[d]) : x = y
  BY <1>2 DEF Held
<1>5. CASE Held(hp[d]) = {}
  BY <1>3, <1>5, NoneIsNone
<1>6. CASE Held(hp[d]) # {}
  <2>1. (CHOOSE x \in Held(hp[d]) : TRUE) \in Held(hp[d])
    BY <1>6
  <2> QED BY <1>3, <1>4, <1>6, <2>1
<1> QED BY <1>5, <1>6

LEMMA MappedIs ==
  /\ Inv(heap, file, Accounted) => Mapped(HandleOf, OpenIn, heap, file)
  /\ Inv(heap', file', Accounted') => Mapped(HandleOf', OpenIn', heap', file')
<1>1. ASSUME Inv(heap, file, Accounted) PROVE Mapped(HandleOf, OpenIn, heap, file)
  <2>1. Typed(heap, file, Accounted)
    BY <1>1 DEF Inv
  <2>2. \A f \in Files : file[f] # NoFile => file[f].desc \in Ids
    BY <2>1 DEF Typed, FileRec
  <2>3. /\ HandleOf \in [Files -> Ids \cup {None}]
        /\ \A f \in Files : IF file[f] = NoFile THEN HandleOf[f] = None ELSE HandleOf[f] = file[f].desc
    BY <2>2 DEF HandleOf
  <2>4. OpenIn \in [Ids -> Fds \cup {None}] /\ \A d \in Ids, x \in Fds : OpenIn[d] = x <=> Holds(heap[d], x)
    BY <1>1, OneHeld DEF OpenIn
  <2> QED BY <2>3, <2>4 DEF Mapped
<1>2. ASSUME Inv(heap', file', Accounted') PROVE Mapped(HandleOf', OpenIn', heap', file')
  <2>1. Typed(heap', file', Accounted')
    BY <1>2 DEF Inv
  <2>2. \A f \in Files : file'[f] # NoFile => file'[f].desc \in Ids
    BY <2>1 DEF Typed, FileRec
  <2>3. /\ HandleOf' \in [Files -> Ids \cup {None}]
        /\ \A f \in Files : IF file'[f] = NoFile THEN HandleOf'[f] = None ELSE HandleOf'[f] = file'[f].desc
    BY <2>2 DEF HandleOf
  <2>4. OpenIn' \in [Ids -> Fds \cup {None}] /\ \A d \in Ids, x \in Fds : OpenIn'[d] = x <=> Holds(heap'[d], x)
    BY <1>2, OneHeld DEF OpenIn
  <2> QED BY <2>3, <2>4 DEF Mapped
<1> QED BY <1>1, <1>2

(* The same Descriptors and the same name-blind Files are the same handles.  *)
LEMMA HandlesStay ==
  ASSUME NEW h, NEW h2, NEW op, NEW op2, NEW hp, NEW hp2, NEW fl, NEW fl2,
         Mapped(h, op, hp, fl), Mapped(h2, op2, hp2, fl2),
         \A f \in Files : (fl2[f] # NoFile <=> fl[f] # NoFile) /\ fl2[f].desc = fl[f].desc
  PROVE  h2 = h
<1>1. \A f \in Files : h2[f] = h[f]
  BY DEF Mapped
<1> QED BY <1>1 DEF Mapped

LEMMA OpenStays ==
  ASSUME NEW h, NEW h2, NEW op, NEW op2, NEW hp, NEW hp2, NEW fl, NEW fl2,
         Mapped(h, op, hp, fl), Mapped(h2, op2, hp2, fl2),
         \A d \in Ids, x \in Fds : Holds(hp2[d], x) <=> Holds(hp[d], x)
  PROVE  op2 = op
<1>1. /\ op2 \in [Ids -> Fds \cup {None}] /\ \A d \in Ids, x \in Fds : op2[d] = x <=> Holds(hp2[d], x)
      /\ op \in [Ids -> Fds \cup {None}] /\ \A d \in Ids, x \in Fds : op[d] = x <=> Holds(hp[d], x)
  BY Zenon DEF Mapped
<1>2. ASSUME NEW d \in Ids PROVE op2[d] = op[d]
  <2>1. op2[d] \in Fds \cup {None} /\ op[d] \in Fds \cup {None}
    BY <1>1
  <2>2. \A x \in Fds : op2[d] = x <=> op[d] = x
    BY <1>1
  <2> QED BY <2>1, <2>2
<1> QED BY <1>1, <1>2

LEMMA HandleChanges ==
  ASSUME NEW h, NEW h2, NEW op, NEW op2, NEW hp, NEW hp2, NEW fl, NEW fl2,
         Mapped(h, op, hp, fl), Mapped(h2, op2, hp2, fl2),
         NEW f \in Files, SameBut(fl, fl2, Files, f)
  PROVE  h2 = [h EXCEPT ![f] = h2[f]]
<1>1. \A g \in Files : h2[g] = [h EXCEPT ![f] = h2[f]][g]
  BY DEF Mapped, SameBut
<1> QED BY <1>1 DEF Mapped

LEMMA OpenChanges ==
  ASSUME NEW h, NEW h2, NEW op, NEW op2, NEW hp, NEW hp2, NEW fl, NEW fl2,
         Mapped(h, op, hp, fl), Mapped(h2, op2, hp2, fl2),
         NEW d \in Ids, \A e \in Ids \ {d}, x \in Fds : Holds(hp2[e], x) <=> Holds(hp[e], x)
  PROVE  op2 = [op EXCEPT ![d] = op2[d]]
<1>1. /\ op2 \in [Ids -> Fds \cup {None}] /\ \A e \in Ids, x \in Fds : op2[e] = x <=> Holds(hp2[e], x)
      /\ op \in [Ids -> Fds \cup {None}] /\ \A e \in Ids, x \in Fds : op[e] = x <=> Holds(hp[e], x)
  BY Zenon DEF Mapped
<1>2. ASSUME NEW e \in Ids \ {d} PROVE op2[e] = op[e]
  <2>1. op2[e] \in Fds \cup {None} /\ op[e] \in Fds \cup {None}
    BY <1>1
  <2>2. \A x \in Fds : op2[e] = x <=> op[e] = x
    BY <1>1
  <2> QED BY <2>1, <2>2
<1>3. \A e \in Ids : op2[e] = [op EXCEPT ![d] = op2[d]][e]
  BY <1>1, <1>2
<1> QED BY <1>1, <1>3

(* Who has a Descriptor is alone with it exactly if it is the last. *)
LEMMA OthersThere ==
  ASSUME Inv(heap, file, Accounted), NEW f \in Files, file[f] # NoFile
  PROVE  IsLast(heap, file[f].desc) <=> ~\E p \in Files \ {f} : HandleOf[p] = HandleOf[f]
<1> DEFINE d == file[f].desc
<1>1. Typed(heap, file, Accounted) /\ Counted(heap, file) /\ Mapped(HandleOf, OpenIn, heap, file)
  BY MappedIs DEF Inv
<1>2. d \in Ids /\ heap[d].cnt = Count(file, d) /\ f \in Own(file, d)
  BY <1>1 DEF Typed, Counted, FileRec, Own
<1>3. Own(file, d) = {p \in Files : HandleOf[p] = d}
  BY <1>1, <1>2, NoneIsNone DEF Mapped, Own
<1>4. HandleOf[f] = d
  BY <1>1 DEF Mapped
<1>5. ASSUME IsLast(heap, d) PROVE \A p \in Own(file, d) : p = f
  BY <1>2, <1>5, OwnerCounted DEF IsLast
<1>6. ASSUME Own(file, d) = {f} PROVE IsLast(heap, d)
  BY <1>2, <1>6, FS_Singleton DEF IsLast, Count
<1> QED BY <1>2, <1>3, <1>4, <1>5, <1>6

-----------------------------------------------------------------------------

(* A step of SharedHandle, or none. *)
Refines == [SH!Next]_(SH!vars)

(* f lets go of its Descriptor, as the destructor, operator= and clear do;   *)
(* whatever it gets next has nothing open.                                   *)
LEMMA LettingGo ==
  ASSUME Inv(heap, file, Accounted), Inv(heap', file', Accounted'), NEW f \in Files, file[f] # NoFile,
         NEW d, d = file[f].desc, NEW name,
         \/ ~IsLast(heap, d)
         \/ IsNull(heap[d])
         \/ name = Unnamed
         \/ name = "stdin" <=> file[f].name = "stdin",
         \A e \in Ids, x \in Fds : Holds(heap'[e], x) <=> Holds(Dropped(heap, d)[e], x),
         Accounted' = Accounted \ Gone(name, d)
  PROVE  OpenIn' = SH!Emptied(f) /\ Accounted' \ {0} = (Accounted \ {0}) \ SH!Left(f)
<1>1. /\ Mapped(HandleOf, OpenIn, heap, file) /\ Mapped(HandleOf', OpenIn', heap', file')
      /\ Typed(heap, file, Accounted)
  BY MappedIs DEF Inv
<1>2. d \in Ids /\ HandleOf[f] = d /\ heap \in [Ids -> DescriptorObject]
  BY <1>1 DEF Typed, FileRec, Mapped
<1>3. CASE IsLast(heap, d)
  <2>1. ~\E p \in Files \ {f} : HandleOf[p] = HandleOf[f]
    BY <1>3, OthersThere
  <2>2. Dropped(heap, d) = [heap EXCEPT ![d] = Deleted]
    BY <1>3 DEF Dropped
  <2>3. \A x \in Fds : ~Holds(Deleted, x)
    BY FdIsNotNull DEF Deleted, NewDescriptor, Holds
  <2>4. \A x \in Fds : ~Holds(heap'[d], x)
    BY <1>2, <2>2, <2>3
  <2>5. OpenIn' = [OpenIn EXCEPT ![d] = OpenIn'[d]]
    <3>1. d \in Ids
      BY <1>2
    <3>2. \A e \in Ids \ {d}, x \in Fds : Holds(heap'[e], x) <=> Holds(heap[e], x)
      BY <1>2, <2>2
    <3> QED BY ONLY <1>1, <3>1, <3>2, OpenChanges
  <2>6. OpenIn'[d] = None
    BY <1>1, <1>2, <2>4 DEF Mapped
  <2>8. 0 \notin Gone(name, d) /\ \A x \in Fds : x \in Gone(name, d) <=> Holds(heap[d], x)
    BY <1>3, GoneIsHeld
  <2>9. \A x \in Fds : x \in {OpenIn[d]} \ {None} <=> Holds(heap[d], x)
    BY <1>1, <1>2, NoneIsNone DEF Mapped
  <2>10. Accounted' \ {0} = (Accounted \ {0}) \ ({OpenIn[d]} \ {None})
    <3>1. \A x \in Accounted \ {0} : x \in Fds
      BY <1>1 DEF Typed
    <3> QED BY <2>8, <2>9, <3>1
  <2>11. SH!Emptied(f) = [OpenIn EXCEPT ![d] = None] /\ SH!Left(f) = {OpenIn[d]} \ {None}
    BY <1>2, <2>1 DEF SH!Emptied, SH!Left
  <2> QED BY <2>5, <2>6, <2>10, <2>11
<1>4. CASE ~IsLast(heap, d)
  <2>1. \E p \in Files \ {f} : HandleOf[p] = HandleOf[f]
    BY <1>4, OthersThere
  <2>2. SH!Emptied(f) = OpenIn /\ SH!Left(f) = {}
    BY <2>1 DEF SH!Emptied, SH!Left
  <2>3. Dropped(heap, d) = [heap EXCEPT ![d].cnt = @ - 1]
    BY <1>4 DEF Dropped
  <2>4. heap[d] \in DescriptorObject /\ Dropped(heap, d)[d] = [heap[d] EXCEPT !.cnt = @ - 1]
    BY <1>2, <2>3
  <2>5. Dropped(heap, d)[d].fd = heap[d].fd /\ Dropped(heap, d)[d].fp = heap[d].fp
    BY <2>4 DEF DescriptorObject
  <2>6. \A e \in Ids \ {d} : Dropped(heap, d)[e] = heap[e]
    BY <1>2, <2>3
  <2>7. \A e \in Ids, x \in Fds : Holds(Dropped(heap, d)[e], x) <=> Holds(heap[e], x)
    <3>1. ASSUME NEW e \in Ids, NEW x \in Fds PROVE Holds(Dropped(heap, d)[e], x) <=> Holds(heap[e], x)
      <4>1. CASE e = d
        BY <2>5, <4>1 DEF Holds
      <4>2. CASE e # d
        BY <2>6, <4>2
      <4> QED BY <4>1, <4>2
    <3> QED BY <3>1
  <2>8. OpenIn' = OpenIn
    BY <1>1, <2>7, OpenStays
  <2>9. Accounted' = Accounted
    BY <1>4 DEF Gone, LastCloses, LastLoses
  <2> QED BY <2>2, <2>8, <2>9
<1> QED BY <1>3, <1>4

(* What is open stays so when only counts change. *)
LEMMA SharedHolds ==
  ASSUME NEW hp \in [Ids -> DescriptorObject], NEW d \in Ids
  PROVE  \A e \in Ids : \A x : Holds(Shared(hp, d)[e], x) <=> Holds(hp[e], x)
<1>1. CASE hp[d].cnt = 0
  BY <1>1 DEF Shared
<1>2. CASE hp[d].cnt # 0
  <2>1. Shared(hp, d) = [hp EXCEPT ![d].cnt = @ + 1]
    BY <1>2 DEF Shared
  <2>2. hp[d] \in DescriptorObject /\ Shared(hp, d)[d] = [hp[d] EXCEPT !.cnt = @ + 1]
    BY <2>1
  <2>3. Shared(hp, d)[d].fd = hp[d].fd /\ Shared(hp, d)[d].fp = hp[d].fp
    BY <2>2 DEF DescriptorObject
  <2>4. ASSUME NEW e \in Ids, NEW x PROVE Holds(Shared(hp, d)[e], x) <=> Holds(hp[e], x)
    <3>1. CASE e = d
      BY <2>3, <3>1 DEF Holds
    <3>2. CASE e # d
      BY <2>1, <3>2
    <3> QED BY <3>1, <3>2
  <2> QED BY <2>4
<1> QED BY <1>1, <1>2

(* A new Descriptor takes an address where nothing was open. *)
LEMMA NewHolds ==
  ASSUME NEW hp, NEW fl, NEW open, Inv(hp, fl, open), NEW d \in Unused(hp)
  PROVE  \A e \in Ids, x \in Fds : Holds([hp EXCEPT ![d] = NewDescriptor][e], x) <=> Holds(hp[e], x)
<1>1. hp \in [Ids -> DescriptorObject] /\ d \in Ids /\ IsNull(hp[d])
  BY DEF Inv, Typed, Clean, Unused
<1>2. IsNull(NewDescriptor)
  BY DEF NewDescriptor, IsNull
<1>3. \A x \in Fds : ~Holds(hp[d], x) /\ ~Holds(NewDescriptor, x)
  BY <1>1, <1>2, FdIsNotNull DEF IsNull, Holds
<1> QED BY <1>1, <1>3

LEMMA MappedBoth ==
  ASSUME Inv(heap, file, Accounted), Kept
  PROVE  /\ Mapped(HandleOf, OpenIn, heap, file) /\ Mapped(HandleOf', OpenIn', heap', file')
         /\ Typed(heap, file, Accounted)
BY MappedIs DEF Kept, Inv

LEMMA QuietRefines ==
  ASSUME Reported \/ Done
  PROVE  Refines
<1>1. heap' = heap /\ file' = file /\ kernel' = kernel /\ lost' = lost
  BY DEF Reported, Done
<1>2. HandleOf' = HandleOf /\ OpenIn' = OpenIn /\ Accounted' = Accounted
  BY <1>1 DEF HandleOf, OpenIn, Accounted
<1> QED BY <1>1, <1>2 DEF Refines, SH!vars

LEMMA ConstructRefines ==
  ASSUME Inv(heap, file, Accounted), LostOpen, Kept, NEW f \in Files, Construct(f)
  PROVE  Refines
<1>1. PICK d \in Unused(heap) :
        heap' = [heap EXCEPT ![d] = NewDescriptor] /\ file' = [file EXCEPT ![f] = [name |-> Unnamed, desc |-> d]]
  BY DEF Construct
<1>2. file[f] = NoFile /\ Accounted' = Accounted
  BY DEF Construct, Accounted
<1>3. /\ Mapped(HandleOf, OpenIn, heap, file) /\ Mapped(HandleOf', OpenIn', heap', file')
      /\ Typed(heap, file, Accounted) /\ Counted(heap, file)
  BY MappedBoth DEF Inv
<1>4. d \in Ids /\ heap[d].cnt = 0
  BY DEF Unused
<1>5. OpenIn' = OpenIn
  <2>1. \A e \in Ids, x \in Fds : Holds(heap'[e], x) <=> Holds(heap[e], x)
    BY <1>1, NewHolds
  <2> QED BY <1>3, <2>1, OpenStays
<1>6. HandleOf' = [HandleOf EXCEPT ![f] = d]
  <2>1. SameBut(file, file', Files, f)
    BY <1>1, <1>3 DEF Typed, SameBut
  <2>2. HandleOf' = [HandleOf EXCEPT ![f] = HandleOf'[f]]
    BY <1>3, <2>1, HandleChanges
  <2>3. file'[f] = [name |-> Unnamed, desc |-> d]
    BY <1>1, <1>3 DEF Typed
  <2>4. file'[f] # NoFile /\ file'[f].desc = d
    BY <1>4, <2>3, NoFileIsNoRec DEF FileRec
  <2>5. HandleOf'[f] = d
    BY <1>3, <2>4 DEF Mapped
  <2> QED BY <2>2, <2>5
<1>7. HandleOf[f] = None
  BY <1>2, <1>3 DEF Mapped
<1>8. ~SH!Owned(d)
  <2>1. ASSUME NEW g \in Files, HandleOf[g] = d PROVE FALSE
    <3>1. g \in Own(file, d)
      BY <1>3, <1>4, <2>1, NoneIsNone DEF Mapped, Own
    <3>2. Count(file, d) = 0
      BY <1>3, <1>4 DEF Counted
    <3> QED BY <3>1, <3>2, OwnerCounted
  <2> QED BY <2>1 DEF SH!Owned
<1>9. SH!Create(f)
  BY <1>2, <1>4, <1>5, <1>6, <1>7, <1>8 DEF SH!Create
<1> QED BY <1>9 DEF Refines, SH!Next

LEMMA CopyConstructRefines ==
  ASSUME Inv(heap, file, Accounted), LostOpen, Kept, NEW f \in Files, NEW s \in Files, CopyConstruct(f, s)
  PROVE  Refines
<1>1. /\ file[f] = NoFile /\ file[s] # NoFile
      /\ file' = [file EXCEPT ![f] = file[s]] /\ heap' = Shared(heap, file[s].desc)
      /\ Accounted' = Accounted
  BY DEF CopyConstruct, Accounted
<1>2. /\ Mapped(HandleOf, OpenIn, heap, file) /\ Mapped(HandleOf', OpenIn', heap', file')
      /\ Typed(heap, file, Accounted)
  BY MappedBoth
<1>3. file[s].desc \in Ids /\ heap \in [Ids -> DescriptorObject]
  BY <1>1, <1>2 DEF Typed, FileRec
<1>4. OpenIn' = OpenIn
  <2>1. \A e \in Ids : \A x : Holds(heap'[e], x) <=> Holds(heap[e], x)
    BY <1>1, <1>3, SharedHolds
  <2> QED BY <1>2, <2>1, OpenStays
<1>5. SameBut(file, file', Files, f) /\ file'[f] = file[s]
  BY <1>1, <1>2 DEF Typed, SameBut
<1>6. HandleOf' = [HandleOf EXCEPT ![f] = HandleOf'[f]]
  BY <1>2, <1>5, HandleChanges
<1>7. HandleOf'[f] = HandleOf[s] /\ HandleOf[f] = None /\ HandleOf[s] # None
  BY <1>1, <1>2, <1>3, <1>5, NoneIsNone DEF Mapped
<1>8. SH!Copy(f, s)
  BY <1>1, <1>4, <1>6, <1>7 DEF SH!Copy
<1> QED BY <1>8 DEF Refines, SH!Next

(* An assignment between Files that share already is nothing at all. *)
LEMMA AssignRefines ==
  ASSUME Risky = {}, Inv(heap, file, Accounted), LostOpen, Kept, NEW f \in Files, NEW s \in Files, Assign(f, s)
  PROVE  Refines
<1> DEFINE name == file[s].name
           old == file[f].desc
<1>1. /\ file[f] # NoFile /\ file[s] # NoFile /\ f # s
      /\ LetGo(name, old) /\ (MayName(f, name) \/ ~IsLast(heap, old))
      /\ heap' = Shared(Dropped(heap, old), file[s].desc)
      /\ file' = [file EXCEPT ![f] = file[s]]
  BY DEF Assign
<1>2. \/ ~IsLast(heap, old)
      \/ IsNull(heap[old])
      \/ name = "stdin" <=> file[f].name = "stdin"
  <2>1. (name = "stdin" <=> file[f].name = "stdin") \/ ~IsOpen(f) \/ ~IsLast(heap, old)
    BY <1>1 DEF MayName
  <2> QED BY <2>1, NothingOpen DEF Desc
<1>3. /\ Mapped(HandleOf, OpenIn, heap, file) /\ Mapped(HandleOf', OpenIn', heap', file')
      /\ Typed(heap, file, Accounted) /\ Inv(heap', file', Accounted')
  BY MappedBoth DEF Kept
<1>4. old \in Ids /\ file[s].desc \in Ids /\ heap \in [Ids -> DescriptorObject]
  BY <1>1, <1>3 DEF Typed, FileRec
<1>5. Dropped(heap, old) \in [Ids -> DescriptorObject]
  <2>1. Inv(Dropped(heap, old), [file EXCEPT ![f] = NoFile], Accounted \ Gone(name, old))
    BY <1>1, <1>2, LetsGo
  <2> QED BY <2>1 DEF Inv, Typed
<1>6. \A e \in Ids, x \in Fds : Holds(heap'[e], x) <=> Holds(Dropped(heap, old)[e], x)
  BY <1>1, <1>4, <1>5, SharedHolds
<1>7. OpenIn' = SH!Emptied(f) /\ Accounted' \ {0} = (Accounted \ {0}) \ SH!Left(f)
  <2>1. Accounted' = Accounted \ Gone(name, old)
    BY <1>1, <1>2, Leaves
  <2> QED BY <1>1, <1>2, <1>3, <1>6, <2>1, LettingGo
<1>8. HandleOf' = [HandleOf EXCEPT ![f] = HandleOf'[f]]
  <2>1. SameBut(file, file', Files, f)
    BY <1>1, <1>3 DEF Typed, SameBut
  <2> QED BY <1>3, <2>1, HandleChanges
<1>9. HandleOf'[f] = HandleOf[s] /\ HandleOf[f] # None /\ HandleOf[s] # None
  <2>1. file'[f] = file[s]
    BY <1>1, <1>3 DEF Typed
  <2> QED BY <1>1, <1>3, <1>4, <2>1, NoneIsNone DEF Mapped
<1>10. CASE HandleOf[f] # HandleOf[s]
  <2>1. SH!Assign(f, s)
    BY <1>7, <1>8, <1>9, <1>10 DEF SH!Assign
  <2> QED BY <2>1 DEF Refines, SH!Next
<1>11. CASE HandleOf[f] = HandleOf[s]
  <2>1. \E p \in Files \ {f} : HandleOf[p] = HandleOf[f]
    BY <1>1, <1>11
  <2>2. OpenIn' = OpenIn /\ Accounted' \ {0} = Accounted \ {0}
    BY <1>7, <2>1 DEF SH!Emptied, SH!Left
  <2>3. HandleOf' = HandleOf
    BY <1>3, <1>8, <1>9, <1>11 DEF Mapped
  <2> QED BY <2>2, <2>3 DEF Refines, SH!vars
<1> QED BY <1>10, <1>11

LEMMA DestroyRefines ==
  ASSUME Risky = {}, Inv(heap, file, Accounted), LostOpen, Kept, NEW f \in Files, Destroy(f)
  PROVE  Refines
<1> DEFINE name == file[f].name
           old == file[f].desc
<1>1. /\ file[f] # NoFile /\ LetGo(name, old)
      /\ heap' = Dropped(heap, old)
      /\ file' = [file EXCEPT ![f] = NoFile]
  BY DEF Destroy
<1>2. Accounted' = Accounted \ Gone(name, old)
  BY <1>1, Leaves
<1>3. /\ Mapped(HandleOf, OpenIn, heap, file) /\ Mapped(HandleOf', OpenIn', heap', file')
      /\ Typed(heap, file, Accounted) /\ Inv(heap', file', Accounted')
  BY MappedBoth DEF Kept
<1>4. OpenIn' = SH!Emptied(f) /\ Accounted' \ {0} = (Accounted \ {0}) \ SH!Left(f)
  BY <1>1, <1>2, <1>3, LettingGo
<1>5. SameBut(file, file', Files, f) /\ file'[f] = NoFile /\ file[f].desc \in Ids
  BY <1>1, <1>3 DEF Typed, SameBut, FileRec
<1>6. HandleOf' = [HandleOf EXCEPT ![f] = HandleOf'[f]]
  BY <1>3, <1>5, HandleChanges
<1>7. HandleOf'[f] = None /\ HandleOf[f] # None
  BY <1>1, <1>3, <1>5, NoneIsNone DEF Mapped
<1>8. SH!Drop(f)
  BY <1>4, <1>6, <1>7 DEF SH!Drop
<1> QED BY <1>8 DEF Refines, SH!Next

LEMMA ClearRefines ==
  ASSUME Risky = {}, Inv(heap, file, Accounted), LostOpen, Kept, NEW f \in Files, Clear(f)
  PROVE  Refines
<1> DEFINE old == file[f].desc
           hp1 == Dropped(heap, old)
           fl1 == [file EXCEPT ![f] = NoFile]
<1>1. file[f] # NoFile /\ LetGo(Unnamed, old)
  BY DEF Clear
<1>2. PICK d \in Unused(hp1) : /\ heap' = [hp1 EXCEPT ![d] = NewDescriptor]
                               /\ file' = [file EXCEPT ![f] = [name |-> Unnamed, desc |-> d]]
  BY DEF Clear
<1>3. Accounted' = Accounted \ Gone(Unnamed, old)
  BY <1>1, Leaves
<1>4. /\ Mapped(HandleOf, OpenIn, heap, file) /\ Mapped(HandleOf', OpenIn', heap', file')
      /\ Typed(heap, file, Accounted) /\ Inv(heap', file', Accounted')
  BY MappedBoth DEF Kept
<1>5. Inv(hp1, fl1, Accounted \ Gone(Unnamed, old))
  BY <1>1, LetsGo
<1>6. \A e \in Ids, x \in Fds : Holds(heap'[e], x) <=> Holds(Dropped(heap, old)[e], x)
  BY <1>2, <1>5, NewHolds
<1>7. OpenIn' = SH!Emptied(f) /\ Accounted' \ {0} = (Accounted \ {0}) \ SH!Left(f)
  BY <1>1, <1>3, <1>4, <1>6, LettingGo
<1>8. d \in Ids /\ hp1[d].cnt = 0 /\ old \in Ids
  BY <1>1, <1>4 DEF Unused, Typed, FileRec
<1>9. SameBut(file, file', Files, f) /\ file'[f] = [name |-> Unnamed, desc |-> d]
  BY <1>2, <1>4 DEF Typed, SameBut
<1>10. file'[f] # NoFile /\ file'[f].desc = d
  BY <1>8, <1>9, NoFileIsNoRec DEF FileRec
<1>11. HandleOf' = [HandleOf EXCEPT ![f] = HandleOf'[f]]
  BY <1>4, <1>9, HandleChanges
<1>12. HandleOf'[f] = d /\ HandleOf[f] # None
  BY <1>1, <1>4, <1>8, <1>10, NoneIsNone DEF Mapped
<1>13. ASSUME NEW p \in Files \ {f}, HandleOf[p] = d PROVE FALSE
  <2>1. fl1[p] = file[p] /\ file[p] # NoFile /\ file[p].desc = d
    BY <1>4, <1>8, <1>13, NoneIsNone DEF Mapped, Typed
  <2>2. p \in Own(fl1, d)
    BY <2>1 DEF Own
  <2>3. Count(fl1, d) = 0
    BY <1>5, <1>8 DEF Inv, Counted
  <2> QED BY <2>2, <2>3, OwnerCounted
<1>14. SH!Renew(f)
  BY <1>7, <1>8, <1>11, <1>12, <1>13 DEF SH!Renew
<1> QED BY <1>14 DEF Refines, SH!Next

LEMMA OpenedRefines ==
  ASSUME Inv(heap, file, Accounted), LostOpen, Kept, NEW f \in Files, file[f] # NoFile, IsNull(Desc(f)),
         NEW field \in {"fd", "fp"}, NEW x \in Fds \cup {0},
         CanOpen(file[f], kernel, x), Opened(f, field, x)
  PROVE  Refines
<1> DEFINE d == file[f].desc
<1>1. /\ Mapped(HandleOf, OpenIn, heap, file) /\ Mapped(HandleOf', OpenIn', heap', file')
      /\ Typed(heap, file, Accounted)
  BY MappedBoth
<1>2. heap \in [Ids -> DescriptorObject] /\ d \in Ids /\ IsNull(heap[d])
  BY <1>1 DEF Typed, FileRec, Desc
<1>3. heap' = WithField(heap, d, field, x) /\ file' = file /\ Accounted' = Accounted \cup {x}
  <2>1. kernel' = kernel \cup {x} /\ lost' = lost
    BY DEF Opened
  <2>2. Accounted' = Accounted \cup {x}
    BY <2>1, OpenedAnew
  <2> QED BY <2>2 DEF Opened, WithField
<1>4. SameBut(heap, heap', Ids, d) /\ OpensOnly(heap'[d], x)
  BY <1>2, <1>3, FieldOpened
<1>5. HandleOf' = HandleOf
  BY <1>3 DEF HandleOf
<1>6. \A e \in Ids \ {d}, y \in Fds : Holds(heap'[e], y) <=> Holds(heap[e], y)
  BY <1>4 DEF SameBut
<1>7. \A y \in Fds : ~Holds(heap[d], y)
  BY <1>2, FdIsNotNull DEF IsNull, Holds
<1>8. CASE x = 0
  <2>1. \A y \in Fds : ~Holds(heap'[d], y)
    BY <1>4, <1>8, FdIsNotNull DEF OpensOnly
  <2>2. \A e \in Ids, y \in Fds : Holds(heap'[e], y) <=> Holds(heap[e], y)
    BY <1>6, <1>7, <2>1
  <2>3. OpenIn' = OpenIn
    BY <1>1, <2>2, OpenStays
  <2>4. Accounted' \ {0} = Accounted \ {0}
    BY <1>3, <1>8
  <2> QED BY <1>5, <2>3, <2>4 DEF Refines, SH!vars
<1>9. CASE x # 0
  <2>1. x \in Fds /\ x \notin Accounted
    BY <1>9 DEF CanOpen, Accounted
  <2>2. OpenIn' = [OpenIn EXCEPT ![d] = OpenIn'[d]]
    BY ONLY <1>1, <1>2, <1>6, OpenChanges
  <2>3. OpenIn[d] = None
    BY <1>1, <1>2, <1>7 DEF Mapped
  <2>4. OpenIn'[d] = x
    BY <1>1, <1>2, <1>4, <2>1 DEF Mapped, OpensOnly
  <2>5. HandleOf[f] = d
    BY <1>1 DEF Mapped
  <2>6. Accounted' \ {0} = (Accounted \ {0}) \cup {x}
    BY <1>3, <1>9
  <2>7. SH!Open(f, x)
    BY <1>2, <1>5, <2>1, <2>2, <2>3, <2>4, <2>5, <2>6, NoneIsNone DEF SH!Open
  <2> QED BY <2>1, <2>7 DEF Refines, SH!Next
<1> QED BY <1>8, <1>9

LEMMA OpenAsRefines ==
  ASSUME Inv(heap, file, Accounted), LostOpen, Kept, NEW f \in Files, file[f] # NoFile, IsNull(Desc(f)),
         NEW field \in {"fd", "fp"}, NEW fd \in Fds, OpenAs(f, field, fd)
  PROVE  Refines
<1>1. CASE file[f].name = Unnamed
  <2>1. Reported
    BY <1>1, UnnamedIsNotStdin DEF OpenAs
  <2> QED BY <2>1, QuietRefines
<1>2. CASE file[f].name # Unnamed /\ file[f].name = "stdin"
  <2>1. Opened(f, field, 0)
    BY <1>2, UnnamedIsNotStdin DEF OpenAs
  <2>2. CanOpen(file[f], kernel, 0) /\ 0 \in Fds \cup {0}
    BY <1>2 DEF CanOpen
  <2> QED BY <2>1, <2>2, OpenedRefines
<1>3. CASE file[f].name # Unnamed /\ file[f].name # "stdin"
  <2>1. (fd \notin kernel /\ Opened(f, field, fd)) \/ Reported
    BY <1>3 DEF OpenAs
  <2>2. CASE fd \notin kernel /\ Opened(f, field, fd)
    <3>1. CanOpen(file[f], kernel, fd) /\ fd \in Fds \cup {0}
      BY <1>3, <2>2 DEF CanOpen
    <3> QED BY <2>2, <3>1, OpenedRefines
  <2> QED BY <2>1, <2>2, QuietRefines
<1> QED BY <1>1, <1>2, <1>3

LEMMA OpeningRefines ==
  ASSUME Risky = {}, Inv(heap, file, Accounted), LostOpen, Kept, NEW f \in Files, NEW fd \in Fds,
         Open(f, fd) \/ Fopen(f, fd) \/ Adopt(f, "fd", fd) \/ Adopt(f, "fp", fd)
  PROVE  Refines
<1>1. CASE Open(f, fd)
  <2>1. file[f] # NoFile /\ (Reported \/ (~IsOpen(f) /\ OpenAs(f, "fd", fd)))
    BY <1>1 DEF Open
  <2>2. CASE ~IsOpen(f) /\ OpenAs(f, "fd", fd)
    BY <2>1, <2>2, NothingOpen, OpenAsRefines
  <2> QED BY <2>1, <2>2, QuietRefines
<1>2. CASE Fopen(f, fd)
  <2>1. file[f] # NoFile /\ (Reported \/ Done \/ (IsNull(Desc(f)) /\ OpenAs(f, "fp", fd)))
    BY <1>2 DEF Fopen, IsNull
  <2>2. CASE IsNull(Desc(f)) /\ OpenAs(f, "fp", fd)
    BY <2>1, <2>2, OpenAsRefines
  <2> QED BY <2>1, <2>2, QuietRefines
<1>3. ASSUME NEW field \in {"fd", "fp"}, Adopt(f, field, fd) PROVE Refines
  <2>1. /\ file[f] # NoFile /\ fd \notin kernel /\ file[f].name # "stdin"
        /\ Reported \/ (~IsOpen(f) /\ Opened(f, field, fd))
    BY <1>3 DEF Adopt
  <2>2. CASE ~IsOpen(f) /\ Opened(f, field, fd)
    <3>1. CanOpen(file[f], kernel, fd) /\ fd \in Fds \cup {0}
      BY <2>1 DEF CanOpen
    <3> QED BY <2>1, <2>2, <3>1, NothingOpen, OpenedRefines
  <2> QED BY <2>1, <2>2, QuietRefines
<1> QED BY <1>1, <1>2, <1>3

(* All that f has open is closed, if there is anything, and for all owners.  *)
LEMMA ClosedRefines ==
  ASSUME Inv(heap, file, Accounted), LostOpen, Kept, NEW f \in Files, file[f] # NoFile, NEW d, d = file[f].desc,
         SameBut(heap, heap', Ids, d), \A x \in Fds : ~Holds(heap'[d], x),
         HandleOf' = HandleOf,
         NEW closes, \A x \in Fds : x \in closes <=> Holds(heap[d], x),
         kernel' = kernel \ closes, lost' = lost
  PROVE  Refines
<1>1. /\ Mapped(HandleOf, OpenIn, heap, file) /\ Mapped(HandleOf', OpenIn', heap', file')
      /\ Typed(heap, file, Accounted)
  BY MappedBoth
<1>2. d \in Ids /\ HandleOf[f] = d
  BY <1>1 DEF Typed, FileRec, Mapped
<1>3. \A e \in Ids \ {d}, x \in Fds : Holds(heap'[e], x) <=> Holds(heap[e], x)
  BY DEF SameBut
<1>4. Accounted' = Accounted \ closes /\ \A x \in Accounted \ {0} : x \in Fds
  BY <1>1, <1>2, LostStill DEF Typed
<1>5. CASE OpenIn[d] = None
  <2>1. \A x \in Fds : ~Holds(heap[d], x)
    BY <1>1, <1>2, <1>5, NoneIsNone DEF Mapped
  <2>2. \A e \in Ids, x \in Fds : Holds(heap'[e], x) <=> Holds(heap[e], x)
    BY <1>3, <2>1
  <2>3. OpenIn' = OpenIn
    BY <1>1, <2>2, OpenStays
  <2>4. Accounted' \ {0} = Accounted \ {0}
    BY <1>4, <2>1
  <2> QED BY <2>3, <2>4 DEF Refines, SH!vars
<1>6. CASE OpenIn[d] # None
  <2>1. OpenIn[d] \in Fds /\ \A x \in Fds : x = OpenIn[d] <=> Holds(heap[d], x)
    BY <1>1, <1>2, <1>6 DEF Mapped
  <2>2. OpenIn' = [OpenIn EXCEPT ![d] = OpenIn'[d]]
    BY ONLY <1>1, <1>2, <1>3, OpenChanges
  <2>3. OpenIn'[d] = None
    BY <1>1, <1>2 DEF Mapped
  <2>4. Accounted' \ {0} = (Accounted \ {0}) \ {OpenIn[d]}
    BY <1>4, <2>1
  <2>5. SH!Close(f)
    BY <1>2, <1>6, <2>2, <2>3, <2>4, NoneIsNone DEF SH!Close
  <2> QED BY <2>5 DEF Refines, SH!Next
<1> QED BY <1>5, <1>6

LEMMA NoneHeld ==
  ASSUME NEW r, IsNull(r)
  PROVE  \A x \in Fds : ~Holds(r, x)
BY FdIsNotNull DEF IsNull, Holds

LEMMA CloseFieldRefines ==
  ASSUME Inv(heap, file, Accounted), LostOpen, Kept, NEW f \in Files, file[f] # NoFile,
         NEW field, NEW other, (field = "fd" /\ other = "fp") \/ (field = "fp" /\ other = "fd"),
         CloseField(f, field)
  PROVE  Refines
<1> DEFINE d == file[f].desc
<1>1. Typed(heap, file, Accounted)
  BY DEF Inv
<1>2. d \in Ids /\ heap[d] \in DescriptorObject
  BY <1>1 DEF Typed, FileRec
<1>3. \/ Reported \/ Done
      \/ /\ heap[d][other] = DESCRIPTOR_NULL
         /\ kernel' = kernel \ {heap[d][field]}
         /\ heap' = WithField(heap, d, field, DESCRIPTOR_NULL)
         /\ file' = file /\ lost' = lost
  BY DEF CloseField, Desc, WithField
<1>4. ASSUME heap[d][other] = DESCRIPTOR_NULL, kernel' = kernel \ {heap[d][field]},
             heap' = WithField(heap, d, field, DESCRIPTOR_NULL), file' = file, lost' = lost
      PROVE  Refines
  <2>1. SameBut(heap, heap', Ids, d) /\ IsNull(heap'[d])
    BY <1>1, <1>2, <1>4, FieldClosed DEF Typed
  <2>2. \A x \in Fds : x \in {heap[d][field]} <=> Holds(heap[d], x)
    <3>1. CASE field = "fd" /\ other = "fp"
      BY <1>4, <3>1, FdIsNotNull DEF Holds
    <3>2. CASE field = "fp" /\ other = "fd"
      BY <1>4, <3>2, FdIsNotNull DEF Holds
    <3> QED BY <3>1, <3>2
  <2>3. HandleOf' = HandleOf
    BY <1>4 DEF HandleOf
  <2>4. \A x \in Fds : ~Holds(heap'[d], x)
    BY <2>1, NoneHeld
  <2> HIDE DEF d
  <2>5. d = file[f].desc
    BY DEF d
  <2> QED BY <1>4, <2>1, <2>2, <2>3, <2>4, <2>5, ClosedRefines
<1> QED BY <1>3, <1>4, QuietRefines

(* A name is not part of what is shared. *)
LEMMA NamedHandles ==
  ASSUME Inv(heap, file, Accounted), LostOpen, Kept, NEW f \in Files, file[f] # NoFile,
         NEW name \in Names \cup {Unnamed, "stdin"}, file' = [file EXCEPT ![f].name = name]
  PROVE  HandleOf' = HandleOf
<1>1. /\ Mapped(HandleOf, OpenIn, heap, file) /\ Mapped(HandleOf', OpenIn', heap', file')
      /\ Typed(heap, file, Accounted)
  BY MappedBoth
<1>2. file[f] \in FileRec /\ file'[f] = [file[f] EXCEPT !.name = name]
  BY <1>1 DEF Typed
<1>3. file'[f] \in FileRec /\ file'[f].desc = file[f].desc
  BY <1>2 DEF FileRec
<1>4. \A g \in Files \ {f} : file'[g] = file[g]
  BY <1>1 DEF Typed
<1>5. \A g \in Files : (file'[g] # NoFile <=> file[g] # NoFile) /\ file'[g].desc = file[g].desc
  BY <1>3, <1>4, NoFileIsNoRec
<1> QED BY ONLY <1>1, <1>5, HandlesStay

LEMMA SetNameRefines ==
  ASSUME Inv(heap, file, Accounted), LostOpen, Kept, NEW f \in Files, NEW name \in Names \cup {"stdin"}, SetName(f, name)
  PROVE  Refines
<1>1. /\ file[f] # NoFile /\ heap' = heap /\ Accounted' = Accounted
      /\ file' = file \/ file' = [file EXCEPT ![f].name = name]
  BY DEF SetName, Accounted
<1>2. HandleOf' = HandleOf
  <2>1. CASE file' = file
    BY <2>1 DEF HandleOf
  <2>2. CASE file' = [file EXCEPT ![f].name = name]
    BY <1>1, <2>2, NamedHandles
  <2> QED BY <1>1, <2>1, <2>2
<1>3. OpenIn' = OpenIn
  BY <1>1 DEF OpenIn
<1> QED BY <1>1, <1>2, <1>3 DEF Refines, SH!vars

(* Unlink and Rename. *)
LEMMA CloseThenNameRefines ==
  ASSUME Inv(heap, file, Accounted), LostOpen, Kept, NEW f \in Files, file[f] # NoFile,
         NEW name \in Names \cup {Unnamed, "stdin"}, CloseThenName(f, name)
  PROVE  Refines
<1> DEFINE d == file[f].desc
           closes == ClosedBy(file[f].name, Desc(f))
<1>1. CASE file[f].name = Unnamed
  <2>1. Reported
    BY <1>1 DEF CloseThenName
  <2> QED BY <2>1, QuietRefines
<1>2. CASE file[f].name # Unnamed
  <2>1. /\ kernel' = kernel \ closes /\ heap' = (IF closes = {} THEN heap ELSE WithNone(heap, d))
        /\ file' = [file EXCEPT ![f].name = name] /\ lost' = lost
    BY <1>2 DEF CloseThenName, WithNone
  <2>2. \A x \in Fds : x \in closes <=> Holds(heap[d], x)
    BY <1>2, ClosedIsHeld DEF Desc
  <2>3. heap \in [Ids -> DescriptorObject] /\ d \in Ids
    BY DEF Inv, Typed, FileRec
  <2>4. HandleOf' = HandleOf
    BY <2>1, NamedHandles
  <2>5. SameBut(heap, heap', Ids, d) /\ \A x \in Fds : ~Holds(heap'[d], x)
    <3>1. CASE closes = {}
      BY <2>1, <2>2, <3>1 DEF SameBut
    <3>2. CASE closes # {}
      <4>1. SameBut(heap, heap', Ids, d) /\ IsNull(heap'[d])
        BY <2>1, <2>3, <3>2, BothClosed
      <4> QED BY <4>1, NoneHeld
    <3> QED BY <3>1, <3>2
  <2> HIDE DEF d, closes
  <2>6. d = file[f].desc
    BY DEF d
  <2> QED BY <2>1, <2>2, <2>4, <2>5, <2>6, ClosedRefines
<1> QED BY <1>1, <1>2

LEMMA InitRefines ==
  Init => SH!Init
<1> SUFFICES ASSUME Init PROVE SH!Init
  OBVIOUS
<1>1. heap = [d \in Ids |-> Deleted] /\ file = [f \in Files |-> NoFile] /\ Accounted = {0}
  BY DEF Init, Accounted
<1>2. Held(Deleted) = {}
  BY DEF Held, Deleted, NewDescriptor, DESCRIPTOR_NULL
<1>3. HandleOf = [o \in Files |-> None] /\ OpenIn = [h \in Ids |-> None] /\ Accounted \ {0} = {}
  BY <1>1, <1>2 DEF HandleOf, OpenIn
<1> QED BY <1>3 DEF SH!Init

LEMMA NextRefines ==
  ASSUME Risky = {}, FileInv, [Next]_vars
  PROVE  Refines
<1>1. Inv(heap, file, Accounted) /\ LostOpen
  BY InvIsInv
<1>2. CASE Next
  <2> Kept
    BY <1>2, StepKept
  <2>1. PICK f \in Files :
          \/ Construct(f) \/ Destroy(f) \/ Clear(f) \/ Close(f) \/ Fclose(f) \/ Unlink(f)
          \/ \E s \in Files : CopyConstruct(f, s) \/ Assign(f, s)
          \/ \E name \in Names \cup {"stdin"} : SetName(f, name) \/ Rename(f, name)
          \/ \E fd \in Fds : Open(f, fd) \/ Fopen(f, fd) \/ Adopt(f, "fd", fd) \/ Adopt(f, "fp", fd)
    BY <1>2 DEF Next
  <2>2. CASE Construct(f) \/ Destroy(f) \/ Clear(f)
    BY <1>1, <2>2, ConstructRefines, DestroyRefines, ClearRefines
  <2>3. CASE Close(f) \/ Fclose(f)
    BY <1>1, <2>3, CloseFieldRefines DEF Close, Fclose
  <2>4. CASE Unlink(f)
    <3>1. file[f] # NoFile /\ CloseThenName(f, file[f].name)
      BY <2>4 DEF Unlink
    <3>2. file[f].name \in Names \cup {Unnamed, "stdin"}
      BY <1>1, <3>1 DEF Inv, Typed, FileRec
    <3> QED BY <1>1, <3>1, <3>2, CloseThenNameRefines
  <2>5. ASSUME NEW s \in Files, CopyConstruct(f, s) \/ Assign(f, s) PROVE Refines
    BY <1>1, <2>5, CopyConstructRefines, AssignRefines
  <2>6. ASSUME NEW name \in Names \cup {"stdin"}, SetName(f, name) \/ Rename(f, name) PROVE Refines
    BY <1>1, <2>6, SetNameRefines, CloseThenNameRefines DEF Rename
  <2>7. ASSUME NEW fd \in Fds, Open(f, fd) \/ Fopen(f, fd) \/ Adopt(f, "fd", fd) \/ Adopt(f, "fp", fd) PROVE Refines
    BY <1>1, <2>7, OpeningRefines
  <2> QED BY <2>1, <2>2, <2>3, <2>4, <2>5, <2>6, <2>7
<1>3. CASE UNCHANGED vars
  <2>1. HandleOf' = HandleOf /\ OpenIn' = OpenIn /\ Accounted' = Accounted
    BY <1>3 DEF vars, HandleOf, OpenIn, Accounted
  <2> QED BY <2>1 DEF Refines, SH!vars
<1> QED BY <1>2, <1>3

(* Files share what is open as SharedHandle says, by counts alone: what a    *)
(* File opened is open for all that were copied or assigned from it until    *)
(* one of them closes it or the last of them is gone, and no File can get at *)
(* it any longer.                                                            *)
THEOREM ImplementsSharedHandleHolds ==
  ASSUME Risky = {}
  PROVE  Spec => ImplementsSharedHandle
<1>1. Init => SH!Init
  BY InitRefines
<1>2. FileInv /\ [Next]_vars => [SH!Next]_(SH!vars)
  BY NextRefines DEF Refines
<1>3. Spec => []FileInv
  BY FileInvHolds
<1> QED BY <1>1, <1>2, <1>3, PTL DEF Spec, ImplementsSharedHandle, SH!Spec
=============================================================================

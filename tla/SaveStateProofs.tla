---------------------------- MODULE SaveStateProofs ----------------------------
(***************************************************************************)
(* What SaveState promises, for any number of discs, slots and events.     *)
(*                                                                         *)
(* Four invariants, each relative to the ones before it: types; what a     *)
(* file, the buffer and the words in flight may hold (Parts); who may      *)
(* touch the buffer (Streams); and whose state a flush takes (Flushing).   *)
(***************************************************************************)
EXTENDS SaveState, TLAPS

(***************************************************************************)
(* The invariants.                                                         *)
(***************************************************************************)
Jobs == {Idle} \cup [kind : {"mount"}, disc : Discs] \cup [kind : {"eject", "switch"}]

Flags ==
  /\ snapPend \in BOOLEAN /\ rstPend \in BOOLEAN /\ busy \in BOOLEAN /\ rbusy \in BOOLEAN
  /\ torn \in BOOLEAN /\ moved \in BOOLEAN /\ valid \in BOOLEAN /\ gate \in BOOLEAN
  /\ menus \in BOOLEAN /\ core \in {"on", "held", "off"}
  /\ job \in Jobs /\ (pc = "mount" => job.kind = "mount")

Types == TypeOK /\ Flags

(* No file is empty, nothing torn reaches the buffer, and what is valid or *)
(* on its way to a file is something.                                      *)
Something(f) == f = NoFile \/ f.blob.part # "none"
Parts ==
  /\ \A d \in Discs : /\ Something(auto[d]) /\ Something(tmp[d])
                      /\ \A s \in Slots : Something(slot[d][s])
  /\ buf.part # "torn" /\ (valid => buf.part # "none")
  /\ pc = "fetch" => valid
  /\ pc \in {"load", "write", "tmp"} => words.part \notin {"none", "torn"}

(* Snapshot and restore exclude each other, but for a stream cut by a      *)
(* request (torn).                                                         *)
Streams ==
  /\ snapPend \/ vm = "snap" => busy \/ torn
  /\ snapPend /\ vm = "snap" => torn
  /\ rbusy => ~busy
  /\ vm = "rst" => rbusy /\ ~rstPend
  /\ rstPend => rbusy
  /\ pc = "fetch" => ~busy
  /\ pc = "load" /\ gate => ~rbusy /\ ~busy /\ (buf = words \/ torn)
  /\ valid /\ ~busy /\ ~(pc = "load" /\ gate) => buf.part = "whole" \/ torn
  /\ rstPend \/ vm = "rst" => sent.part = "whole" /\ (buf = sent \/ torn)

(* While a flush asks, waits and fetches, the disc it is for is in the     *)
(* machine, and a snapshot that has moved on since is of that disc.        *)
OwnAutosave(f, d) == f.hash = d /\ f.blob.of = d /\ f.blob.lived /\ f.blob.part # "torn"
Flushing ==
  /\ discId \in Discs /\ pc # "mount" => at \in {discId, None}
  /\ pc = "mount" => discId \in {job.disc, Pending, None}
  /\ pc \in {"ask", "flush", "fetch"} /\ job # Idle =>
       /\ discId \in Discs
       /\ moved /\ valid => buf.of = at /\ (buf.lived => at # None)
  /\ pc = "fetch" /\ job # Idle => moved
  /\ pc = "tmp" => discId \in Discs /\ words.of = discId /\ words.lived
  /\ pc = "rename" => discId \in Discs /\ OwnAutosave(tmp[discId], discId)
  /\ AutosaveKept

IInv == Types /\ Parts /\ Streams /\ Flushing

(***************************************************************************)
(* Types.                                                                  *)
(***************************************************************************)
USE DEF None, Pending

LEMMA IdIsDisc == ASSUME Types PROVE Id \in Discs \cup {None}
BY SaveStateAssumption DEF Id, Types, TypeOK

LEMMA Blobs ==
  /\ NoBlob \in BlobType /\ NoFile \in FileType
  /\ \A d \in Discs : TornFile(d) \in FileType
BY DEF NoBlob, NoFile, Blob, TornFile, BlobType, FileType

LEMMA FileOfType ==
  ASSUME Types, NEW d \in Discs, NEW s \in Slots \cup {AutoSlot} PROVE FileOf(d, s) \in FileType
BY SaveStateAssumption DEF FileOf, Types, TypeOK, AutoSlot

LEMMA InitTypes == Init => Types
<1> SUFFICES ASSUME Init PROVE Types
  OBVIOUS
<1>1. Flags
  BY DEF Init, Flags, Jobs
<1>2. slot \in [Discs -> [Slots -> FileType]]
  <2>1. PICK d \in Discs : \E f \in Earlier(d) :
          slot = [e \in Discs |-> [s \in Slots |-> IF e = d /\ s = 0 THEN f ELSE NoFile]]
    BY DEF Init
  <2>2. PICK f \in Earlier(d) :
          slot = [e \in Discs |-> [s \in Slots |-> IF e = d /\ s = 0 THEN f ELSE NoFile]]
    BY <2>1
  <2>3. CASE f = TornFile(d)
    BY <2>2, <2>3, Blobs
  <2>4. CASE f = [hash |-> d, blob |-> Blob(d, "other", TRUE)]
    <3>1. f \in FileType
      BY <2>4 DEF FileType, Blob, BlobType
    <3> QED
      BY <2>2, <3>1, Blobs
  <2>5. ASSUME NEW h \in Discs, f = [hash |-> h, blob |-> Blob(h, "whole", TRUE)]
        PROVE  slot \in [Discs -> [Slots -> FileType]]
    <3>1. f \in FileType
      BY <2>5 DEF FileType, Blob, BlobType
    <3> QED
      BY <2>2, <3>1, Blobs
  <2> QED
    BY <2>2, <2>3, <2>4, <2>5 DEF Earlier
<1> QED
  BY <1>1, <1>2, Blobs, SaveStateAssumption DEF Init, Types, TypeOK, AutoSlot

LEMMA CoreTypes == ASSUME TypeOK, Core PROVE TypeOK'
<1> USE DEF Core, TypeOK, hps, files, ask, rst, store, osd
<1>1. CASE VmRests
  BY <1>1 DEF VmRests
<1>2. CASE VmWorks
  BY <1>2 DEF VmWorks
<1>3. CASE SnapTake
  <2>1. buf' \in BlobType
    BY <1>3 DEF SnapTake, Blob, BlobType
  <2> QED
    BY <1>3, <2>1 DEF SnapTake
<1>4. CASE SnapDone
  <2>1. PICK lived \in BOOLEAN : buf' = Blob(at, IF torn THEN "mixed" ELSE "whole", lived)
    BY <1>4, Zenon DEF SnapDone
  <2>2. buf' \in BlobType
    BY <2>1 DEF Blob, BlobType
  <2> QED
    BY <1>4, <2>2 DEF SnapDone
<1>5. CASE RstTake
  BY <1>5 DEF RstTake
<1>6. CASE RstDone
  BY <1>6, Blobs DEF RstDone
<1> QED
  BY <1>1, <1>2, <1>3, <1>4, <1>5, <1>6

LEMMA CoreFlags == ASSUME Types, Core PROVE Flags'
BY DEF Types, Flags, Core, VmRests, VmWorks, SnapTake, SnapDone, RstTake, RstDone,
       ask, rst, store

LEMMA TransactionTypes ==
  ASSUME Types, AskEnds \/ LoadEnds \/ FlushPoll \/ MountDone PROVE TypeOK'
<1>0. TypeOK
  BY DEF Types
<1> USE DEF TypeOK, hps, files, ask, rst, store, osd, link, mach
<1>1. CASE AskEnds
  BY <1>0, <1>1 DEF AskEnds, SnapRequest
<1>2. CASE LoadEnds
  <2>1. sent' \in BlobType
    BY <1>0, <1>2 DEF LoadEnds, LoadChecked
  <2>2. buf' \in BlobType
    <3>1. Blob(None, "mixed", FALSE) \in BlobType
      BY DEF Blob, BlobType
    <3>2. buf' \in {buf, Blob(None, "mixed", FALSE)}
      BY <1>2 DEF LoadEnds, LoadChecked
    <3> QED
      BY <1>0, <3>1, <3>2
  <2> QED
    BY <1>0, <1>2, <2>1, <2>2, Blobs DEF LoadEnds
<1>3. CASE FlushPoll
  BY <1>0, <1>3 DEF FlushPoll
<1>4. CASE MountDone
  <2>1. job.disc \in Discs
    BY <1>4 DEF MountDone, Types, Flags, Jobs, Idle
  <2> QED
    BY <1>0, <1>4, <2>1 DEF MountDone
<1> QED
  BY <1>1, <1>2, <1>3, <1>4

LEMMA TransactionFlags ==
  ASSUME Types, AskEnds \/ LoadEnds \/ FlushPoll \/ MountDone PROVE Flags'
<1> USE DEF Types, Flags, ask, rst, store, mach, link
<1>1. CASE AskEnds
  BY <1>1 DEF AskEnds, SnapRequest
<1>2. CASE LoadEnds
  BY <1>2 DEF LoadEnds, LoadChecked
<1>3. CASE FlushPoll \/ MountDone
  BY <1>3 DEF FlushPoll, MountDone, Jobs
<1> QED
  BY <1>1, <1>2, <1>3

LEMMA StartSaveTypes ==
  ASSUME Types, NEW s, StartSave(s)
  PROVE  /\ discId' \in Discs \cup {None, Pending}
         /\ pc' \in {pc, "ask"} /\ words' = words /\ buf' = buf /\ gate' = gate
         /\ moved' \in BOOLEAN
<1>1. discId' \in Discs \cup {None, Pending}
  BY IdIsDisc DEF StartSave, Types, TypeOK
<1> QED
  BY <1>1 DEF StartSave, Types, Flags

LEMMA StartLoadTypes ==
  ASSUME Types, NEW s \in Slots \cup {AutoSlot}, StartLoad(s)
  PROVE  /\ discId' \in Discs \cup {None, Pending}
         /\ pc' \in {pc, "load"} /\ words' \in BlobType /\ buf' \in BlobType
         /\ gate' \in BOOLEAN /\ moved' = moved
<1>1. discId' \in Discs \cup {None, Pending}
  BY IdIsDisc DEF StartLoad, Types, TypeOK
<1>2. Id # None => FileOf(Id, s).blob \in BlobType
  BY IdIsDisc, FileOfType DEF FileType
<1> QED
  BY <1>1, <1>2 DEF StartLoad, Types, Flags, TypeOK

LEMMA TickTypes == ASSUME Types, Tick PROVE Types'
<1>0. TypeOK /\ row \in Slots \cup {AutoSlot}
  BY DEF Types, TypeOK
<1>1. /\ discId' \in Discs \cup {None, Pending}
      /\ pc' \in {"poll", "ask", "load", "fetch"} /\ words' \in BlobType /\ buf' \in BlobType
      /\ gate' \in BOOLEAN /\ moved' \in BOOLEAN
      /\ op' \in {"idle", "saving", "loading"} /\ (op' = "idle" \/ pc' = "poll")
  <2>1. CASE Request
    <3> USE <2>1 DEF Tick, Request, Types, TypeOK, Flags
    <3>1. CASE StartSave(row)
      BY <3>1, StartSaveTypes
    <3>2. CASE StartLoad(row)
      BY <3>2, <1>0, StartLoadTypes
    <3>3. CASE UNCHANGED <<discId, pc, moved, words, gate, buf>>
      BY <3>3
    <3> QED
      BY <3>1, <3>2, <3>3
  <2>2. CASE PollSave \/ PollLoad
    BY <2>2 DEF Tick, PollSave, PollLoad, Types, TypeOK, Flags
  <2> QED
    BY <2>1, <2>2 DEF Tick
<1>2. TypeOK'
  BY <1>0, <1>1 DEF Tick, TypeOK, files, mach, ask, rst, osd
<1>3. Flags'
  BY <1>1 DEF Tick, Types, Flags, mach, ask, rst
<1> QED
  BY <1>2, <1>3 DEF Types

LEMMA FetchTypes == ASSUME Types, FetchEnds PROVE Types'
<1> USE DEF FetchEnds
<1>0. TypeOK /\ Id \in Discs \cup {None} /\ TornFile(Id) \in FileType \cup {TornFile(None)}
  BY IdIsDisc, Blobs DEF Types
<1>1. /\ discId' \in Discs \cup {None, Pending} /\ words' \in BlobType
      /\ pc' \in {"poll", "write", "leave", "tmp"}
  BY <1>0 DEF TypeOK
<1>2. job # Idle <=> pc' \in {"leave", "tmp"}
  BY DEF FetchEnds
<1>3. slot' \in [Discs -> [Slots -> FileType]]
  <2>1. CASE UNCHANGED slot
    BY <1>0, <2>1 DEF TypeOK
  <2>2. CASE Id # None /\ slot' = [slot EXCEPT ![Id][opSlot] = TornFile(Id)]
    BY <1>0, <2>2, Blobs DEF TypeOK
  <2> QED
    BY <2>1, <2>2
<1>4. tmp' \in [Discs -> FileType]
  <2>1. CASE UNCHANGED tmp
    BY <1>0, <2>1 DEF TypeOK
  <2>2. CASE tmp' = [tmp EXCEPT ![discId] = TornFile(discId)]
    BY <1>0, <2>2, Blobs DEF TypeOK
  <2> QED
    BY <2>1, <2>2
<1>5. TypeOK'
  BY <1>0, <1>1, <1>2, <1>3, <1>4 DEF TypeOK, mach, link, ask, rst, store, osd
<1>6. Flags'
  BY <1>1 DEF Types, Flags, mach, link, ask, rst, store
<1> QED
  BY <1>5, <1>6 DEF Types

LEMMA WriteTypes == ASSUME Types, Write PROVE Types'
<1>0. TypeOK
  BY DEF Types
<1>1. NewFile.blob \in BlobType /\ (discId # Pending => NewFile \in FileType)
  BY <1>0 DEF TypeOK, NewFile, FileType
<1>2. slot' \in [Discs -> [Slots -> FileType]]
  BY <1>0, <1>1, SaveStateAssumption DEF Write, SlotWritten, TmpWritten, Renamed, TypeOK
<1>3. tmp' \in [Discs -> FileType]
  BY <1>0, <1>1, Blobs, SaveStateAssumption DEF Write, SlotWritten, TmpWritten, Renamed, TypeOK
<1>4. auto' \in [Discs -> FileType]
  BY <1>0 DEF Write, SlotWritten, TmpWritten, Renamed, TypeOK
<1>5. TypeOK'
  BY <1>0, <1>2, <1>3, <1>4, Blobs
     DEF Write, SlotWritten, TmpWritten, Renamed, TypeOK, hps, mach, link, ask, rst, store, osd
<1>6. Flags'
  BY DEF Write, SlotWritten, TmpWritten, Renamed, Types, Flags, mach, link, ask, rst, store
<1> QED
  BY <1>5, <1>6 DEF Types

LEMMA BeginTypes == ASSUME Types, NEW j \in Jobs, j # Idle, Begin(j) PROVE Types'
<1> USE DEF Begin, Flush
<1>0. TypeOK
  BY DEF Types
<1>1. /\ discId' \in Discs \cup {None, Pending} /\ job' = j /\ pc' \in {"ask", "leave"}
      /\ pc' = "ask" => op' = "idle"
      /\ op' \in {op, "idle"}
  BY <1>0, IdIsDisc DEF TypeOK
<1>2. moved' \in BOOLEAN
  BY DEF Types, Flags
<1>3. TypeOK'
  BY <1>0, <1>1 DEF TypeOK, files, mach, ask, rst, osd
<1>4. Flags'
  BY <1>1, <1>2 DEF Types, Flags, mach, ask, rst
<1> QED
  BY <1>3, <1>4 DEF Types

LEMMA ResetTypes ==
  ASSUME TypeOK, CoreReset
  PROVE  /\ at' \in Discs \cup {None} /\ vm' \in {"busy", "rest", "snap", "rst"}
         /\ sent' \in BlobType /\ buf' \in BlobType
         /\ row' \in Slots \cup {AutoSlot} /\ sv' \in 0 .. 3 /\ ld' \in 0 .. 3
BY Blobs, SaveStateAssumption DEF CoreReset

LEMMA ResetFlags ==
  ASSUME Types, CoreReset
  PROVE  /\ snapPend' \in BOOLEAN /\ rstPend' \in BOOLEAN /\ busy' \in BOOLEAN
         /\ rbusy' \in BOOLEAN /\ torn' \in BOOLEAN /\ moved' \in BOOLEAN /\ valid' \in BOOLEAN
BY DEF CoreReset, Types, Flags

LEMMA LeaveTypes == ASSUME Types, Leave PROVE Types'
<1> USE DEF Leave
<1>0. TypeOK
  BY DEF Types
<1>1. CASE LeaveForMount
  <2>1. job.disc \in Discs /\ job # Idle
    BY <1>1 DEF LeaveForMount, Types, Flags, Jobs, Idle
  <2>2. TypeOK'
    BY <1>0, <1>1, <2>1 DEF LeaveForMount, NoteMount, TypeOK, files, mach, link, ask, rst, store, osd
  <2> QED
    BY <1>1, <2>2 DEF LeaveForMount, Types, Flags, mach, link, ask, rst, store
<1>2. CASE LeaveForEject
  <2>1. TypeOK'
    BY <1>0, <1>2, ResetTypes DEF LeaveForEject, NoteMount, TypeOK, files
  <2> QED
    BY <1>2, <2>1, ResetFlags DEF LeaveForEject, Types, Flags, Jobs
<1>3. CASE LeaveForCore
  <2>1. TypeOK'
    BY <1>0, <1>3, ResetTypes, Blobs DEF LeaveForCore, HpsReset, TypeOK, files
  <2> QED
    BY <1>3, <2>1, ResetFlags DEF LeaveForCore, HpsReset, Types, Flags, Jobs
<1> QED
  BY <1>1, <1>2, <1>3

LEMMA UserTypes == ASSUME Types, User PROVE Types'
<1>0. TypeOK
  BY DEF Types
<1>1. ASSUME NEW kind, NEW s \in Slots \cup {AutoSlot}, Press(kind, s) PROVE Types'
  <2>0. row' \in Slots \cup {AutoSlot} /\ sv' \in 0 .. 3 /\ ld' \in 0 .. 3
    <3>1. \A n \in 0 .. 3 : (n + 1) % 4 \in 0 .. 3
      OBVIOUS
    <3> QED
      BY <1>0, <1>1, <3>1 DEF Press, TypeOK
  <2>1. TypeOK'
    BY <1>0, <1>1, <2>0 DEF Press, TypeOK, hps, files, mach, ask, rst, store
  <2> QED
    BY <1>1, <2>1 DEF Press, Types, Flags, mach, ask, rst, store
<1>2. ASSUME NEW d \in Discs, Begin([kind |-> "mount", disc |-> d]) PROVE Types'
  BY <1>2, BeginTypes DEF Jobs, Idle
<1>3. ASSUME NEW kind \in {"eject", "switch"}, Begin([kind |-> kind]) PROVE Types'
  BY <1>3, BeginTypes DEF Jobs, Idle
<1>4. CASE OsdReset
  <2>1. TypeOK'
    BY <1>0, <1>4, ResetTypes DEF OsdReset, TypeOK, hps, files
  <2> QED
    BY <1>4, <2>1, ResetFlags DEF OsdReset, Types, Flags
<1>5. CASE DiscMenus
  <2>1. TypeOK'
    BY <1>0, <1>5 DEF DiscMenus, TypeOK, hps, files, mach, link, ask, rst, store, osd
  <2> QED
    BY <1>5, <2>1 DEF DiscMenus, Types, Flags, mach, link, ask, rst, store
<1>6. CASE PowerCut
  <2>1. TypeOK'
    BY <1>0, <1>6, ResetTypes, Blobs DEF PowerCut, HpsReset, TypeOK, files
  <2> QED
    BY <1>6, <2>1, ResetFlags DEF PowerCut, HpsReset, Types, Flags, Jobs
<1> QED
  BY <1>1, <1>2, <1>3, <1>4, <1>5, <1>6 DEF User

LEMMA NextTypes == ASSUME Types, [Next]_vars PROVE Types'
<1>0. TypeOK
  BY DEF Types
<1>1. CASE Core
  BY <1>0, <1>1, CoreTypes, CoreFlags DEF Types
<1>2. CASE AskEnds \/ LoadEnds \/ FlushPoll \/ MountDone
  BY <1>2, TransactionTypes, TransactionFlags DEF Types
<1>3. CASE FetchEnds \/ Write \/ Tick \/ Leave \/ User
  BY <1>3, FetchTypes, WriteTypes, TickTypes, LeaveTypes, UserTypes
<1>4. CASE Remount
  BY <1>4, BeginTypes DEF Remount, Jobs, Idle
<1>5. CASE CoreStarts
  <2>1. TypeOK'
    BY <1>0, <1>5 DEF CoreStarts, TypeOK, hps, files, link, ask, rst, store, osd
  <2> QED
    BY <1>5, <2>1 DEF CoreStarts, Types, Flags, link, ask, rst, store
<1>6. CASE UNCHANGED vars
  <2>1. TypeOK'
    BY <1>0, <1>6 DEF vars, TypeOK, hps, files, mach, link, ask, rst, store, osd
  <2> QED
    BY <1>6, <2>1 DEF vars, Types, Flags, mach, link, ask, rst, store
<1> QED
  BY <1>1, <1>2, <1>3, <1>4, <1>5, <1>6 DEF Next, Hps

(* Types and ranges hold, and no transaction is open without a job or a    *)
(* request that ends it, for any number of discs, slots and events         *)
(* (dvd_sstate.cpp, vm_snap.sv).                                           *)
THEOREM SaveTypes == Spec => []TypeOK
<1>1. Types => TypeOK
  BY DEF Types
<1> QED
  BY <1>1, InitTypes, NextTypes, PTL DEF Spec

(***************************************************************************)
(* What files, buffer and words in flight may hold.                        *)
(***************************************************************************)
LEMMA NoFileIsSomething == Something(NoFile) /\ \A d \in Discs : Something(TornFile(d))
BY DEF Something, TornFile, Blob

LEMMA FileOfSomething ==
  ASSUME Types, Parts, NEW d \in Discs, NEW s \in Slots \cup {AutoSlot} PROVE Something(FileOf(d, s))
BY SaveStateAssumption DEF FileOf, Parts, AutoSlot

LEMMA InitParts == Init => Parts
<1> SUFFICES ASSUME Init PROVE Parts
  OBVIOUS
<1>1. PICK d \in Discs : \E f \in Earlier(d) :
        slot = [e \in Discs |-> [s \in Slots |-> IF e = d /\ s = 0 THEN f ELSE NoFile]]
  BY DEF Init
<1>2. PICK f \in Earlier(d) :
        slot = [e \in Discs |-> [s \in Slots |-> IF e = d /\ s = 0 THEN f ELSE NoFile]]
  BY <1>1
<1>3. Something(f)
  BY <1>2 DEF Earlier, Something, TornFile, Blob
<1>4. \A e \in Discs, s \in Slots : Something(slot[e][s])
  BY <1>2, <1>3, NoFileIsSomething
<1> QED
  BY <1>4, NoFileIsSomething DEF Init, Parts, NoBlob

LEMMA CoreParts == ASSUME Types, Parts, Core PROVE Parts'
<1> USE DEF Core, Parts, files, rst, store
<1>1. CASE VmRests \/ VmWorks \/ RstTake \/ RstDone
  BY <1>1 DEF VmRests, VmWorks, RstTake, RstDone
<1>2. CASE SnapTake
  BY <1>2 DEF SnapTake, Blob
<1>3. CASE SnapDone
  <2>1. buf'.part \in {"mixed", "whole"}
    <3>1. PICK lived \in BOOLEAN : buf' = Blob(at, IF torn THEN "mixed" ELSE "whole", lived)
      BY <1>3, Zenon DEF SnapDone
    <3> QED
      BY <3>1 DEF Blob
  <2> QED
    BY <1>3, <2>1 DEF SnapDone
<1> QED
  BY <1>1, <1>2, <1>3

LEMMA TransactionParts ==
  ASSUME Types, Parts, AskEnds \/ LoadEnds \/ FlushPoll \/ MountDone PROVE Parts'
<1> USE DEF Parts, files, mach, link, store
<1>1. CASE AskEnds
  BY <1>1 DEF AskEnds, SnapRequest
<1>2. CASE LoadEnds
  BY <1>2 DEF LoadEnds, LoadChecked, Blob
<1>3. CASE FlushPoll
  BY <1>3 DEF FlushPoll, Ready
<1>4. CASE MountDone
  BY <1>4 DEF MountDone
<1> QED
  BY <1>1, <1>2, <1>3, <1>4

LEMMA TickParts == ASSUME Types, Parts, Tick PROVE Parts'
<1> USE DEF Tick, Parts, files
<1>1. CASE Request /\ StartSave(row)
  BY <1>1 DEF StartSave
<1>2. CASE Request /\ StartLoad(row)
  <2>1. Id \in Discs \cup {None} /\ row \in Slots \cup {AutoSlot}
    BY IdIsDisc DEF Types, TypeOK
  <2>2. CASE pc' = "load" /\ Id # None /\ words' = FileOf(Id, row).blob /\ buf' \in {buf, words'}
             /\ FileOf(Id, row) # NoFile /\ Good(FileOf(Id, row), Id)
    <3>1. words'.part \notin {"none", "torn"}
      BY <2>1, <2>2, FileOfSomething DEF Good, Something
    <3> QED
      BY <1>2, <2>2, <3>1
  <2>3. CASE UNCHANGED <<pc, words, buf>>
    BY <1>2, <2>3
  <2> QED
    BY <1>2, <2>2, <2>3 DEF StartLoad
<1>3. CASE Request /\ UNCHANGED <<pc, words, buf>>
  BY <1>3
<1>4. CASE PollSave \/ PollLoad
  BY <1>4 DEF PollSave, PollLoad, Ready
<1> QED
  BY <1>1, <1>2, <1>3, <1>4 DEF Request

LEMMA FetchParts == ASSUME Types, Parts, FetchEnds PROVE Parts'
<1> USE DEF FetchEnds, Parts
<1>1. \A d \in Discs, s \in Slots : Something(slot'[d][s])
  <2>1. CASE UNCHANGED slot
    BY <2>1
  <2>2. CASE Id # None /\ slot' = [slot EXCEPT ![Id][opSlot] = TornFile(Id)]
    <3>1. Something(TornFile(Id)) /\ Id \in Discs
      BY <2>2, IdIsDisc, NoFileIsSomething
    <3> QED
      BY <2>2, <3>1 DEF Types, TypeOK
  <2> QED
    BY <2>1, <2>2
<1>2. \A d \in Discs : Something(tmp'[d])
  <2>1. CASE UNCHANGED tmp
    BY <2>1
  <2>2. CASE tmp' = [tmp EXCEPT ![discId] = TornFile(discId)]
    BY <2>2, NoFileIsSomething DEF Types, TypeOK
  <2> QED
    BY <2>1, <2>2
<1> QED
  BY <1>1, <1>2 DEF link, store

LEMMA WriteParts == ASSUME Types, Parts, Write PROVE Parts'
<1> USE DEF Write, Parts
<1>1. CASE SlotWritten
  <2>1. Something(NewFile)
    BY <1>1 DEF SlotWritten, Something, NewFile
  <2>2. \A d \in Discs, s \in Slots : Something(slot'[d][s])
    BY <1>1, <2>1 DEF SlotWritten, Types, TypeOK
  <2> QED
    BY <1>1, <2>2 DEF SlotWritten, link, store
<1>2. CASE TmpWritten
  <2>1. Something(NewFile) /\ Something(NoFile)
    BY <1>2 DEF TmpWritten, Something, NewFile
  <2>2. \A d \in Discs : Something(tmp'[d])
    BY <1>2, <2>1 DEF TmpWritten, Types, TypeOK
  <2> QED
    BY <1>2, <2>2 DEF TmpWritten, link, store
<1>3. CASE Renamed
  <2>1. \A d \in Discs : Something(tmp'[d]) /\ Something(auto'[d])
    BY <1>3, NoFileIsSomething DEF Renamed, Types, TypeOK
  <2> QED
    BY <1>3, <2>1 DEF Renamed, link, store
<1> QED
  BY <1>1, <1>2, <1>3

LEMMA BeginParts == ASSUME Parts, NEW j, Begin(j) PROVE Parts'
BY DEF Begin, Flush, Parts, files

LEMMA ResetParts == ASSUME CoreReset PROVE ~valid' /\ buf'.part = "none"
BY DEF CoreReset, NoBlob

LEMMA OtherParts ==
  ASSUME Types, Parts, Leave \/ User \/ Remount \/ CoreStarts \/ UNCHANGED vars PROVE Parts'
<1> USE DEF Parts
<1>1. CASE Leave
  <2>1. CASE LeaveForMount
    BY <1>1, <2>1 DEF Leave, LeaveForMount, files, link, store
  <2>2. CASE LeaveForEject \/ LeaveForCore
    BY <1>1, <2>2, ResetParts DEF Leave, LeaveForEject, LeaveForCore, HpsReset, files
  <2> QED
    BY <1>1, <2>1, <2>2 DEF Leave
<1>2. CASE User
  <2>1. ASSUME NEW kind, NEW s, Press(kind, s) PROVE Parts'
    BY <2>1 DEF Press, files, store
  <2>2. CASE OsdReset \/ PowerCut
    BY <2>2, ResetParts DEF OsdReset, PowerCut, HpsReset, files
  <2>3. CASE DiscMenus
    BY <2>3 DEF DiscMenus, files, link, store
  <2> QED
    BY <1>2, <2>1, <2>2, <2>3, BeginParts DEF User
<1>3. CASE Remount
  BY <1>3, BeginParts DEF Remount
<1>4. CASE CoreStarts \/ UNCHANGED vars
  BY <1>4 DEF CoreStarts, vars, files, link, store
<1> QED
  BY <1>1, <1>2, <1>3, <1>4

LEMMA NextParts == ASSUME Types, Parts, [Next]_vars PROVE Parts'
BY CoreParts, TransactionParts, TickParts, FetchParts, WriteParts, OtherParts DEF Next, Hps

(***************************************************************************)
(* Who may touch the buffer.                                               *)
(***************************************************************************)
LEMMA InitStreams == Init => Streams
BY DEF Init, Streams

LEMMA CoreStreams == ASSUME Types, Streams, Core PROVE Streams'
<1> USE DEF Core, Streams, ask, rst, store
<1>1. CASE VmRests \/ VmWorks
  BY <1>1 DEF VmRests, VmWorks
<1>2. CASE SnapTake
  BY <1>2 DEF SnapTake
<1>3. CASE SnapDone
  <2>1. ~torn => buf'.part = "whole"
    <3>1. PICK lived \in BOOLEAN : buf' = Blob(at, IF torn THEN "mixed" ELSE "whole", lived)
      BY <1>3, Zenon DEF SnapDone
    <3> QED
      BY <3>1 DEF Blob
  <2>2. /\ vm = "snap" /\ vm' = "rest" /\ busy' = FALSE
        /\ UNCHANGED <<snapPend, torn, rstPend, rbusy, sent, pc, gate, words>>
    BY <1>3 DEF SnapDone
  <2>3. pc = "load" /\ gate => torn
    BY <2>2
  <2>4. rstPend => torn
    BY <2>2
  <2> QED
    BY <2>1, <2>2, <2>3, <2>4
<1>4. CASE RstTake
  BY <1>4 DEF RstTake
<1>5. CASE RstDone
  BY <1>5 DEF RstDone
<1> QED
  BY <1>1, <1>2, <1>3, <1>4, <1>5

LEMMA TransactionStreams ==
  ASSUME Types, Parts, Streams, AskEnds \/ LoadEnds \/ FlushPoll \/ MountDone PROVE Streams'
<1> USE DEF Streams, mach, link, ask, rst, store
<1>1. CASE AskEnds
  BY <1>1 DEF AskEnds, SnapRequest
<1>2. CASE LoadEnds
  <2>1. pc' = "poll" /\ UNCHANGED <<snapPend, busy, torn, vm>> /\ pc = "load"
    BY <1>2 DEF LoadEnds, LoadChecked
  <2>2. CASE Verdict = 1
    <3>1. gate /\ ~rbusy /\ ~busy /\ words.part = "whole"
      BY <1>2, <2>2 DEF LoadEnds, Verdict, Parts, Types, TypeOK, BlobType
    <3>2. rbusy' = TRUE /\ rstPend' = TRUE /\ sent' = words /\ valid' = FALSE /\ buf' = buf
      BY <1>2, <2>2, <3>1 DEF LoadEnds, LoadChecked
    <3> QED
      BY <2>1, <3>1, <3>2
  <2>3. CASE Verdict # 1
    <3>1. UNCHANGED <<rbusy, rstPend, sent>>
      BY <1>2, <2>3 DEF LoadEnds, LoadChecked
    <3>2. CASE rbusy \/ busy
      <4>1. UNCHANGED <<valid, buf>> /\ ~gate
        BY <1>2, <2>1, <3>2 DEF LoadEnds, LoadChecked
      <4> QED
        BY <2>1, <3>1, <3>2, <4>1
    <3>3. CASE ~rbusy /\ ~busy
      <4>1. valid' = FALSE /\ ~rstPend /\ vm # "rst"
        BY <1>2, <3>3 DEF LoadEnds, LoadChecked
      <4> QED
        BY <2>1, <3>1, <3>3, <4>1
    <3> QED
      BY <3>2, <3>3
  <2> QED
    BY <2>2, <2>3
<1>3. CASE FlushPoll
  BY <1>3 DEF FlushPoll, Ready
<1>4. CASE MountDone
  BY <1>4 DEF MountDone
<1> QED
  BY <1>1, <1>2, <1>3, <1>4

LEMMA TickStreams == ASSUME Types, Streams, Tick PROVE Streams'
<1> USE DEF Tick, Streams, ask, rst, mach
<1>1. CASE Request /\ StartSave(row)
  BY <1>1 DEF StartSave
<1>2. CASE Request /\ StartLoad(row)
  <2>1. CASE pc' = "load" /\ words' = FileOf(Id, row).blob /\ gate' = (~rbusy /\ ~busy)
             /\ buf' = IF rbusy \/ busy THEN buf ELSE FileOf(Id, row).blob
    <3>1. CASE rbusy \/ busy
      BY <1>2, <2>1, <3>1
    <3>2. CASE ~rbusy /\ ~busy
      BY <1>2, <2>1, <3>2
    <3> QED
      BY <3>1, <3>2
  <2>2. CASE UNCHANGED <<pc, words, gate, buf>>
    BY <1>2, <2>2
  <2> QED
    BY <1>2, <2>1, <2>2 DEF StartLoad
<1>3. CASE Request /\ UNCHANGED <<pc, words, gate, buf>>
  BY <1>3
<1>4. CASE PollSave \/ PollLoad
  BY <1>4 DEF PollSave, PollLoad, Ready
<1> QED
  BY <1>1, <1>2, <1>3, <1>4 DEF Request

LEMMA FileStreams == ASSUME Streams, FetchEnds \/ Write PROVE Streams'
<1> USE DEF Streams, mach, link, ask, rst, store
<1>1. CASE FetchEnds
  BY <1>1 DEF FetchEnds
<1>2. CASE Write
  BY <1>2 DEF Write, SlotWritten, TmpWritten, Renamed
<1> QED
  BY <1>1, <1>2

LEMMA BeginStreams == ASSUME Streams, NEW j, Begin(j) PROVE Streams'
BY DEF Begin, Flush, Streams, mach, ask, rst

LEMMA ResetStreams == ASSUME CoreReset, pc' = "poll" PROVE Streams'
BY DEF CoreReset, Streams

LEMMA OtherStreams ==
  ASSUME Types, Streams, Leave \/ User \/ Remount \/ CoreStarts \/ UNCHANGED vars PROVE Streams'
<1> USE DEF Streams
<1>1. CASE Leave
  <2>1. CASE LeaveForMount
    BY <1>1, <2>1 DEF Leave, LeaveForMount, mach, link, ask, rst, store
  <2>2. CASE LeaveForEject \/ LeaveForCore
    BY <2>2, ResetStreams DEF LeaveForEject, LeaveForCore, HpsReset
  <2> QED
    BY <1>1, <2>1, <2>2 DEF Leave
<1>2. CASE User
  <2>1. ASSUME NEW kind, NEW s, Press(kind, s) PROVE Streams'
    BY <2>1 DEF Press, mach, ask, rst, store
  <2>2. CASE OsdReset \/ PowerCut
    BY <2>2, ResetStreams DEF OsdReset, PowerCut, HpsReset
  <2>3. CASE DiscMenus
    BY <2>3 DEF DiscMenus, mach, link, ask, rst, store
  <2> QED
    BY <1>2, <2>1, <2>2, <2>3, BeginStreams DEF User
<1>3. CASE Remount
  BY <1>3, BeginStreams DEF Remount
<1>4. CASE CoreStarts \/ UNCHANGED vars
  BY <1>4 DEF CoreStarts, vars, mach, link, ask, rst, store
<1> QED
  BY <1>1, <1>2, <1>3, <1>4

LEMMA NextStreams == ASSUME Types, Parts, Streams, [Next]_vars PROVE Streams'
BY CoreStreams, TransactionStreams, TickStreams, FileStreams, OtherStreams DEF Next, Hps

(***************************************************************************)
(* What the core restores and what both sides read.                        *)
(***************************************************************************)
LEMMA HandshakeInvariant == Spec => [](Types /\ Parts /\ Streams)
<1>1. Init => Types /\ Parts /\ Streams
  BY InitTypes, InitParts, InitStreams
<1>2. Types /\ Parts /\ Streams /\ [Next]_vars => (Types /\ Parts /\ Streams)'
  BY NextTypes, NextParts, NextStreams
<1> QED
  BY <1>1, <1>2, PTL DEF Spec

(* Nothing but a whole file that passed the core's checks is ever restored *)
(* (dvd_sstate.cpp check_file, vm_snap.sv's verdict).                      *)
THEOREM OnlyWholeRestored == Spec => []OnlyWholeApplied
<1>1. Types /\ Parts /\ Streams => OnlyWholeApplied
  BY DEF Streams, OnlyWholeApplied
<1> QED
  BY <1>1, HandshakeInvariant, PTL

(* The buffer holds what was checked until it has been restored: requests  *)
(* and loads of either side are refused meanwhile (vm_snap.sv, rbusy).     *)
THEOREM RestoreIsIntact == Spec => []RestoreIntact
<1>1. Types /\ Parts /\ Streams => RestoreIntact
  BY DEF Streams, RestoreIntact
<1> QED
  BY <1>1, HandshakeInvariant, PTL

(* A snapshot that is fetched is whole, unless a request has cut its       *)
(* stream (vm_snap.sv, busy and seq).                                      *)
THEOREM FetchesAreWhole == Spec => []ReadersSeeWhole
<1>1. Types /\ Parts /\ Streams => ReadersSeeWhole
  BY DEF Parts, Streams, ReadersSeeWhole
<1> QED
  BY <1>1, HandshakeInvariant, PTL

(***************************************************************************)
(* Whose state a flush takes.                                              *)
(***************************************************************************)
LEMMA InitFlushing == Init => Flushing
BY DEF Init, Flushing, AutosaveKept

LEMMA CoreFlushing == ASSUME Types, Flushing, Core PROVE Flushing'
<1> USE DEF Core, Flushing, AutosaveKept, hps, files, ask, rst, store
<1>1. CASE VmRests \/ VmWorks \/ RstTake \/ RstDone
  BY <1>1 DEF VmRests, VmWorks, RstTake, RstDone
<1>2. CASE SnapTake
  <2>1. buf'.of = at /\ ~buf'.lived
    BY <1>2 DEF SnapTake, Blob
  <2> QED
    BY <1>2, <2>1 DEF SnapTake
<1>3. CASE SnapDone
  <2>1. PICK lived \in {FALSE, at # None} : buf' = Blob(at, IF torn THEN "mixed" ELSE "whole", lived)
    BY <1>3, Zenon DEF SnapDone
  <2>2. lived => at # None
    BY <2>1
  <2>3. buf'.of = at /\ buf'.lived = lived
    BY <2>1 DEF Blob
  <2>4. moved' = TRUE /\ UNCHANGED <<pc, job, at, discId, words, tmp, auto>>
    BY <1>3 DEF SnapDone
  <2> QED
    BY <2>2, <2>3, <2>4
<1> QED
  BY <1>1, <1>2, <1>3

LEMMA TransactionFlushing ==
  ASSUME Types, Flushing, AskEnds \/ LoadEnds \/ FlushPoll \/ MountDone PROVE Flushing'
<1> USE DEF Flushing, AutosaveKept, hps, files, mach, link, ask, rst, store
<1>1. CASE AskEnds
  BY <1>1 DEF AskEnds, SnapRequest
<1>2. CASE LoadEnds
  <2>1. job = Idle
    BY <1>2 DEF LoadEnds, Types, TypeOK
  <2> QED
    BY <1>2, <2>1 DEF LoadEnds
<1>3. CASE FlushPoll
  <2>1. job # Idle
    BY <1>3 DEF FlushPoll, Types, TypeOK
  <2> QED
    BY <1>3, <2>1 DEF FlushPoll, Ready
<1>4. CASE MountDone
  BY <1>4, SaveStateAssumption DEF MountDone
<1> QED
  BY <1>1, <1>2, <1>3, <1>4

LEMMA TickFlushing == ASSUME Types, Flushing, Tick PROVE Flushing'
<1> USE DEF Tick, Flushing, AutosaveKept, files, mach
<1>1. job = Idle /\ pc = "poll"
  BY DEF Types, TypeOK
<1>2. discId' = discId \/ discId' = Id
  BY DEF Request, StartSave, StartLoad, PollSave, PollLoad
<1>3. discId' \in Discs => at \in {discId', None}
  BY <1>1, <1>2, SaveStateAssumption DEF Id, Types, TypeOK
<1>4. pc' \in {"poll", "ask", "load", "fetch"}
  BY <1>1 DEF Request, StartSave, StartLoad, PollSave, PollLoad
<1> QED
  BY <1>1, <1>3, <1>4

LEMMA FetchFlushing == ASSUME Types, Parts, Flushing, FetchEnds PROVE Flushing'
<1> USE DEF FetchEnds, Flushing, AutosaveKept, mach, link, store
<1>1. CASE job = Idle
  <2>1. discId' = Id /\ pc' \in {"poll", "write"} /\ UNCHANGED <<auto, at, job>>
    BY <1>1
  <2>2. discId' \in Discs => at \in {discId', None}
    BY <2>1, SaveStateAssumption DEF Id, Types, TypeOK
  <2> QED
    BY <2>1, <2>2
<1>2. CASE job # Idle
  <2>1. discId \in Discs /\ buf.of = at /\ (buf.lived => at = discId)
    BY <1>2 DEF Parts
  <2>2. CASE ~buf.lived
    BY <1>2, <2>2
  <2>3. CASE buf.lived
    BY <1>2, <2>1, <2>3
  <2> QED
    BY <2>2, <2>3
<1> QED
  BY <1>1, <1>2

LEMMA WriteFlushing == ASSUME Types, Parts, Flushing, Write PROVE Flushing'
<1> USE DEF Write, Flushing, hps, mach, link, store
<1>1. CASE SlotWritten
  BY <1>1 DEF SlotWritten, AutosaveKept
<1>2. CASE TmpWritten
  <2>1. CASE pc' = "rename" /\ tmp' = [tmp EXCEPT ![discId] = NewFile]
    <3>1. discId \in Discs /\ tmp'[discId] = NewFile
      BY <1>2, <2>1 DEF TmpWritten, Types, TypeOK
    <3>2. OwnAutosave(NewFile, discId)
      BY <1>2 DEF TmpWritten, OwnAutosave, NewFile, Parts
    <3> QED
      BY <1>2, <2>1, <3>1, <3>2 DEF TmpWritten, AutosaveKept
  <2>2. CASE pc' = "leave"
    BY <1>2, <2>2 DEF TmpWritten, AutosaveKept
  <2> QED
    BY <1>2, <2>1, <2>2 DEF TmpWritten
<1>3. CASE Renamed
  <2>1. AutosaveKept'
    BY <1>3 DEF Renamed, AutosaveKept, OwnAutosave, Types, TypeOK
  <2> QED
    BY <1>3, <2>1 DEF Renamed
<1> QED
  BY <1>1, <1>2, <1>3

LEMMA BeginFlushing == ASSUME Types, Flushing, NEW j, Begin(j) PROVE Flushing'
<1> USE DEF Begin, Flush, files, mach
<1>1. /\ pc' \in {"ask", "leave"} /\ (pc' = "ask" => Id # None /\ discId' = Id /\ ~moved')
      /\ discId' \in {discId, Id} /\ pc = "poll"
  BY DEF Flushable
<1>2. discId' \in Discs => at \in {discId', None}
  BY <1>1, SaveStateAssumption DEF Id, Types, TypeOK, Flushing
<1>3. pc' = "ask" => discId' \in Discs
  BY <1>1, IdIsDisc
<1> QED
  BY <1>1, <1>2, <1>3 DEF Flushing, AutosaveKept

LEMMA ResetFlushing ==
  ASSUME Flushing, CoreReset, pc' = "poll", UNCHANGED auto PROVE Flushing'
BY DEF CoreReset, Flushing, AutosaveKept

LEMMA OtherFlushing ==
  ASSUME Types, Flushing, Leave \/ User \/ Remount \/ CoreStarts \/ UNCHANGED vars PROVE Flushing'
<1>1. CASE Leave
  <2>1. CASE LeaveForMount
    BY <1>1, <2>1 DEF Leave, LeaveForMount, NoteMount, Flushing, AutosaveKept, files
  <2>2. CASE LeaveForEject \/ LeaveForCore
    BY <1>1, <2>2, ResetFlushing DEF Leave, LeaveForEject, LeaveForCore, HpsReset, files
  <2> QED
    BY <1>1, <2>1, <2>2 DEF Leave
<1>2. CASE User
  <2>1. ASSUME NEW kind, NEW s, Press(kind, s) PROVE Flushing'
    BY <2>1 DEF Press, Flushing, AutosaveKept, hps, files, mach, store
  <2>2. CASE OsdReset \/ PowerCut
    BY <2>2, ResetFlushing DEF OsdReset, PowerCut, HpsReset, files
  <2>3. CASE DiscMenus
    BY <2>3 DEF DiscMenus, Flushing, AutosaveKept, hps, files, mach, link, store
  <2> QED
    BY <1>2, <2>1, <2>2, <2>3, BeginFlushing DEF User
<1>3. CASE Remount
  BY <1>3, BeginFlushing DEF Remount
<1>4. CASE CoreStarts \/ UNCHANGED vars
  BY <1>4 DEF CoreStarts, vars, Flushing, AutosaveKept, hps, files, mach, link, store
<1> QED
  BY <1>1, <1>2, <1>3, <1>4

LEMMA NextFlushing == ASSUME Types, Parts, Flushing, [Next]_vars PROVE Flushing'
BY CoreFlushing, TransactionFlushing, TickFlushing, FetchFlushing, WriteFlushing, OtherFlushing
   DEF Next, Hps

(* The autosave of a disc is a whole file with a state of that disc,       *)
(* whatever is mounted, reset, given up on or cut in between               *)
(* (dvd_sstate_autosave_flush).                                            *)
THEOREM AutosaveIsKept == Spec => []AutosaveKept
<1>1. Init => IInv
  BY InitTypes, InitParts, InitStreams, InitFlushing DEF IInv
<1>2. IInv /\ [Next]_vars => IInv'
  BY NextTypes, NextParts, NextStreams, NextFlushing DEF IInv
<1>3. IInv => AutosaveKept
  BY DEF IInv, Flushing
<1> QED
  BY <1>1, <1>2, <1>3, PTL DEF Spec
=============================================================================

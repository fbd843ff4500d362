------------------------------ MODULE SaveState ------------------------------
(* Save states and autosave: the poll thread (dvd_sstate.cpp) asks the core   *)
(* for the navigation VM's state over the 0x7D bus (dvd_vmsnap.cpp), fetches  *)
(* it once it is complete, and keeps it in the file of a slot; a load sends a *)
(* checked file back.  In the core, vm_snap.sv owns the one buffer that both  *)
(* directions use, and the VM (dvd_vm.sv, vm.uasm) writes or reads it when it *)
(* comes to rest.  The poll thread does one thing at a time; what interleaves *)
(* with it is the VM, also while a bus transaction is open, and the power.    *)
EXTENDS Naturals

CONSTANTS
  Discs,      \* DVD-Video discs with an identity
  Slots,      \* the numbered slots of the OSD row; 0 is slot 1
  Kinds,      \* what the user does in this instance (the names below)
  MaxEvents   \* bound: how often, in all

AllKinds == {"save", "load", "mount", "eject", "reset", "menus", "switch", "cut"}

None     == "none"      \* no disc
Pending  == "pending"   \* phys_pending: identified at the first use of a slot
AutoSlot == 8           \* DVD_SSTATE_AUTO, the ninth value of the row

ASSUME SaveStateAssumption ==
  /\ 0 \in Slots /\ Slots \subseteq 0 .. 7 /\ MaxEvents \in Nat /\ Kinds \subseteq AllKinds
  /\ None \notin Discs /\ Pending \notin Discs

Idle    == [kind |-> "tick"]
NoBlob  == [of |-> None, part |-> "none", lived |-> FALSE]
NoFile  == [hash |-> None, blob |-> NoBlob]

VARIABLES
  pc,       \* where the poll thread is; "ask", "fetch" and "load": a transaction is open
  job,      \* what autosave_flush delays, or Idle
  discId, mounted, op, opSlot,
  ref,      \* ref_save and ref_load, <<>> before the first word
  words,    \* the words fetched, or being sent
  gate,     \* the load transaction began with neither rbusy nor busy
  slot, auto, tmp,  \* the files, by disc
  core,     \* "on"; "held": status[0] is held; "off": another core, or none
  at,       \* the disc the VM runs
  vm,       \* "busy", "rest", "snap": in E_SNAP, "rst": in E_RST
  menus,    \* Disc Menus, dvd_vm's enable
  snapPend, rstPend, busy, rbusy, torn, \* torn: wa was reset within a stream
  moved,    \* seq has moved from the last request's seq0
  valid, buf,       \* valid: len /= 0
  row, sv, ld,
  sent,     \* history: the blob the core accepted and has not restored
  pressed,  \* history: presses not served yet
  events

hps   == <<discId, mounted, op, opSlot, ref>>
files == <<slot, auto, tmp>>
ask   == <<snapPend, busy, torn>>
rst   == <<rstPend, rbusy, sent>>
store == <<moved, valid, buf>>
osd   == <<row, sv, ld>>
link  == <<ask, rst, store, osd>>
mach  == <<core, at, vm>>
vars  == <<pc, job, hps, words, gate, files, mach, menus, link, pressed, events>>

-----------------------------------------------------------------------------
(* What the files and the buffer hold.  part: "whole", "other" (another       *)
(* layout), "mixed" (a stream cut short: not WORDS words), "torn" (a file     *)
(* whose write was cut: its sum is wrong).                                    *)
Blob(d, p, l) == [of |-> d, part |-> p, lived |-> l]
TornFile(d)   == [hash |-> d, blob |-> Blob(None, "torn", FALSE)]

\* (mutant) the sum is not looked at.
Good_NoSum(f, id) == f.hash = id

\* check_file: damaged, another disc's, or good (the words of another layout too).
Good(f, id) == f.blob.part # "torn" /\ f.hash = id

\* resolve_pending_phys: through the disc source, which is open by now.
Id == IF discId = Pending THEN at ELSE discId

FileOf(id, s) == IF s = AutoSlot THEN auto[id] ELSE slot[id][s]

\* dvd_vmsnap_fetch: the snapshot asked for is complete.
Ready == core = "on" /\ ~busy /\ moved /\ valid

\* The reset branch of vm_snap and of dvd_vm.
CoreReset ==
  /\ at' = None /\ vm' = "busy"
  /\ snapPend' = FALSE /\ busy' = FALSE /\ torn' = FALSE
  /\ rstPend' = FALSE /\ rbusy' = FALSE /\ sent' = NoBlob
  /\ valid' = FALSE /\ buf' = NoBlob /\ UNCHANGED moved
  /\ row' = 0 /\ sv' = 0 /\ ld' = 0

\* A new process of Main: every static of dvd_sstate.cpp.
HpsReset ==
  /\ pc' = "poll" /\ job' = Idle /\ discId' = None /\ mounted' = FALSE
  /\ op' = "idle" /\ opSlot' = 0 /\ ref' = <<>>
  /\ words' = NoBlob /\ gate' = FALSE /\ pressed' = {}

\* A file of an earlier session: cut, of another layout, good, or copied here.
Earlier(d) == {TornFile(d), [hash |-> d, blob |-> Blob(d, "other", TRUE)]}
              \cup {[hash |-> h, blob |-> Blob(h, "whole", TRUE)] : h \in Discs}

Init ==
  /\ pc = "poll" /\ job = Idle /\ discId = None /\ mounted = FALSE
  /\ op = "idle" /\ opSlot = 0 /\ ref = <<>>
  /\ words = NoBlob /\ gate = FALSE
  /\ \E d \in Discs : \E f \in Earlier(d) :
       slot = [e \in Discs |-> [s \in Slots |-> IF e = d /\ s = 0 THEN f ELSE NoFile]]
  /\ auto = [d \in Discs |-> NoFile]
  /\ tmp = [d \in Discs |-> NoFile]
  /\ core = "on" /\ at = None /\ vm = "busy" /\ menus = TRUE
  /\ snapPend = FALSE /\ rstPend = FALSE /\ busy = FALSE /\ rbusy = FALSE /\ torn = FALSE
  /\ moved = FALSE /\ valid = FALSE /\ buf = NoBlob /\ sent = NoBlob
  /\ row = 0 /\ sv = 0 /\ ld = 0 /\ pressed = {} /\ events = 0

-----------------------------------------------------------------------------
(* The VM and vm_snap: they move whatever the poll thread is doing.           *)
VmRests ==
  /\ core = "on" /\ vm = "busy" /\ vm' = "rest"
  /\ UNCHANGED <<core, at, ask, rst, store>>

\* Playback gives it work.
VmWorks ==
  /\ core = "on" /\ vm = "rest" /\ at # None /\ vm' = "busy"
  /\ UNCHANGED <<core, at, ask, rst, store>>

SnapTake ==
  /\ core = "on" /\ vm = "rest" /\ snapPend
  /\ vm' = "snap" /\ snapPend' = FALSE /\ buf' = Blob(at, "mixed", FALSE)
  /\ UNCHANGED <<core, at, busy, torn, rst, moved, valid>>

\* lived: pos_fresh or hl_armed, as playback left them; neither without a disc.
SnapDone ==
  /\ core = "on" /\ vm = "snap" /\ vm' = "rest"
  /\ busy' = FALSE /\ moved' = TRUE /\ valid' = TRUE
  /\ \E lived \in {FALSE, at # None} : buf' = Blob(at, IF torn THEN "mixed" ELSE "whole", lived)
  /\ UNCHANGED <<core, at, snapPend, torn, rst>>

\* Offered after the snapshot, and only with Disc Menus on.
RstTake ==
  /\ core = "on" /\ vm = "rest" /\ rstPend /\ menus /\ ~snapPend
  /\ vm' = "rst" /\ rstPend' = FALSE
  /\ UNCHANGED <<core, at, ask, rbusy, sent, store>>

RstDone ==
  /\ core = "on" /\ vm = "rst" /\ vm' = "busy"
  /\ rbusy' = FALSE /\ sent' = NoBlob /\ UNCHANGED <<core, at, ask, rstPend, store>>

Core ==
  /\ VmRests \/ VmWorks \/ SnapTake \/ SnapDone \/ RstTake \/ RstDone
  /\ UNCHANGED <<pc, job, hps, words, gate, files, menus, osd, pressed, events>>

-----------------------------------------------------------------------------
(* Transactions.  A request takes effect when the transaction ends.           *)
\* (mutant) granted while a restore is pending.
SnapRequest_Always ==
  /\ snapPend' = TRUE /\ busy' = TRUE /\ torn' = (vm = "snap")
  /\ UNCHANGED <<rst, store>>

SnapRequest ==
  IF rbusy THEN UNCHANGED <<ask, rst, store>>
  ELSE /\ snapPend' = TRUE /\ busy' = TRUE /\ torn' = (vm = "snap")
       /\ UNCHANGED <<rst, store>>

AskEnds ==
  /\ pc = "ask"
  /\ SnapRequest
  /\ IF job = Idle THEN pc' = "poll" /\ op' = "saving"
                   ELSE pc' = "flush" /\ UNCHANGED op
  /\ UNCHANGED <<job, discId, mounted, opSlot, ref, words, gate, files, mach, menus,
                 osd, pressed, events>>

\* The load is checked when its transaction ends; only a good one is applied.
Verdict ==
  IF rbusy \/ busy THEN 6
  ELSE IF ~menus THEN 7
  ELSE IF words.part = "other" THEN 3
  ELSE IF ~gate \/ words.part = "mixed" THEN 4
  ELSE 1

LoadChecked ==
  /\ IF Verdict = 1 THEN rbusy' = TRUE /\ rstPend' = TRUE /\ sent' = words
                    ELSE UNCHANGED <<rbusy, rstPend, sent>>
  /\ IF rbusy \/ busy THEN UNCHANGED <<valid, buf>>
     ELSE valid' = FALSE /\ buf' = IF gate THEN buf ELSE Blob(None, "mixed", FALSE)
  /\ UNCHANGED <<ask, moved>>

LoadEnds ==
  /\ pc = "load"
  /\ LoadChecked
  /\ pc' = "poll" /\ op' = "loading" /\ words' = NoBlob /\ gate' = FALSE
  /\ UNCHANGED <<job, discId, mounted, opSlot, ref, files, mach, menus,
                 osd, pressed, events>>

-----------------------------------------------------------------------------
(* The poll thread: dvd_sstate_tick.                                          *)
StartSave(s) ==
  /\ discId' = IF s # AutoSlot /\ menus THEN Id ELSE discId
  /\ IF s = AutoSlot \/ ~menus \/ Id = None THEN UNCHANGED <<pc, opSlot, moved>>
     ELSE pc' = "ask" /\ opSlot' = s /\ moved' = FALSE
  /\ UNCHANGED <<words, gate, buf>>

\* Only a file that passes check_file is sent; the words land in the buffer
\* unless the core is using it.
StartLoad(s) ==
  /\ discId' = IF menus THEN Id ELSE discId
  /\ IF ~menus \/ Id = None THEN UNCHANGED <<pc, opSlot, words, gate, buf>>
     ELSE IF FileOf(Id, s) = NoFile \/ ~Good(FileOf(Id, s), Id) THEN UNCHANGED <<pc, opSlot, words, gate, buf>>
     ELSE /\ pc' = "load" /\ opSlot' = s /\ words' = FileOf(Id, s).blob
          /\ gate' = (~rbusy /\ ~busy)
          /\ buf' = IF rbusy \/ busy THEN buf ELSE FileOf(Id, s).blob
  /\ UNCHANGED moved

\* The first word is a baseline; after it a request is a counter that moved.
Request ==
  /\ op = "idle"
  /\ IF core = "held" THEN ref' = <<>> /\ UNCHANGED <<discId, pc, opSlot, moved, words, gate, buf, pressed>>
     ELSE IF ref = <<>> THEN /\ ref' = <<sv, ld>>
                             /\ UNCHANGED <<discId, pc, opSlot, moved, words, gate, buf, pressed>>
     ELSE IF sv # ref[1] THEN /\ ref' = <<sv, ref[2]>> /\ StartSave(row)
                              /\ pressed' = {q \in pressed : q[1] # "save"}
     ELSE /\ ld # ref[2] /\ ref' = <<ref[1], ld>> /\ StartLoad(row)
          /\ pressed' = {q \in pressed : q[1] # "load"}
  /\ UNCHANGED op

\* Complete, or given up: the header is gone (the core is held), or three
\* seconds have passed, as they may have at any poll.
PollSave ==
  /\ op = "saving"
  /\ IF Ready THEN pc' = "fetch" /\ op' = "idle"
              ELSE op' = "idle" /\ UNCHANGED pc
  /\ UNCHANGED <<ref, discId, opSlot, moved, words, gate, buf, pressed>>

\* A verdict to name, or three seconds without one.
PollLoad ==
  /\ op = "loading" /\ op' = "idle"
  /\ UNCHANGED <<pc, ref, discId, opSlot, moved, words, gate, buf, pressed>>

Tick ==
  /\ pc = "poll" /\ core \in {"on", "held"}
  /\ Request \/ PollSave \/ PollLoad
  /\ UNCHANGED <<job, mounted, files, mach, menus, ask, rst, valid, osd, events>>

-----------------------------------------------------------------------------
(* From a snapshot to a file.  disc_id is read when the file is built, not    *)
(* when the save was asked for.                                               *)
FetchEnds ==
  /\ pc = "fetch"
  /\ discId' = IF job = Idle THEN Id ELSE discId
  /\ IF job = Idle
     THEN IF Id = None THEN pc' = "poll" /\ UNCHANGED <<words, slot, tmp>>
          ELSE /\ pc' = "write" /\ words' = buf
               /\ slot' = [slot EXCEPT ![Id][opSlot] = TornFile(Id)] /\ UNCHANGED tmp
     ELSE IF ~buf.lived THEN pc' = "leave" /\ UNCHANGED <<words, slot, tmp>>
          ELSE /\ pc' = "tmp" /\ words' = buf
               /\ tmp' = [tmp EXCEPT ![discId] = TornFile(discId)] /\ UNCHANGED slot
  /\ UNCHANGED <<job, mounted, op, opSlot, ref, gate, auto, mach, menus, link,
                 pressed, events>>

NewFile == [hash |-> discId, blob |-> words]

\* O_TRUNC, then the write, which may fail short.
SlotWritten ==
  /\ pc = "write" /\ pc' = "poll"
  /\ slot' \in {slot, [slot EXCEPT ![discId][opSlot] = NewFile]}
  /\ UNCHANGED <<auto, tmp>>

\* (mutant) renamed over the old autosave even where the write failed.
TmpWritten_Unchecked ==
  /\ pc = "tmp" /\ pc' = "rename"
  /\ tmp' \in {tmp, [tmp EXCEPT ![discId] = NewFile]}
  /\ UNCHANGED <<slot, auto>>

TmpWritten ==
  /\ pc = "tmp"
  /\ \/ pc' = "rename" /\ tmp' = [tmp EXCEPT ![discId] = NewFile]
     \/ pc' = "leave" /\ tmp' = [tmp EXCEPT ![discId] = NoFile]
  /\ UNCHANGED <<slot, auto>>

Renamed ==
  /\ pc = "rename" /\ pc' = "leave"
  /\ auto' = [auto EXCEPT ![discId] = tmp[discId]]
  /\ tmp' = [tmp EXCEPT ![discId] = NoFile]
  /\ UNCHANGED slot

Write ==
  /\ SlotWritten \/ TmpWritten \/ Renamed
  /\ words' = NoBlob
  /\ UNCHANGED <<job, hps, gate, mach, menus, link, pressed, events>>

-----------------------------------------------------------------------------
(* Leaving a disc: dvd_sstate_autosave_flush, then what the caller does.      *)
Flushable == Id # None /\ core = "on" /\ menus

\* Nothing is kept of a disc mounted within the last ten seconds (settled, read
\* only here: every flush ends in a mount or a restart).  A request in flight is
\* dropped only where the flush asks for itself.
Flush(j) ==
  /\ job' = j
  /\ \E settled \in {FALSE, mounted} :
       /\ discId' = IF settled THEN Id ELSE discId
       /\ IF settled /\ Flushable THEN pc' = "ask" /\ op' = "idle" /\ moved' = FALSE
                                  ELSE pc' = "leave" /\ UNCHANGED <<op, moved>>
  /\ UNCHANGED <<mounted, opSlot, ref>>

\* 300 ms of polling every 10 ms.
FlushPoll ==
  /\ pc = "flush" /\ pc' = IF Ready THEN "fetch" ELSE "leave"
  /\ UNCHANGED <<job, hps, words, gate, files, mach, menus, link, pressed, events>>

NoteMount(id) ==
  /\ discId' = id /\ mounted' = TRUE /\ UNCHANGED <<op, opSlot, ref>>

\* The identity is read, deferred (a drive not opened yet), or there is none.
LeaveForMount ==
  /\ job.kind = "mount" /\ pc' = "mount" /\ UNCHANGED job
  /\ \E id \in {job.disc, Pending, None} : NoteMount(id)
  /\ UNCHANGED <<words, gate, mach, link, pressed>>

\* teardown_to_idle: the image goes, and status[0] is held for a second.
LeaveForEject ==
  /\ job.kind = "eject" /\ pc' = "poll" /\ job' = Idle
  /\ NoteMount(None) /\ core' = "held" /\ CoreReset
  /\ UNCHANGED <<words, gate, pressed>>

\* Every .rbf load starts Main afresh.
LeaveForCore ==
  /\ job.kind = "switch" /\ HpsReset /\ core' = "off" /\ CoreReset

Leave ==
  /\ pc = "leave"
  /\ LeaveForMount \/ LeaveForEject \/ LeaveForCore
  /\ UNCHANGED <<files, menus, events>>

\* The core sees the mount: dvd_vm's `start` aborts whatever program runs.
MountDone ==
  /\ pc = "mount" /\ pc' = "poll" /\ job' = Idle
  /\ at' = job.disc /\ vm' = "busy"
  /\ UNCHANGED <<hps, words, gate, files, core, menus, link, pressed, events>>

-----------------------------------------------------------------------------
(* The user.  The OSD is served by the poll thread, so a press never falls    *)
(* within a transaction; a power cut may come at any time.                    *)
Press(kind, s) ==
  /\ pc = "poll" /\ core = "on"
  /\ row' = s /\ pressed' = pressed \cup {<<kind, s>>}
  /\ IF kind = "save" THEN sv' = (sv + 1) % 4 /\ UNCHANGED ld
                      ELSE ld' = (ld + 1) % 4 /\ UNCHANGED sv
  /\ UNCHANGED <<pc, job, hps, words, gate, files, mach, menus, ask, rst, store>>

Begin(j) ==
  /\ pc = "poll" /\ core = "on" /\ Flush(j)
  /\ UNCHANGED <<words, gate, files, mach, menus, ask, rst, valid, buf, osd, pressed>>

\* The OSD's Reset row sets status[0] and clears it in one call.
OsdReset ==
  /\ pc = "poll" /\ core = "on" /\ CoreReset
  /\ UNCHANGED <<pc, job, hps, words, gate, files, core, menus, pressed>>

DiscMenus ==
  /\ pc = "poll" /\ core = "on" /\ menus' = ~menus
  /\ UNCHANGED <<pc, job, hps, words, gate, files, mach, link, pressed>>

PowerCut ==
  /\ core # "off" /\ core' = "off" /\ HpsReset /\ CoreReset
  /\ UNCHANGED <<files, menus>>

User ==
  /\ events < MaxEvents /\ events' = events + 1
  /\ \/ \E kind \in Kinds \cap {"save", "load"}, s \in Slots \cup {AutoSlot} : Press(kind, s)
     \/ "mount" \in Kinds /\ \E d \in Discs : Begin([kind |-> "mount", disc |-> d])
     \/ \E kind \in Kinds \cap {"eject", "switch"} : Begin([kind |-> kind])
     \/ "reset" \in Kinds /\ OsdReset
     \/ "menus" \in Kinds /\ DiscMenus
     \/ "cut" \in Kinds /\ PowerCut

\* The last image is mounted again when the core is loaded.
Remount ==
  /\ ~mounted /\ \E d \in Discs : Begin([kind |-> "mount", disc |-> d])
  /\ UNCHANGED events

\* dvd_phys_tick releases status[0]; the DVD core is loaded again.
CoreStarts ==
  /\ pc = "poll" /\ core # "on" /\ core' = "on"
  /\ UNCHANGED <<pc, job, hps, words, gate, files, at, vm, menus, link, pressed, events>>

Hps ==
  \/ AskEnds \/ LoadEnds \/ FetchEnds \/ Write
  \/ Tick
  \/ FlushPoll \/ Leave \/ MountDone

Next == Core \/ Hps \/ User \/ Remount \/ CoreStarts

Spec == Init /\ [][Next]_vars

-----------------------------------------------------------------------------
BlobType == [of : Discs \cup {None}, part : {"none", "whole", "other", "mixed", "torn"}, lived : BOOLEAN]
FileType == [hash : Discs \cup {None}, blob : BlobType]

\* Types and ranges; no transaction is open without somebody to end it.
TypeOK ==
  /\ pc \in {"poll", "ask", "fetch", "load", "write", "tmp", "rename", "flush", "leave", "mount"}
  /\ discId \in Discs \cup {None, Pending} /\ op \in {"idle", "saving", "loading"}
  /\ slot \in [Discs -> [Slots -> FileType]] /\ auto \in [Discs -> FileType] /\ tmp \in [Discs -> FileType]
  /\ buf \in BlobType /\ words \in BlobType /\ sent \in BlobType
  /\ at \in Discs \cup {None} /\ vm \in {"busy", "rest", "snap", "rst"}
  /\ row \in Slots \cup {AutoSlot} /\ sv \in 0 .. 3 /\ ld \in 0 .. 3
  /\ (job # Idle <=> pc \in {"flush", "tmp", "rename", "leave", "mount"}) \/ pc \in {"ask", "fetch"}
  /\ op = "idle" \/ pc \in {"poll", "leave", "mount"}

\* The autosave of a disc, once written, is that disc's own and never half of
\* one, whatever is cut: it is written beside the old one and renamed, and the
\* flush runs before the old identity is forgotten and before the core is told.
AutosaveKept ==
  \A d \in Discs : auto[d] # NoFile =>
    auto[d].hash = d /\ auto[d].blob.of = d /\ auto[d].blob.lived /\ auto[d].blob.part # "torn"

\* What the VM restores has passed the file's sum and the core's checks: no
\* file cut by the power, of another layout, or short is ever run.
OnlyWholeApplied == rstPend \/ vm = "rst" => sent.part = "whole"

\* While a restore waits or runs, the buffer holds the blob the core checked:
\* no snapshot and no other load may touch it.  The exception is a stream cut
\* by a request (torn), which runs a second time with busy already low.
RestoreIntact == rstPend \/ vm = "rst" => rbusy /\ (buf = sent \/ torn)

\* "a reader that sees busy = 0 and a new seq has a whole snapshot", but for
\* the same exception.
ReadersSeeWhole == pc = "fetch" => buf.part = "whole" \/ torn

\* A slot is saved to and loaded from only for a press that named it, not
\* served before.
ActsOnPress ==
  [][/\ (op = "idle" /\ pc = "poll" /\ pc' = "ask" /\ job' = Idle) => <<"save", opSlot'>> \in pressed
     /\ (pc = "poll" /\ pc' = "load") => <<"load", opSlot'>> \in pressed]_vars

\* What is in a slot of a disc was saved on that disc.
SlotIsItsDisc ==
  \A d \in Discs, s \in Slots :
    LET f == slot[d][s] IN f.hash = d /\ f.blob.part # "torn" => f.blob.of = d
=============================================================================

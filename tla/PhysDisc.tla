------------------------------ MODULE PhysDisc ------------------------------
(***************************************************************************)
(* Who owns slot 0: the optical drive, an image the user loaded, or nobody. *)
(*                                                                         *)
(* main/support/dvd/dvd_phys.cpp runs on the poll thread of Main: a scan    *)
(* about once a second mounts a disc that was put in and tears it down when *)
(* it is gone; the Eject button and mounts of images come in between two    *)
(* ticks.  The drive, the read-ahead worker and the clock run meanwhile, so *)
(* a tick is split where it blocks: the readiness ioctl, the probes that    *)
(* read the disc, and the mount.                                            *)
(***************************************************************************)
EXTENDS Integers

CONSTANTS
  ScanPeriod,     (* DVD_PHYS_SCAN_PERIOD_S                                 *)
  ForeignPeriod,  (* the period while somebody else has the slot            *)
  MaxPeriod,      (* DVD_PHYS_SCAN_MAX_S                                    *)
  SpinTime,       (* seconds from a disc going in to CDS_DISC_OK            *)
  Prompt,         (* TRUE: a tick is on time and takes none                 *)
  MaxEjects,      (* bound: presses of the Eject button                     *)
  Unmounts        (* TRUE: the user may empty the slot from the OSD         *)

ASSUME PeriodsAssumption ==
  /\ ScanPeriod \in Nat \ {0} /\ ForeignPeriod \in Nat \ {0}
  /\ MaxPeriod \in Nat /\ ScanPeriod <= MaxPeriod /\ ForeignPeriod <= MaxPeriod
  /\ SpinTime \in Nat /\ Prompt \in BOOLEAN /\ MaxEjects \in Nat
  /\ Unmounts \in BOOLEAN

VARIABLES
  mounted, dev, foreign, prevReady, unrecognized,  (* dvd_phys.cpp's flags  *)
  period,         (* scan_period                                            *)
  sinceScan,      (* now - last_scan, saturating at MaxPeriod               *)
  resetLeft,      (* reset_release_at - now, or None                        *)
  pc,             (* where the poll thread is inside dvd_phys_tick()        *)
  slot,           (* what user_io has in slot 0: "empty", "drive", "file";  *)
                  (* "vacated": empty since the user unmounted the drive    *)
  coreReset,      (* status[0]                                              *)
  coreOn,         (* the core has media (media_seen)                        *)
  disc,           (* in the drive: "none", "video" (playable) or "data"     *)
  spin,           (* seconds the disc in the drive has had to spin up       *)
  uiBusy,         (* an MGL launch is pending                               *)
  reading,        (* the read-ahead worker is inside a source read          *)
  ejects,
  refused,        (* history: this disc was seen, and set aside for a file  *)
                  (* or by the Eject button, and has not left since         *)
  edgeDue         (* history: a disc went in since the last scan            *)

None == -1

Greater(a, b) == IF a > b THEN a ELSE b
Lesser(a, b)  == IF a < b THEN a ELSE b

flags   == << mounted, dev, foreign, prevReady, unrecognized >>
timers  == << period, sinceScan, resetLeft >>
core    == << slot, coreReset, coreOn >>
world   == << disc, spin, uiBusy, reading, ejects >>
history == << refused, edgeDue >>
vars    == << flags, timers, pc, core, world, history >>

Init ==
  /\ mounted = FALSE /\ dev = FALSE /\ foreign = FALSE /\ prevReady = FALSE
  /\ unrecognized = FALSE
  /\ period = ScanPeriod /\ sinceScan = MaxPeriod /\ resetLeft = None
  /\ pc = "idle" /\ slot = "empty" /\ coreReset = FALSE /\ coreOn = FALSE
  /\ disc \in {"none", "video", "data"} /\ spin = 0
  /\ uiBusy \in BOOLEAN /\ reading = FALSE /\ ejects = 0
  /\ refused = FALSE /\ edgeDue = (disc # "none")

spun == disc # "none" /\ spin = SpinTime

(***************************************************************************)
(* user_io_file_mount() and dvd_phys_note_mount() inside it.                *)
(***************************************************************************)

(* The slot gets new content.  Closing the old source joins the worker.  The *)
(* core starts on a mount with a size, unless it is being held in reset.    *)
SlotBecomes(s, inReset) ==
  /\ slot' = s
  /\ reading' = FALSE
  /\ coreOn' = (s \in {"drive", "file"} /\ ~inReset)

NoteFile_KeepMounted == foreign' = TRUE /\ UNCHANGED << mounted, dev >>
NoteFile == mounted' = FALSE /\ dev' = FALSE /\ foreign' = TRUE

(* teardown_to_idle(): the release time is a second after the tick's now.   *)
Teardown(age) ==
  /\ SlotBecomes("empty", TRUE)
  /\ mounted' = FALSE /\ dev' = FALSE
  /\ coreReset' = TRUE
  /\ resetLeft' = IF age = 0 THEN 1 ELSE 0

(* An image is loaded from the OSD or by the launch; it may fail to open.   *)
MountFile ==
  /\ pc = "idle"
  /\ \E ok \in BOOLEAN : SlotBecomes(IF ok THEN "file" ELSE "empty", coreReset)
  /\ NoteFile
  /\ refused' = (refused \/ (prevReady /\ spun /\ ~edgeDue))
  /\ UNCHANGED << prevReady, unrecognized, timers, pc, coreReset, disc, spin, uiBusy,
                  ejects, edgeDue >>

(* The user empties the slot, whoever has it.  `mounted` is left as it is:  *)
(* the code takes an unmount of the drive for the tick's own.               *)
Unmount ==
  /\ Unmounts /\ pc = "idle"
  /\ SlotBecomes(IF slot \in {"drive", "vacated"} THEN "vacated" ELSE "empty", coreReset)
  /\ foreign' = FALSE
  /\ refused' = FALSE
  /\ UNCHANGED << mounted, dev, prevReady, unrecognized, timers, pc, coreReset, disc,
                  spin, uiBusy, ejects, edgeDue >>

(* dvd_phys_eject(), from the Eject button: teardown, then do not take the  *)
(* disc straight back, then the tray -- which may refuse.                   *)
Latch_NoForeign == foreign' = FALSE
Latch == foreign' = TRUE
Eject ==
  /\ pc = "idle" /\ ~uiBusy /\ ejects < MaxEjects
  /\ ejects' = ejects + 1
  /\ Teardown(0)
  /\ Latch /\ unrecognized' = FALSE
  /\ \/ /\ mounted /\ disc # "none"
        /\ disc' = "none" /\ spin' = 0
        /\ refused' = FALSE /\ edgeDue' = FALSE
     \/ /\ UNCHANGED << disc, spin, edgeDue >>
        /\ refused' = (refused \/ (prevReady /\ spun /\ ~edgeDue))
  /\ UNCHANGED << prevReady, period, sinceScan, pc, uiBusy >>

(***************************************************************************)
(* dvd_phys_tick().                                                         *)
(***************************************************************************)
ReleaseDue == resetLeft = 0
ScanDue    == /\ sinceScan >= Greater(IF foreign THEN ForeignPeriod ELSE period, period)
              /\ ~(mounted /\ reading)

(* From the top to the readiness ioctl: release the reset, and go on when a *)
(* scan is due and no read of our disc is in flight.  last_scan = now.      *)
TickTop ==
  /\ pc = "idle"
  /\ \/ ReleaseDue /\ resetLeft' = None /\ coreReset' = FALSE
     \/ ~ReleaseDue /\ UNCHANGED << resetLeft, coreReset >>
  /\ \/ /\ ScanDue
        /\ pc' = "scan" /\ sinceScan' = 0
     \/ /\ ~ScanDue
        /\ UNCHANGED << pc, sinceScan >>
  /\ UNCHANGED << flags, period, slot, coreOn, world, history >>

(* A slow ioctl backs the period off, a fast one restores it. *)
Backoff == period' \in {Lesser(2 * period, MaxPeriod), ScanPeriod}

(* Reasons not to read the disc. *)
StandDown == mounted' \/ uiBusy \/ foreign' \/ unrecognized'

(* An insertion edge clears the latches. *)
Edge_KeepVerdict ==
  /\ IF prevReady THEN UNCHANGED foreign ELSE foreign' = FALSE
  /\ UNCHANGED unrecognized
Edge ==
  IF prevReady THEN UNCHANGED << foreign, unrecognized >>
               ELSE foreign' = FALSE /\ unrecognized' = FALSE

(* No ready disc: tear down what is ours, and only that. *)
Gone_Always == Teardown(sinceScan) /\ foreign' = FALSE
Gone ==
  \/ mounted /\ Teardown(sinceScan) /\ foreign' = FALSE
  \/ ~mounted /\ UNCHANGED << mounted, dev, foreign, core, resetLeft, reading >>

ScanEmpty ==
  /\ pc = "scan" /\ ~spun
  /\ Backoff
  /\ prevReady' = FALSE
  /\ Gone
  /\ pc' = "idle"
  /\ UNCHANGED << unrecognized, sinceScan, disc, spin, uiBusy, ejects, history >>

ScanReady ==
  /\ pc = "scan" /\ spun
  /\ Backoff
  /\ Edge
  /\ prevReady' = TRUE /\ edgeDue' = FALSE
  /\ UNCHANGED << mounted, dev >>
  /\ pc' = IF StandDown THEN "idle" ELSE "probe"
  /\ UNCHANGED << sinceScan, resetLeft, core, world, refused >>

(* dvd_video_probe, dvd_vcd_probe, cd_audio_probe: read the disc, which may *)
(* have gone; what none of them knows is not probed again.                  *)
Probe ==
  /\ pc = "probe"
  /\ \/ disc = "video" /\ spun /\ pc' = "mount" /\ dev' = TRUE /\ UNCHANGED unrecognized
     \/ ~(disc = "video" /\ spun) /\ pc' = "idle" /\ unrecognized' = TRUE /\ UNCHANGED dev
  /\ UNCHANGED << mounted, foreign, prevReady, timers, core, world, history >>

(* user_io_file_mount(sentinel): the source looks for the drive again. *)
Mount ==
  /\ pc = "mount"
  /\ foreign' = FALSE
  /\ \/ /\ disc = "video" /\ spun
        /\ SlotBecomes("drive", coreReset)
        /\ mounted' = TRUE /\ UNCHANGED dev
     \/ /\ ~(disc = "video" /\ spun)
        /\ SlotBecomes("empty", coreReset)
        /\ dev' = FALSE /\ UNCHANGED mounted
  /\ pc' = "idle"
  /\ UNCHANGED << prevReady, unrecognized, timers, coreReset, disc, spin, uiBusy,
                  ejects, history >>

Tick == TickTop \/ ScanEmpty \/ ScanReady \/ Probe \/ Mount

(***************************************************************************)
(* The user at the drive, the drive, the worker, the launch, the clock.     *)
(***************************************************************************)
InsertDisc ==
  /\ disc = "none"
  /\ disc' \in {"video", "data"} /\ spin' = 0 /\ edgeDue' = TRUE
  /\ UNCHANGED << flags, timers, pc, core, uiBusy, reading, ejects, refused >>

RemoveDisc ==
  /\ disc # "none"
  /\ disc' = "none" /\ spin' = 0
  /\ refused' = FALSE /\ edgeDue' = FALSE
  /\ UNCHANGED << flags, timers, pc, core, uiBusy, reading, ejects >>

Read ==
  /\ slot = "drive"
  /\ reading' = ~reading
  /\ UNCHANGED << flags, timers, pc, core, disc, spin, uiBusy, ejects, history >>

LaunchSettles ==
  /\ uiBusy
  /\ uiBusy' = FALSE
  /\ UNCHANGED << flags, timers, pc, core, disc, spin, reading, ejects, history >>

(* The clock.  Without Prompt any call may block for seconds.               *)
Second ==
  /\ sinceScan < MaxPeriod \/ resetLeft > 0 \/ (disc # "none" /\ spin < SpinTime)
  /\ Prompt => pc = "idle" /\ ~(ReleaseDue \/ ScanDue)
  /\ sinceScan' = Lesser(sinceScan + 1, MaxPeriod)
  /\ resetLeft' = IF resetLeft > 0 THEN resetLeft - 1 ELSE resetLeft
  /\ spin' = IF disc = "none" THEN 0 ELSE Lesser(spin + 1, SpinTime)
  /\ UNCHANGED << flags, period, pc, core, disc, uiBusy, reading, ejects, history >>

Next ==
  \/ Tick
  \/ MountFile \/ Unmount \/ Eject
  \/ InsertDisc \/ RemoveDisc \/ Read \/ LaunchSettles \/ Second

Spec == Init /\ [][Next]_vars

(* The poll loop turns, time passes, a launch settles (its *)
(* watchdog sees to it), and the worker is idle again and again: a source   *)
(* read ends, and each retry is preceded by a pause.                        *)
FairSpec ==
  /\ Spec
  /\ WF_vars(Tick) /\ WF_vars(Second) /\ WF_vars(LaunchSettles)
  /\ SF_vars(TickTop /\ pc' = "scan") /\ WF_vars(Read)

(***************************************************************************)
(* Properties.                                                              *)
(***************************************************************************)

(* Types and ranges of dvd_phys.cpp's file-scope state and of its environment. *)
FlagTypes ==
  /\ mounted \in BOOLEAN /\ dev \in BOOLEAN /\ foreign \in BOOLEAN
  /\ prevReady \in BOOLEAN /\ unrecognized \in BOOLEAN /\ uiBusy \in BOOLEAN
  /\ coreReset \in BOOLEAN /\ coreOn \in BOOLEAN /\ reading \in BOOLEAN
HistoryTypes ==
  /\ refused \in BOOLEAN /\ edgeDue \in BOOLEAN
RangeTypes ==
  /\ period \in ScanPeriod .. MaxPeriod /\ sinceScan \in 0 .. MaxPeriod
  /\ resetLeft \in {None, 0, 1}
  /\ spin \in 0 .. SpinTime /\ ejects \in 0 .. MaxEjects
PlaceTypes ==
  /\ pc \in {"idle", "scan", "probe", "mount"}
  /\ slot \in {"empty", "drive", "file", "vacated"} /\ disc \in {"none", "video", "data"}
TypeOK == FlagTypes /\ HistoryTypes /\ RangeTypes /\ PlaceTypes

(* dvd_phys.cpp's idea of who owns slot 0 agrees with user_io's whenever the *)
(* poll thread is out of the tick (issue #48 was the drive acting on a slot  *)
(* it had lost): `mounted` exactly when the drive's source is in the slot,   *)
(* or was the last thing in it and the user emptied it; the device name set  *)
(* with it, and never `foreign` over our own disc.                           *)
Ownership ==
  /\ mounted <=> slot \in {"drive", "vacated"}
  /\ pc # "mount" => (dev <=> mounted)
  /\ foreign => ~mounted

(* A tick takes a slot that holds the user's image only for a disc that was  *)
(* not there, or not seen, when the image was chosen; a disc that leaves     *)
(* never costs the user the image.                                           *)
ImageSafe == [][slot = "file" /\ slot' # "file" /\ pc # "idle" => pc = "mount" /\ ~refused]_vars

(* A disc that was seen and then set aside -- an image was loaded, or Eject  *)
(* was pressed and the tray stayed shut -- is neither read nor mounted until *)
(* it has left the drive ("it reloads it, and cracks the keys again").       *)
RefusedStaysOut == refused => slot # "drive" /\ pc \notin {"probe", "mount"}

(* The core is started by the mount: its reset is off when a disc mounts.    *)
InsertionWins == slot = "drive" => coreOn

(* The same while Eject has not been pressed: the pulse with which a removal *)
(* resets the core is over before the next disc mounts.                      *)
StartedByMount == slot = "drive" /\ ejects = 0 => coreOn

(* A playable disc that is ready and was not at the last scan is mounted, or *)
(* is taken out, or loses the slot to the user.                              *)
Played ==
  disc = "video" /\ spun /\ ~prevReady /\ pc = "idle"
    ~> mounted \/ disc # "video" \/ slot = "file" \/ refused
=============================================================================

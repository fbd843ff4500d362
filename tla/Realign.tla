------------------------------- MODULE Realign -------------------------------
(***************************************************************************)
(* Discontinuities of playback: mode_realign.sv, flush_ctl.sv, the seek and *)
(* jump latches of dvd_iso_reader.sv and the playhead of nav_dsi.sv, all on *)
(* clk_sys.  A step is one clock edge; every register takes its next value  *)
(* from the values before the edge and the inputs of that cycle.            *)
(***************************************************************************)
EXTENDS Integers

CONSTANTS
  FlushLen,   (* 64: cycles a flush is held                                 *)
  Wdog,       (* WDOG of mode_realign                                       *)
  MaxEvents   (* bound: requests from outside (edges, seeks, jumps, mounts) *)

ASSUME CyclesAssumption ==
  FlushLen \in Nat \ {0} /\ Wdog \in Nat /\ MaxEvents \in Nat

VARIABLES
  st, tmr, tgt, issue, modeSwitch, fresh,           (* mode_realign         *)
  loadC, audC, resyncC, seekC, jumpSoftC, mountC,   (* flush_ctl            *)
  rs,                    (* the reader: "none", "parse", "load", "stream",  *)
                         (* "still"                                         *)
  lin,                   (* a flat file: no cells, no navigation            *)
  menu,                  (* menu_dom                                        *)
  seekPend, jumpPend,    (* latched requests, None / "none" without one     *)
  seekAck, jumpAck, keepVbuf, jumpCross,
  dsi, commit,           (* nav_dsi: the playhead, 0 after a reset          *)
  hold,                  (* hold_freeze: a scrub gesture is held            *)
  place,                 (* history: where the reader is, one number for    *)
                         (* each relocation                                 *)
  wasMenu,               (* history: menu_dom before the last relocation    *)
  owed,                  (* history: a mode edge not yet followed by a trio *)
  late,                  (* history: a relocation was under way in the      *)
                         (* cycle that sampled the playhead                 *)
  left                   (* events still allowed                            *)

None == -1

realign == << st, tmr, tgt, issue, modeSwitch, fresh >>
flushes == << loadC, audC, resyncC, seekC, jumpSoftC, mountC >>
reader  == << rs, lin, menu, seekPend, jumpPend, seekAck, jumpAck, keepVbuf, jumpCross >>
vars    == << realign, flushes, reader, dsi, commit, hold, place, wasMenu, owed, late, left >>

(* What reaches the block in a cycle. *)
Inputs == [edge : BOOLEAN,                          (* il_switch | p240_switch *)
           scrub : BOOLEAN,                         (* scrub_pulse             *)
           cell : BOOLEAN,                          (* seek_pulse              *)
           jump : {"none", "menu", "title"},        (* jump_pulse, its domain  *)
           mount : {"none", "disc", "file"},        (* start_streaming         *)
           audio : BOOLEAN,                         (* aud_switch, rephase     *)
           end : BOOLEAN]                           (* a PGC with a next_pgcn  *)
                                                    (* has played out          *)
B(b) == IF b THEN 1 ELSE 0
Events(in) == B(in.edge) + B(in.scrub) + B(in.cell) + B(in.jump # "none")
              + B(in.mount # "none") + B(in.audio) + B(in.end)

Init ==
  /\ st = "IDLE" /\ tmr = 0 /\ tgt = 0 /\ issue = FALSE /\ modeSwitch = FALSE
  /\ fresh = FALSE
  /\ loadC = 0 /\ audC = 0 /\ resyncC = 0 /\ seekC = 0 /\ jumpSoftC = 0 /\ mountC = 0
  /\ rs = "none" /\ lin = FALSE /\ menu = FALSE /\ seekPend = None /\ jumpPend = "none"
  /\ seekAck = FALSE /\ jumpAck = FALSE /\ keepVbuf = FALSE /\ jumpCross = FALSE
  /\ dsi = 0 /\ commit = FALSE /\ hold = FALSE
  /\ place = 0 /\ wasMenu = FALSE /\ owed = FALSE /\ late = FALSE /\ left = MaxEvents

(***************************************************************************)
(* dvd_iso_reader.sv: requests are latched, and executed at a block         *)
(* boundary.  Within a cycle the later assignment wins: start over jump_go  *)
(* over seek_jump over the latches.                                         *)
(***************************************************************************)
CellMode  == ~lin /\ rs \in {"load", "stream", "still"}
LinSeekOk == lin /\ rs \in {"load", "stream"}

SeekPulse(in) == in.scrub \/ issue
SeekLatched(in) ==
  IF in.cell /\ CellMode THEN place
  ELSE IF SeekPulse(in) /\ (CellMode \/ LinSeekOk)
       THEN IF in.scrub THEN place ELSE tgt
       ELSE seekPend
JumpLatched(in) == IF in.jump # "none" /\ ~lin /\ rs # "none" THEN in.jump ELSE jumpPend

(* Relocating pulses an ack, or start_streaming was the pulse. *)
Relocates(m) == place' = place + 1 /\ wasMenu' = menu /\ menu' = m

Start(in) ==
  /\ in.mount # "none"
  /\ rs' = "parse" /\ lin' = (in.mount = "file")
  /\ seekPend' = None /\ jumpPend' = "none"
  /\ seekAck' = FALSE /\ jumpAck' = FALSE /\ UNCHANGED << keepVbuf, jumpCross >>
  /\ Relocates(FALSE)

JumpCrosses(m) == menu # m

JumpGo(in) ==
  /\ in.mount = "none"
  /\ jumpPend # "none" /\ rs \in {"stream", "still"}
  /\ rs' = "parse" /\ UNCHANGED lin
  /\ seekPend' = None /\ jumpPend' = "none"
  /\ seekAck' = FALSE /\ jumpAck' = TRUE
  /\ LET m == jumpPend = "menu"
     IN  keepVbuf' = (menu /\ m) /\ jumpCross' = JumpCrosses(m) /\ Relocates(m)

SeekJump(in) ==
  /\ in.mount = "none"
  /\ jumpPend = "none" /\ seekPend # None
  /\ rs' = "load" /\ UNCHANGED << lin, jumpCross >>
  /\ seekPend' = None /\ jumpPend' = JumpLatched(in)
  /\ seekAck' = TRUE /\ jumpAck' = FALSE
  /\ keepVbuf' = menu
  /\ Relocates(menu)

(* The next PGC of the same domain, at the end of one.                      *)
PgcAdvance(in) ==
  /\ in.mount = "none" /\ in.end /\ ~lin
  /\ jumpPend = "none" /\ seekPend = None /\ rs \in {"stream", "still"}
  /\ rs' = "parse" /\ UNCHANGED << lin, jumpCross >>
  /\ seekPend' = SeekLatched(in) /\ jumpPend' = JumpLatched(in)
  /\ seekAck' = TRUE /\ jumpAck' = FALSE
  /\ keepVbuf' = menu
  /\ Relocates(menu)

(* Anything else: a block in flight, a parse, a cell being looked up.  The   *)
(* first sector comes long after the flush.                                  *)
Reads(in) ==
  /\ in.mount = "none"
  /\ \/ rs' = rs
     \/ rs = "parse" /\ loadC = 0 /\ rs' = IF lin THEN "stream" ELSE "load"
     \/ rs = "load" /\ loadC = 0 /\ rs' = "stream"
     \/ rs = "stream" /\ ~lin /\ rs' = "still"
     \/ rs = "still" /\ rs' = "stream"
  /\ UNCHANGED << lin, menu, keepVbuf, jumpCross, place, wasMenu >>
  /\ seekPend' = SeekLatched(in) /\ jumpPend' = JumpLatched(in)
  /\ seekAck' = FALSE /\ jumpAck' = FALSE

Reader(in) == Start(in) \/ JumpGo(in) \/ SeekJump(in) \/ PgcAdvance(in) \/ Reads(in)

(***************************************************************************)
(* flush_ctl.sv.                                                            *)
(***************************************************************************)
Held(c, event) == IF event THEN FlushLen ELSE IF c > 0 THEN c - 1 ELSE 0

Mounts(in) == in.mount # "none"
Flushing   == (seekAck \/ jumpAck) /\ ~keepVbuf

SeekFlush_NoMount(in) == Flushing \/ modeSwitch
SeekFlush(in) == Flushing \/ modeSwitch \/ Mounts(in)

FlushCtl(in) ==
  /\ loadC'     = Held(loadC, Mounts(in) \/ seekAck \/ jumpAck \/ modeSwitch)
  /\ audC'      = Held(audC, Mounts(in) \/ Flushing \/ modeSwitch)
  /\ resyncC'   = Held(resyncC, in.audio)
  /\ seekC'     = Held(seekC, SeekFlush(in))
  /\ jumpSoftC' = Held(jumpSoftC, jumpAck /\ ~keepVbuf /\ jumpCross)
  /\ mountC'    = Held(mountC, Mounts(in))

LoadFlush == loadC # 0
SoftFlush == mountC # 0 \/ jumpSoftC # 0

(***************************************************************************)
(* nav_dsi.sv, held in reset by load_flush: a DSI packet of the stream.     *)
(***************************************************************************)
NavDsi ==
  \/ loadC' # 0 /\ dsi' = 0 /\ commit' = FALSE
  \/ loadC' = 0 /\ UNCHANGED dsi /\ commit' = FALSE
  \/ loadC' = 0 /\ rs = "stream" /\ ~lin /\ dsi' = place /\ commit' = TRUE

(***************************************************************************)
(* mode_realign.sv.                                                         *)
(***************************************************************************)
Possible == (CellMode \/ LinSeekOk) /\ ~menu /\ rs # "still"
Base     == IF lin THEN place ELSE dsi

BaseOk_NoFresh == lin \/ ~commit
BaseOk   == lin \/ (fresh /\ ~commit)
CanIssue == Possible /\ BaseOk /\ ~hold

AckDone == (seekAck \/ jumpAck) /\ ~keepVbuf

GoesTo(s) == st' = s /\ issue' = FALSE /\ modeSwitch' = FALSE /\ UNCHANGED tgt
Fallback  == st' = "IDLE" /\ issue' = FALSE /\ modeSwitch' = TRUE /\ UNCHANGED tgt
Counts_Silent == IF tmr = 0 THEN GoesTo("IDLE") /\ UNCHANGED tmr
                           ELSE GoesTo(st) /\ tmr' = tmr - 1
Counts    == IF tmr = 0 THEN Fallback /\ UNCHANGED tmr
                        ELSE GoesTo(st) /\ tmr' = tmr - 1

Cancelled(in) == Mounts(in) /\ GoesTo("IDLE") /\ tmr' = 0

Idle(in) ==
  /\ ~Mounts(in) /\ st = "IDLE"
  /\ \/ ~in.edge /\ GoesTo("IDLE") /\ UNCHANGED tmr
     \/ in.edge /\ Possible /\ GoesTo("ARM") /\ tmr' = Wdog
     \/ in.edge /\ ~Possible /\ Fallback /\ UNCHANGED tmr

Arm(in) ==
  /\ ~Mounts(in) /\ st = "ARM"
  /\ \/ AckDone /\ GoesTo("IDLE") /\ UNCHANGED tmr
     \/ ~AckDone /\ in.scrub /\ GoesTo("ACK") /\ UNCHANGED tmr
     \/ /\ ~AckDone /\ ~in.scrub /\ CanIssue
        /\ st' = "ACK" /\ tgt' = Base /\ issue' = TRUE /\ modeSwitch' = FALSE
        /\ tmr' = Wdog
     \/ /\ ~AckDone /\ ~in.scrub /\ ~CanIssue
        /\ IF hold THEN GoesTo("ARM") /\ UNCHANGED tmr ELSE Counts

Ack(in) ==
  /\ ~Mounts(in) /\ st = "ACK"
  /\ \/ AckDone /\ GoesTo("IDLE") /\ UNCHANGED tmr
     \/ ~AckDone /\ Counts

Freshness == fresh' = (~LoadFlush /\ (commit \/ fresh))

ModeRealign(in) == Freshness /\ (Cancelled(in) \/ Idle(in) \/ Arm(in) \/ Ack(in))

(***************************************************************************)
(* One clock edge.                                                          *)
(***************************************************************************)
TrioStarts == loadC' = FlushLen /\ audC' = FlushLen /\ seekC' = FlushLen

History(in) ==
  /\ owed' = ((owed \/ in.edge) /\ ~TrioStarts)
  /\ late' = IF issue' THEN place' # place \/ loadC = FlushLen ELSE late

Clock(in) ==
  /\ Events(in) <= left /\ left' = left - Events(in)
  /\ Reader(in) /\ FlushCtl(in) /\ NavDsi /\ ModeRealign(in) /\ History(in)
  /\ hold' \in BOOLEAN

Next == \E in \in Inputs : Clock(in)

Spec == Init /\ [][Next]_vars

(* The clock runs, and a scrub gesture is let go of. *)
FairSpec == Spec /\ WF_vars(Next /\ ~hold')

(***************************************************************************)
(* Properties.                                                              *)
(***************************************************************************)

(* Ranges of the registers, the watchdog and the flush counters included.   *)
ArmTypes ==
  /\ st \in {"IDLE", "ARM", "ACK"} /\ tmr \in 0 .. Wdog /\ tgt \in Nat
  /\ issue \in BOOLEAN /\ modeSwitch \in BOOLEAN /\ fresh \in BOOLEAN
CounterTypes ==
  /\ loadC \in 0 .. FlushLen /\ audC \in 0 .. FlushLen /\ resyncC \in 0 .. FlushLen
  /\ seekC \in 0 .. FlushLen /\ jumpSoftC \in 0 .. FlushLen /\ mountC \in 0 .. FlushLen
ReaderTypes ==
  /\ rs \in {"none", "parse", "load", "stream", "still"}
  /\ jumpPend \in {"none", "menu", "title"} /\ seekPend \in Nat \cup {None}
  /\ lin \in BOOLEAN /\ menu \in BOOLEAN /\ seekAck \in BOOLEAN /\ jumpAck \in BOOLEAN
  /\ keepVbuf \in BOOLEAN /\ jumpCross \in BOOLEAN
  /\ place \in Nat /\ wasMenu \in BOOLEAN
PlayheadTypes ==
  /\ dsi \in Nat /\ commit \in BOOLEAN /\ hold \in BOOLEAN
  /\ owed \in BOOLEAN /\ late \in BOOLEAN /\ left \in 0 .. MaxEvents
TypeOK == ArmTypes /\ CounterTypes /\ ReaderTypes /\ PlayheadTypes

(* The flush trio rule (flush_ctl.sv's header): the video buffer and the     *)
(* audio are discarded together, never without the clock's re-anchor, and    *)
(* the decoder is never reset without all three.  "vbuf only" left audio     *)
(* late, "load and audio only" left it early for good.                       *)
TrioRule ==
  /\ audC = seekC /\ audC <= loadC
  /\ jumpSoftC <= seekC /\ mountC <= seekC

(* The decoder is reset by a mount or by a jump across the menu/title        *)
(* boundary, and by nothing else: a title-to-title jump of a game disc keeps *)
(* its held frame.                                                           *)
SoftOnlyOnCrossing ==
  jumpSoftC = FlushLen => \/ wasMenu # menu
                         \/ mountC = FlushLen

(* The safety half of NoLostFlush: a raster change that has had no trio yet  *)
(* is still in the hands of the arm, or of the fallback pulse.               *)
OwedIsArmed == owed => st # "IDLE" \/ modeSwitch

(* A change of the raster never silently loses its flush: whatever seeks,    *)
(* jumps, menu hops and further edges come in between, a whole trio follows. *)
NoLostFlush == owed ~> ~owed

(* On a disc a re-align goes to the VOBU being played: the playhead that it  *)
(* was sampled from belongs to the stream it will land in, and is not the 0  *)
(* that nav_dsi shows while load_flush resets it.                            *)
TargetIsCurrent == issue /\ CellMode => tgt = place

(* The same, for linear files too, but for the two cycles in which a         *)
(* relocation is under way when the playhead is sampled (the reader          *)
(* executing it, or load_flush rising).                                      *)
StaleOnlyInRace == issue /\ (CellMode \/ LinSeekOk) /\ ~late => tgt = place
=============================================================================

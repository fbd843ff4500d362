---------------------------- MODULE RealignProofs ----------------------------
(***************************************************************************)
(* Theorems of Realign for every length of a flush, every watchdog and every*)
(* number of events.  Each clock edge is Reader, FlushCtl, NavDsi,          *)
(* ModeRealign and History together, so a lemma cites the parts it needs.   *)
(***************************************************************************)
EXTENDS Realign, TLAPS

(* A flush counter stays in its range, whatever the event.                  *)
LEMMA HeldRange ==
  ASSUME NEW c \in 0 .. FlushLen, NEW e \in BOOLEAN
  PROVE  Held(c, e) \in 0 .. FlushLen
  BY CyclesAssumption DEF Held

(* A counter is FlushLen after an edge exactly when its event fell on it.   *)
LEMMA HeldFull ==
  ASSUME NEW c \in 0 .. FlushLen, NEW e \in BOOLEAN
  PROVE  (Held(c, e) = FlushLen) <=> e
  BY CyclesAssumption DEF Held

(* A counter at rest stays there without its event.                         *)
LEMMA HeldRest ==
  ASSUME NEW c, c = 0, NEW e \in BOOLEAN, ~e
  PROVE  Held(c, e) = 0
  BY DEF Held

(* Counters with nested events stay ordered.                                *)
LEMMA HeldOrder ==
  ASSUME NEW c \in 0 .. FlushLen, NEW d \in 0 .. FlushLen, c <= d,
         NEW e \in BOOLEAN, NEW f \in BOOLEAN, e => f
  PROVE  Held(c, e) <= Held(d, f)
  BY CyclesAssumption DEF Held

LEMMA InputTypes ==
  ASSUME NEW in \in Inputs
  PROVE  /\ in.edge \in BOOLEAN /\ in.scrub \in BOOLEAN /\ in.cell \in BOOLEAN
         /\ in.audio \in BOOLEAN /\ in.end \in BOOLEAN
         /\ in.jump \in {"none", "menu", "title"} /\ in.mount \in {"none", "disc", "file"}
         /\ Mounts(in) \in BOOLEAN
  BY DEF Inputs, Mounts

LEMMA EventCount ==
  ASSUME NEW in \in Inputs
  PROVE  Events(in) \in Nat
  BY InputTypes DEF Events, B

(***************************************************************************)
(* Type correctness.                                                        *)
(***************************************************************************)
LEMMA ReaderStep ==
  ASSUME TypeOK, NEW in \in Inputs, Reader(in)
  PROVE  ReaderTypes'
  <1>1. ReaderTypes /\ ArmTypes
    BY DEF TypeOK
  <1>2. SeekLatched(in) \in Nat \cup {None} /\ JumpLatched(in) \in {"none", "menu", "title"}
    BY <1>1, InputTypes DEF SeekLatched, JumpLatched, ReaderTypes, ArmTypes
  <1>3. lin' \in BOOLEAN /\ menu' \in BOOLEAN /\ wasMenu' \in BOOLEAN
    BY <1>1, Zenon DEF Reader, Start, JumpGo, SeekJump, PgcAdvance, Reads, Relocates, ReaderTypes
  <1>4. seekAck' \in BOOLEAN /\ jumpAck' \in BOOLEAN /\ keepVbuf' \in BOOLEAN
        /\ jumpCross' \in BOOLEAN
    BY <1>1, Zenon DEF Reader, Start, JumpGo, SeekJump, PgcAdvance, Reads, JumpCrosses,
       ReaderTypes
  <1>5. /\ rs' \in {"none", "parse", "load", "stream", "still"} /\ place' \in Nat
        /\ jumpPend' \in {"none", "menu", "title"} /\ seekPend' \in Nat \cup {None}
    BY <1>1, <1>2 DEF Reader, Start, JumpGo, SeekJump, PgcAdvance, Reads, Relocates,
       ReaderTypes, None
  <1> QED
    BY <1>3, <1>4, <1>5 DEF ReaderTypes

LEMMA FlushStep ==
  ASSUME TypeOK, NEW in \in Inputs, FlushCtl(in)
  PROVE  CounterTypes'
  <1>1. CounterTypes /\ seekAck \in BOOLEAN /\ jumpAck \in BOOLEAN /\ keepVbuf \in BOOLEAN
        /\ jumpCross \in BOOLEAN /\ modeSwitch \in BOOLEAN
    BY DEF TypeOK, ReaderTypes, ArmTypes
  <1>2. /\ (Mounts(in) \/ seekAck \/ jumpAck \/ modeSwitch) \in BOOLEAN
        /\ (Mounts(in) \/ Flushing \/ modeSwitch) \in BOOLEAN
        /\ SeekFlush(in) \in BOOLEAN /\ in.audio \in BOOLEAN /\ Mounts(in) \in BOOLEAN
        /\ (jumpAck /\ ~keepVbuf /\ jumpCross) \in BOOLEAN
    BY <1>1, InputTypes DEF SeekFlush
  <1> QED
    BY <1>1, <1>2, HeldRange DEF FlushCtl, CounterTypes

LEMMA ArmStep ==
  ASSUME TypeOK, NEW in \in Inputs, ModeRealign(in)
  PROVE  ArmTypes'
  <1>1. ArmTypes /\ loadC \in 0 .. FlushLen /\ commit \in BOOLEAN /\ hold \in BOOLEAN
        /\ dsi \in Nat /\ place \in Nat
    BY DEF TypeOK, CounterTypes, PlayheadTypes, ReaderTypes
  <1>2. fresh' \in BOOLEAN
    BY <1>1 DEF ModeRealign, Freshness, ArmTypes
  <1>3. Base \in Nat
    BY <1>1 DEF Base
  <1>4. issue' \in BOOLEAN /\ modeSwitch' \in BOOLEAN
    BY Zenon DEF ModeRealign, Cancelled, Idle, Arm, Ack, Counts, Fallback, GoesTo
  <1>5. Counts => st' \in {"IDLE", st} /\ tgt' = tgt /\ tmr' \in 0 .. Wdog
    BY <1>1, CyclesAssumption DEF Counts, Fallback, GoesTo, ArmTypes
  <1> DEFINE Ranges == st' \in {"IDLE", "ARM", "ACK"} /\ tmr' \in 0 .. Wdog /\ tgt' \in Nat
  <1>6. CASE Cancelled(in)
    <2>1. Ranges
      BY <1>1, <1>6, CyclesAssumption DEF Cancelled, GoesTo, ArmTypes
    <2> QED
      BY <1>2, <1>4, <2>1 DEF ArmTypes
  <1>7. CASE Idle(in)
    <2>1. Ranges
      BY <1>1, <1>7, CyclesAssumption DEF Idle, GoesTo, Fallback, ArmTypes
    <2> QED
      BY <1>2, <1>4, <2>1 DEF ArmTypes
  <1>8. CASE Arm(in)
    <2>1. Ranges
      BY <1>1, <1>3, <1>5, <1>8, CyclesAssumption DEF Arm, GoesTo, ArmTypes
    <2> QED
      BY <1>2, <1>4, <2>1 DEF ArmTypes
  <1>9. CASE Ack(in)
    <2>1. Ranges
      BY <1>1, <1>5, <1>9 DEF Ack, GoesTo, ArmTypes
    <2> QED
      BY <1>2, <1>4, <2>1 DEF ArmTypes
  <1> QED
    BY <1>6, <1>7, <1>8, <1>9 DEF ModeRealign

LEMMA PlayheadStep ==
  ASSUME TypeOK, NEW in \in Inputs, Clock(in)
  PROVE  PlayheadTypes'
  <1>1. PlayheadTypes /\ place \in Nat
    BY DEF TypeOK, ReaderTypes
  <1>2. dsi' \in Nat /\ commit' \in BOOLEAN
    <2>1. NavDsi
      BY DEF Clock
    <2>2. dsi' \in Nat
      BY <1>1, <2>1 DEF NavDsi, PlayheadTypes
    <2>3. commit' \in BOOLEAN
      BY <2>1, Zenon DEF NavDsi
    <2> QED
      BY <2>2, <2>3
  <1>3. owed' \in BOOLEAN /\ late' \in BOOLEAN
    BY <1>1 DEF Clock, History, PlayheadTypes
  <1>4. left' \in 0 .. MaxEvents
    BY <1>1, EventCount, CyclesAssumption DEF Clock, PlayheadTypes
  <1>5. hold' \in BOOLEAN
    BY DEF Clock
  <1> QED
    BY <1>2, <1>3, <1>4, <1>5 DEF PlayheadTypes

LEMMA TypeStep == TypeOK /\ [Next]_vars => TypeOK'
  <1> SUFFICES ASSUME TypeOK, [Next]_vars PROVE TypeOK'
    OBVIOUS
  <1>1. CASE Next
    BY <1>1, ReaderStep, FlushStep, ArmStep, PlayheadStep DEF Next, Clock, TypeOK
  <1>2. CASE UNCHANGED vars
    BY <1>2 DEF vars, realign, flushes, reader, TypeOK, ArmTypes, CounterTypes, ReaderTypes,
       PlayheadTypes
  <1> QED
    BY <1>1, <1>2

LEMMA TypeInit == Init => TypeOK
  <1> SUFFICES ASSUME Init PROVE TypeOK
    OBVIOUS
  <1>0. 0 \in Nat /\ 0 \in 0 .. Wdog /\ MaxEvents \in 0 .. MaxEvents
    BY CyclesAssumption
  <1>1. ArmTypes
    BY <1>0, Zenon DEF Init, ArmTypes
  <1>2. CounterTypes
    BY CyclesAssumption DEF Init, CounterTypes
  <1>3. ReaderTypes
    BY DEF Init, ReaderTypes
  <1>4. PlayheadTypes
    BY <1>0, Zenon DEF Init, PlayheadTypes
  <1> QED
    BY <1>1, <1>2, <1>3, <1>4 DEF TypeOK

(* TypeOK for all lengths of a flush and all watchdogs: no counter of        *)
(* flush_ctl and no watchdog ever leaves its range.                          *)
THEOREM RealignTypes == Spec => []TypeOK
  BY TypeInit, TypeStep, PTL DEF Spec

(***************************************************************************)
(* The flush trio.                                                          *)
(***************************************************************************)

(* TrioRule for all lengths of a flush.  It is inductive beside the types:   *)
(* the events of the three counters are nested, and counters that are        *)
(* started on nested events and run down together stay ordered.              *)
LEMMA TrioStep == TypeOK /\ TrioRule /\ [Next]_vars => TrioRule'
  <1> SUFFICES ASSUME TypeOK, TrioRule, NEW in \in Inputs, Clock(in) PROVE TrioRule'
    BY DEF Next, vars, flushes, TrioRule
  <1>1. CounterTypes /\ FlushCtl(in) /\ Mounts(in) \in BOOLEAN
        /\ seekAck \in BOOLEAN /\ jumpAck \in BOOLEAN /\ keepVbuf \in BOOLEAN
        /\ jumpCross \in BOOLEAN /\ modeSwitch \in BOOLEAN
    BY InputTypes DEF TypeOK, ReaderTypes, ArmTypes, Clock
  <1> DEFINE load == Mounts(in) \/ seekAck \/ jumpAck \/ modeSwitch
             aud  == Mounts(in) \/ Flushing \/ modeSwitch
             soft == jumpAck /\ ~keepVbuf /\ jumpCross
  <1>2. /\ load \in BOOLEAN /\ aud \in BOOLEAN /\ soft \in BOOLEAN
        /\ SeekFlush(in) = aud
        /\ (aud => load) /\ (soft => aud) /\ (Mounts(in) => aud)
    BY <1>1, Zenon DEF Flushing, SeekFlush
  <1>3. /\ loadC' = Held(loadC, load) /\ audC' = Held(audC, aud)
        /\ seekC' = Held(seekC, aud) /\ jumpSoftC' = Held(jumpSoftC, soft)
        /\ mountC' = Held(mountC, Mounts(in))
    BY <1>1, <1>2 DEF FlushCtl
  <1>4. audC = seekC /\ audC <= loadC /\ jumpSoftC <= seekC /\ mountC <= seekC
    BY DEF TrioRule
  <1> HIDE DEF load, aud, soft
  <1>5. Held(audC, aud) <= Held(loadC, load)
    BY <1>1, <1>2, <1>4, HeldOrder DEF CounterTypes
  <1>6. Held(jumpSoftC, soft) <= Held(seekC, aud) /\ Held(mountC, Mounts(in)) <= Held(seekC, aud)
    BY <1>1, <1>2, <1>4, HeldOrder DEF CounterTypes
  <1> QED
    BY <1>3, <1>4, <1>5, <1>6 DEF TrioRule

(* The video buffer and the audio are only ever flushed together and with    *)
(* the clock's re-anchor.                                                    *)
THEOREM FlushesAreTrios == Spec => []TrioRule
  <1>1. Init => TrioRule
    BY DEF Init, TrioRule
  <1> QED
    BY <1>1, RealignTypes, TrioStep, PTL DEF Spec

(***************************************************************************)
(* The soft reset of the decoder.                                           *)
(***************************************************************************)

(* In the cycle of a jump's ack the reader has nothing pending but another   *)
(* jump, and parses: the next relocation cannot come before the flush.       *)
AckSettled ==
  jumpAck => rs = "parse" /\ seekPend = None /\ (jumpCross => wasMenu # menu)

LEMMA AckSettledStep == AckSettled /\ [Next]_vars => AckSettled'
  <1> SUFFICES ASSUME AckSettled, [Next]_vars PROVE AckSettled'
    OBVIOUS
  <1>1. ASSUME NEW in \in Inputs, Clock(in) PROVE AckSettled'
    BY <1>1 DEF Clock, Reader, Start, JumpGo, SeekJump, PgcAdvance, Reads, JumpCrosses,
       Relocates, AckSettled
  <1>2. CASE UNCHANGED vars
    BY <1>2 DEF vars, reader, AckSettled
  <1> QED
    BY <1>1, <1>2 DEF Next

LEMMA CrossingStep == TypeOK /\ AckSettled /\ SoftOnlyOnCrossing /\ [Next]_vars
                         => SoftOnlyOnCrossing'
  <1> SUFFICES ASSUME TypeOK, AckSettled, NEW in \in Inputs, Clock(in)
               PROVE  SoftOnlyOnCrossing'
    BY DEF Next, vars, flushes, reader, SoftOnlyOnCrossing
  <1>1. CounterTypes /\ FlushCtl(in) /\ Mounts(in) \in BOOLEAN /\ jumpAck \in BOOLEAN
        /\ keepVbuf \in BOOLEAN /\ jumpCross \in BOOLEAN
    BY InputTypes DEF TypeOK, ReaderTypes, Clock
  <1>2. SUFFICES ASSUME jumpSoftC' = FlushLen
                 PROVE  wasMenu' # menu' \/ mountC' = FlushLen
    BY DEF SoftOnlyOnCrossing
  <1>3. jumpAck /\ jumpCross
    <2>1. (jumpAck /\ ~keepVbuf /\ jumpCross) \in BOOLEAN
      BY <1>1
    <2> QED
      BY <1>1, <1>2, <2>1, HeldFull DEF FlushCtl, CounterTypes
  <1>4. CASE Mounts(in)
    BY <1>1, <1>4, HeldFull DEF FlushCtl, CounterTypes
  <1>5. CASE ~Mounts(in)
    <2>1. Reads(in)
      BY <1>3, <1>5 DEF Clock, Reader, Start, JumpGo, SeekJump, PgcAdvance, AckSettled, Mounts
    <2> QED
      BY <1>3, <2>1 DEF Reads, AckSettled
  <1> QED
    BY <1>4, <1>5

(* A soft reset of the decoder starts only on a mount or on a jump that      *)
(* crosses the menu/title boundary, for all lengths of a flush.              *)
THEOREM CrossingsSoftReset == Spec => []SoftOnlyOnCrossing
  <1>1. Init => AckSettled /\ SoftOnlyOnCrossing
    BY CyclesAssumption DEF Init, AckSettled, SoftOnlyOnCrossing
  <1> QED
    BY <1>1, RealignTypes, AckSettledStep, CrossingStep, PTL DEF Spec

(***************************************************************************)
(* The change of the raster.                                                *)
(***************************************************************************)

(* The trio starts on its event, and so an edge that leaves the arm by a     *)
(* full ack or a mount is paid in the same cycle.                            *)
LEMMA TrioOnEvent ==
  ASSUME TypeOK, NEW in \in Inputs, FlushCtl(in), Mounts(in) \/ Flushing \/ modeSwitch
  PROVE  TrioStarts
  <1>1. CounterTypes /\ Mounts(in) \in BOOLEAN /\ modeSwitch \in BOOLEAN
        /\ seekAck \in BOOLEAN /\ jumpAck \in BOOLEAN /\ keepVbuf \in BOOLEAN
    BY InputTypes DEF TypeOK, ReaderTypes, ArmTypes
  <1> DEFINE load == Mounts(in) \/ seekAck \/ jumpAck \/ modeSwitch
             aud  == Mounts(in) \/ Flushing \/ modeSwitch
  <1>2. load \in BOOLEAN /\ aud \in BOOLEAN /\ load /\ aud /\ SeekFlush(in) = aud
    BY <1>1, Zenon DEF Flushing, SeekFlush
  <1>3. loadC' = Held(loadC, load) /\ audC' = Held(audC, aud) /\ seekC' = Held(seekC, aud)
    BY <1>2 DEF FlushCtl
  <1> QED
    BY <1>1, <1>2, <1>3, HeldFull DEF CounterTypes, TrioStarts

(* An edge whose trio is still owed is never dropped: the arm holds it, or   *)
(* the fallback pulse is on its way to flush_ctl.                            *)
LEMMA OwedStep == TypeOK /\ OwedIsArmed /\ [Next]_vars => OwedIsArmed'
  <1> SUFFICES ASSUME TypeOK, OwedIsArmed, NEW in \in Inputs, Clock(in) PROVE OwedIsArmed'
    BY DEF Next, vars, realign, OwedIsArmed
  <1>1. SUFFICES ASSUME owed' PROVE st' # "IDLE" \/ modeSwitch'
    BY DEF OwedIsArmed
  <1>2. (owed \/ in.edge) /\ ~TrioStarts
    BY <1>1 DEF Clock, History
  <1>3. ~(Mounts(in) \/ Flushing \/ modeSwitch)
    BY <1>2, TrioOnEvent DEF Clock
  <1>4. ~AckDone /\ ~Mounts(in) /\ ~modeSwitch
    BY <1>3 DEF AckDone, Flushing
  <1>5. CASE Idle(in)
    BY <1>2, <1>4, <1>5 DEF Idle, GoesTo, Fallback, OwedIsArmed
  <1>6. CASE Arm(in)
    BY <1>4, <1>6 DEF Arm, GoesTo, Counts, Fallback
  <1>7. CASE Ack(in)
    BY <1>4, <1>7 DEF Ack, GoesTo, Counts, Fallback
  <1> QED
    BY <1>4, <1>5, <1>6, <1>7 DEF Clock, ModeRealign, Cancelled

(* A mode change never loses its flush, in its safety form, for every        *)
(* watchdog and every interleaving of seeks, jumps, mounts and edges.        *)
THEOREM OwedEdgesAreArmed == Spec => []OwedIsArmed
  <1>1. Init => OwedIsArmed
    BY DEF Init, OwedIsArmed
  <1> QED
    BY <1>1, RealignTypes, OwedStep, PTL DEF Spec

(***************************************************************************)
(* The target of a re-align.                                                *)
(***************************************************************************)

(* What dsi_fresh and dsi_commit promise: the playhead is that of the        *)
(* current place, unless the ack of a relocation is being pulsed, or the     *)
(* flush it causes is in its first cycle.                                    *)
PlayheadOk ==
  (fresh \/ commit) /\ ~lin => dsi = place \/ seekAck \/ jumpAck \/ loadC = FlushLen

(* An ack that keeps the buffer leaves the reader in a menu, where a         *)
(* re-align is not possible.                                                 *)
KeptInMenu == (seekAck \/ jumpAck) /\ keepVbuf => menu

LEMMA PlayheadOkStep == TypeOK /\ PlayheadOk /\ [Next]_vars => PlayheadOk'
  <1> SUFFICES ASSUME TypeOK, PlayheadOk, NEW in \in Inputs, Clock(in) PROVE PlayheadOk'
    BY DEF Next, vars, realign, flushes, reader, PlayheadOk
  <1>1. SUFFICES ASSUME fresh' \/ commit', ~lin', loadC' # FlushLen, ~seekAck', ~jumpAck'
                 PROVE  dsi' = place'
    BY DEF PlayheadOk
  <1>2. ~(Mounts(in) \/ seekAck \/ jumpAck \/ modeSwitch)
    <2>1. (Mounts(in) \/ seekAck \/ jumpAck \/ modeSwitch) \in BOOLEAN /\ loadC \in 0 .. FlushLen
      BY InputTypes DEF TypeOK, ReaderTypes, ArmTypes, CounterTypes
    <2> QED
      BY <1>1, <2>1, HeldFull DEF Clock, FlushCtl
  <1>3. Reads(in)
    BY <1>1, <1>2 DEF Clock, Reader, Start, JumpGo, SeekJump, PgcAdvance, Mounts
  <1>4. place' = place /\ lin' = lin
    BY <1>3 DEF Reads
  <1>5. CASE commit'
    BY <1>4, <1>5 DEF Clock, NavDsi
  <1>6. CASE fresh' /\ ~commit'
    <2>1. loadC = 0 /\ (commit \/ fresh)
      BY <1>6 DEF Clock, ModeRealign, Freshness, LoadFlush
    <2>2. dsi = place
      BY <1>1, <1>2, <1>4, <2>1, CyclesAssumption DEF PlayheadOk
    <2>3. loadC' = 0
      <3>1. (Mounts(in) \/ seekAck \/ jumpAck \/ modeSwitch) \in BOOLEAN
        BY InputTypes DEF TypeOK, ReaderTypes, ArmTypes
      <3> QED
        BY <1>2, <2>1, <3>1, HeldRest DEF Clock, FlushCtl
    <2>4. UNCHANGED dsi
      <3>1. NavDsi
        BY DEF Clock
      <3>2. commit' = FALSE
        BY <1>6, <3>1 DEF NavDsi
      <3> QED
        BY <2>3, <3>1, <3>2 DEF NavDsi
    <2> QED
      BY <1>4, <2>2, <2>4
  <1> QED
    BY <1>1, <1>5, <1>6

LEMMA KeptInMenuStep == KeptInMenu /\ [Next]_vars => KeptInMenu'
  <1> SUFFICES ASSUME KeptInMenu, [Next]_vars PROVE KeptInMenu'
    OBVIOUS
  <1>1. ASSUME NEW in \in Inputs, Clock(in) PROVE KeptInMenu'
    <2>1. CASE Start(in) \/ Reads(in)
      BY <2>1 DEF Start, Reads, KeptInMenu
    <2>2. CASE JumpGo(in)
      BY <2>2 DEF JumpGo, Relocates, KeptInMenu
    <2>3. CASE SeekJump(in) \/ PgcAdvance(in)
      BY <2>3 DEF SeekJump, PgcAdvance, Relocates, KeptInMenu
    <2> QED
      BY <1>1, <2>1, <2>2, <2>3 DEF Clock, Reader
  <1>2. CASE UNCHANGED vars
    BY <1>2 DEF vars, reader, KeptInMenu
  <1> QED
    BY <1>1, <1>2 DEF Next

LEMMA TargetStep == TypeOK /\ PlayheadOk /\ KeptInMenu /\ StaleOnlyInRace /\ [Next]_vars
                       => StaleOnlyInRace'
  <1> SUFFICES ASSUME TypeOK, PlayheadOk, KeptInMenu, NEW in \in Inputs, Clock(in)
               PROVE  StaleOnlyInRace'
    BY DEF Next, vars, realign, reader, CellMode, LinSeekOk, StaleOnlyInRace
  <1>1. SUFFICES ASSUME issue', ~late' PROVE tgt' = place'
    BY DEF StaleOnlyInRace
  <1>2. place' = place /\ loadC # FlushLen
    BY <1>1 DEF Clock, History
  <1>3. Arm(in)
    BY <1>1, Zenon DEF Clock, ModeRealign, Cancelled, Idle, Ack, GoesTo, Counts, Fallback
  <1>4. ~AckDone /\ CanIssue /\ tgt' = Base
    BY <1>1, <1>3, Zenon DEF Arm, GoesTo, Counts, Fallback
  <1>5. CASE lin
    BY <1>2, <1>4, <1>5 DEF Base
  <1>6. CASE ~lin
    <2>1. fresh /\ ~menu
      BY <1>4, <1>6 DEF CanIssue, BaseOk, Possible
    <2>2. ~seekAck /\ ~jumpAck
      BY <1>4, <2>1 DEF AckDone, KeptInMenu
    <2> QED
      BY <1>2, <1>4, <1>6, <2>1, <2>2 DEF PlayheadOk, Base
  <1> QED
    BY <1>5, <1>6

(* But for the two cycles of a relocation, a re-align is aimed at the place  *)
(* the reader plays: the one target that dsi_fresh is there to guarantee.    *)
THEOREM TargetsAreFresh == Spec => []StaleOnlyInRace
  <1>1. Init => PlayheadOk /\ KeptInMenu /\ StaleOnlyInRace
    BY DEF Init, PlayheadOk, KeptInMenu, StaleOnlyInRace
  <1> QED
    BY <1>1, RealignTypes, PlayheadOkStep, KeptInMenuStep, TargetStep, PTL DEF Spec
=============================================================================

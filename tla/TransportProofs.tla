--------------------------- MODULE TransportProofs ---------------------------
(***************************************************************************)
(* Four safety properties of Transport for every title, every length of a    *)
(* flush, every window and wait, and any number of events.  A clock edge is  *)
(* NavDsi, AbRepeat, DpadSeek, ScrubCtrl and Reader together, so each lemma  *)
(* cites the parts it needs.                                                 *)
(*                                                                         *)
(* No argument needs more of the registers' types than that they are the     *)
(* records they are written as, and that a sector is an integer.             *)
(***************************************************************************)
EXTENDS Transport, TLAPS

ScShape ==
  sc = [wq |-> sc.wq, base |-> sc.base, off |-> sc.off, dir |-> sc.dir, tick |-> sc.tick,
        go |-> sc.go, by |-> sc.by, pulse |-> sc.pulse, rbn |-> sc.rbn, pby |-> sc.pby]
AbShape ==
  ab = [st |-> ab.st, a |-> ab.a, b |-> ab.b, lock |-> ab.lock, jump |-> ab.jump]
DpShape ==
  dp = [st |-> dp.st, net |-> dp.net, win |-> dp.win, tmr |-> dp.tmr, left |-> dp.left,
        rung |-> dp.rung, off |-> dp.off, base |-> dp.base, src |-> dp.src, jump |-> dp.jump]

LEMMA ScShapeStep ==
  ASSUME ScShape, NEW in \in Inputs, ScrubCtrl(in)
  PROVE  ScShape'
<1>1. CASE ScRise(in)
  BY <1>1 DEF ScRise, Quiet, ScRest, ScShape
<1>2. CASE ScHold(in)
  BY <1>2 DEF ScHold, ScShape
<1>3. CASE ScFall(in)
  BY <1>3 DEF ScFall, Pulse, Quiet, ScRest, ScShape
<1>4. CASE ScTake(in)
  BY <1>4 DEF ScTake, Quiet, ScRest, ScShape
<1>5. CASE ScIssue(in) \/ ScRestful
  BY <1>5 DEF ScIssue, ScRestful, Pulse, Quiet, ScRest, ScShape
<1> QED BY <1>1, <1>2, <1>3, <1>4, <1>5 DEF ScrubCtrl

(***************************************************************************)
(* No seek to a sector crosses into the next title.  Between the jump and    *)
(* its acknowledge what scrub_ctrl holds is the old title's; the acknowledge *)
(* finds no cell, so a hold ends, a jump is not taken, and a pulse that       *)
(* leaves then meets a reader that has none either: a cell is loaded only    *)
(* when the flush behind the acknowledge is over.  The seek of a chapter      *)
(* walk passes none of these gates, and is not in the invariant.             *)
(***************************************************************************)
TitleInv ==
  /\ rd.ack = "jump" => ~cell
  /\ rd.pend /\ rd.isRbn => rd.by # "old"
  /\ (sc.go \/ sc.wq) /\ sc.by = "old" => rd.ack = "jump"
  /\ sc.pulse /\ sc.pby = "old" => rd.ack = "jump" \/ (fl = FlushLen /\ ~cell)

LEMMA TitleInit == Init => ScShape /\ TitleInv
  BY DEF Init, ScShape, TitleInv, ScRest, RdIdle

LEMMA TitleStep ==
  ASSUME ScShape, TitleInv, NEW in \in Inputs, Clock(in)
  PROVE  TitleInv'
<1> USE DEF Clock, NavDsi
<1>1. rd'.ack = "jump" => ~cell'
  <2>1. CASE RdJump(in)
    BY <2>1 DEF RdJump
  <2>2. CASE RdSeek(in) \/ RdLoad(in) \/ RdStream(in)
    <3>1. rd'.ack \in {"seek", "none"}
      <4>1. CASE RdSeek(in)
        BY <4>1 DEF RdSeek, RdIdle
      <4>2. CASE RdLoad(in) \/ RdStream(in)
        BY <4>2 DEF RdLoad, RdStream, Latched
      <4> QED BY <2>2, <4>1, <4>2
    <3> QED BY <3>1
  <2> QED BY <2>1, <2>2 DEF Reader
<1>2. rd'.pend /\ rd'.isRbn => rd'.by # "old"
  <2>1. CASE RdJump(in) \/ RdSeek(in)
    BY <2>1 DEF RdJump, RdSeek, RdIdle
  <2>2. CASE RdLoad(in) \/ RdStream(in)
    <3>1. /\ in.reader # "jump"
          /\ rd'.pend = Asked(in).pend /\ rd'.isRbn = Asked(in).isRbn /\ rd'.by = Asked(in).by
      BY <2>2 DEF RdLoad, RdStream, Latched
    <3>2. CASE Arms(in)
      BY <3>1, <3>2 DEF Asked, ChapterSeek
    <3>3. CASE ~Arms(in) /\ sc.pulse /\ cell
      <4>1. sc.pby # "old"
        BY <3>3 DEF TitleInv
      <4> QED BY <3>1, <3>3, <4>1 DEF Asked, RbnSeek, Tag
    <3>4. CASE ~Arms(in) /\ ~(sc.pulse /\ cell)
      BY <3>1, <3>4 DEF Asked, StillAsked, Tag, TitleInv
    <3> QED BY <3>2, <3>3, <3>4
  <2> QED BY <2>1, <2>2 DEF Reader
<1>3. in.reader = "jump" => rd'.ack = "jump"
  BY DEF Reader, RdJump, RdSeek, RdLoad, RdStream, RdIdle
<1>4. ASSUME NEW t, in.reader # "jump", Tag(in, t) = "old" PROVE t = "old"
  BY <1>4 DEF Tag
<1>5. (sc'.go \/ sc'.wq) /\ sc'.by = "old" => rd'.ack = "jump"
  <2> SUFFICES ASSUME sc'.go \/ sc'.wq, sc'.by = "old", in.reader # "jump"
               PROVE  FALSE
    BY <1>3
  <2>1. CASE ScRise(in)
    BY <1>4, <2>1 DEF ScRise, Quiet, ScRest
  <2>2. CASE ScHold(in)
    <3>1. sc'.by = Tag(in, sc.by)
      BY <2>2 DEF ScHold, ScShape
    <3> QED BY <1>4, <2>2, <3>1 DEF ScHold, TitleInv, want
  <2>3. CASE ScTake(in)
    BY <1>4, <2>3 DEF ScTake, Quiet, ScRest, JumpBy
  <2>4. CASE ScFall(in) \/ ScIssue(in) \/ ScRestful
    <3>1. ~sc'.go /\ ~sc'.wq
      BY <2>4 DEF ScFall, ScIssue, ScRestful, Pulse, Quiet, ScRest
    <3> QED BY <3>1
  <2> QED BY <2>1, <2>2, <2>3, <2>4 DEF ScrubCtrl
<1>6. sc'.pulse /\ sc'.pby = "old" => rd'.ack = "jump" \/ (fl' = FlushLen /\ ~cell')
  <2> SUFFICES ASSUME sc'.pulse, sc'.pby = "old", in.reader # "jump"
               PROVE  fl' = FlushLen /\ ~cell'
    BY <1>3
  <2>1. (ScFall(in) \/ ScIssue(in)) /\ sc'.pby = Tag(in, sc.by)
    <3>1. ~(ScRise(in) \/ ScHold(in) \/ ScTake(in) \/ ScRestful)
      BY DEF ScRise, ScHold, ScTake, ScRestful, Quiet, ScRest, ScShape
    <3> QED BY <3>1 DEF ScrubCtrl, ScFall, ScIssue, Pulse, Quiet, ScRest
  <2>2. (sc.go \/ sc.wq) /\ sc.by = "old"
    BY <1>4, <2>1 DEF ScFall, ScIssue
  <2>3. rd.ack = "jump" /\ ~cell
    BY <2>2 DEF TitleInv
  <2>4. fl' = FlushLen
    BY <2>3 DEF Flush
  <2>5. ~cell'
    BY <2>3 DEF Reader, RdJump, RdSeek, RdLoad, RdStream
  <2> QED BY <2>4, <2>5
<1> QED BY <1>1, <1>2, <1>5, <1>6 DEF TitleInv

(* Stuttering keeps it.                                                      *)
LEMMA TitleInductive ==
  ScShape /\ TitleInv /\ [Next]_vars => (ScShape /\ TitleInv)'
<1> SUFFICES ASSUME ScShape, TitleInv, [Next]_vars PROVE ScShape' /\ TitleInv'
  OBVIOUS
<1>1. CASE Next
  <2>1. PICK in \in Inputs : Clock(in)
    BY <1>1 DEF Next
  <2> QED BY <2>1, ScShapeStep, TitleStep DEF Clock
<1>2. CASE UNCHANGED vars
  BY <1>2 DEF vars, nav, ScShape, TitleInv
<1> QED BY <1>1, <1>2

(* A sector that a scrub, the D-pad or a loop asked for in one title is not   *)
(* sought in the one a VM jump has gone to: the cell_ready gate of scrub_ctrl *)
(* and of that branch of the reader's seek latch is enough, whatever the     *)
(* phase of jump, acknowledge, flush and chapter walk.                       *)
THEOREM TitleKept == Spec => []SeekKeepsTitle
<1>1. ScShape /\ TitleInv => SeekKeepsTitle
  BY DEF TitleInv, SeekKeepsTitle
<1> QED BY <1>1, TitleInit, TitleInductive, PTL DEF Spec

(***************************************************************************)
(* A loop-back goes to A.  Distance and base travel apart from the mark, but  *)
(* ab_repeat's mark cannot move while the loop runs, so in every register     *)
(* base - off stays the mark of the loop that asked; and a hold, which        *)
(* rewrites base and off, cannot begin on the numbers of a jump.             *)
(***************************************************************************)
ToMark(b, o, d) == d = "bwd" /\ b - o = ab.a

Numbers == lbn \in Int /\ ab.a \in Int

LoopInv ==
  /\ ab.jump # NoJump => ab.st = 2 /\ ToMark(ab.jump.base, ab.jump.off, ab.jump.dir)
  /\ sc.wq => sc.by # "loop" /\ ~sc.go
  /\ sc.go /\ sc.by = "loop" => ab.st = 2 /\ ToMark(sc.base, sc.off, sc.dir)
  /\ sc.pulse /\ sc.pby = "loop" => ab.st = 2 /\ sc.rbn = Clamp(ab.a)

LEMMA LoopInit == Init => AbShape /\ ScShape /\ Numbers /\ LoopInv
  BY DEF Init, AbShape, ScShape, Numbers, LoopInv, AbOff, ScRest, NoJump

LEMMA PlayheadStep ==
  ASSUME lbn \in Int, NEW in \in Inputs, Walk(in)
  PROVE  lbn' \in Int
<1>1. Byte(in) => Sec[at[1]] \in Int
  BY TitleAssumption DEF Walk, VOBUs, N
<1> QED BY <1>1 DEF Walk

(* While the loop runs its mark stays, and what it fires aims at it.          *)
LEMMA LoopStep ==
  ASSUME AbShape, Numbers, NEW in \in Inputs, AbRepeat(in)
  PROVE  /\ AbShape' /\ ab'.a \in Int
         /\ ab.st = 2 /\ ab'.st = 2 => ab'.a = ab.a
         /\ ab'.jump # NoJump => ab'.st = 2 /\ ToMark(ab.jump.base, ab.jump.off, ab.jump.dir)'
<1>1. CASE ab' = AbOff
  BY <1>1 DEF AbOff, AbShape, NoJump
<1>2. CASE AbMark
  <2>1. CASE ab.st = 1 /\ lbn > ab.a
    BY <1>2, <2>1 DEF AbMark, AbShape, Numbers
  <2>2. CASE ~(ab.st = 1 /\ lbn > ab.a)
    <3>1. ab' = [ab EXCEPT !.a = lbn, !.st = 1, !.jump = NoJump]
      BY <1>2, <2>2 DEF AbMark
    <3>2. ab' = [st |-> 1, a |-> lbn, b |-> ab.b, lock |-> ab.lock, jump |-> NoJump]
      BY <3>1 DEF AbShape
    <3> QED BY <3>2 DEF AbShape, Numbers
  <2> QED BY <2>1, <2>2
<1>3. CASE AbDead
  BY <1>3 DEF AbDead, AbShape, Numbers
<1>4. CASE AbWatch
  <2>1. CASE Reached /\ ~ab.lock
    <3>1. AbShape' /\ ab'.a = ab.a /\ ab'.st = 2 /\ ab'.jump = LoopBack
      BY <1>4, <2>1 DEF AbWatch, AbShape, Reached
    <3>2. ToMark(ab.jump.base, ab.jump.off, ab.jump.dir)'
      BY <3>1 DEF ToMark, LoopBack, Numbers
    <3> QED BY <3>1, <3>2 DEF Numbers
  <2>2. CASE ~(Reached /\ ~ab.lock)
    BY <1>4, <2>2 DEF AbWatch, AbShape, Numbers
  <2> QED BY <2>1, <2>2
<1> QED BY <1>1, <1>2, <1>3, <1>4 DEF AbRepeat, AbClear

LEMMA LoopInvStep ==
  ASSUME AbShape, ScShape, Numbers, LoopInv, NEW in \in Inputs, Clock(in)
  PROVE  Numbers' /\ LoopInv'
<1> USE DEF Clock
<1>1. lbn' \in Int
  BY PlayheadStep DEF NavDsi, Numbers
<1>2. /\ ab'.a \in Int
      /\ ab.st = 2 /\ ab'.st = 2 => ab'.a = ab.a
      /\ ab'.jump # NoJump => ab'.st = 2 /\ ToMark(ab.jump.base, ab.jump.off, ab.jump.dir)'
  BY LoopStep
<1>3. ASSUME NEW t, Tag(in, t) = "loop" PROVE t = "loop" /\ ab'.st = 2
  BY <1>3 DEF Tag
<1>4. sc'.wq => sc'.by # "loop" /\ ~sc'.go
  <2>1. CASE ScRise(in)
    BY <1>3, <2>1 DEF ScRise, Quiet, ScRest
  <2>2. CASE ScHold(in)
    <3>1. sc'.by = Tag(in, sc.by) /\ sc'.go = sc.go
      BY <2>2 DEF ScHold, ScShape
    <3> QED BY <1>3, <2>2, <3>1 DEF ScHold, LoopInv
  <2>3. CASE ScFall(in) \/ ScTake(in) \/ ScIssue(in) \/ ScRestful
    <3>1. ~sc'.wq
      BY <2>3 DEF ScFall, ScTake, Takes, ScIssue, ScRestful, Pulse, Quiet, ScRest
    <3> QED BY <3>1
  <2> QED BY <2>1, <2>2, <2>3 DEF ScrubCtrl
<1>5. sc'.go /\ sc'.by = "loop" => ab'.st = 2 /\ ToMark(sc.base, sc.off, sc.dir)'
  <2> SUFFICES ASSUME sc'.go, sc'.by = "loop"
               PROVE  ab'.st = 2 /\ ToMark(sc.base, sc.off, sc.dir)'
    OBVIOUS
  <2>1. CASE ScTake(in)
    <3>1. /\ sc'.by = Tag(in, JumpBy)
          /\ sc'.base = Jump.base /\ sc'.off = Jump.off /\ sc'.dir = Jump.dir
      BY <2>1 DEF ScTake, Quiet, ScRest
    <3>2. JumpBy = "loop" /\ ab'.st = 2
      BY <1>3, <3>1
    <3>3. ab.jump # NoJump /\ Jump = ab.jump
      BY <3>2 DEF JumpBy, Jump
    <3>4. ab.st = 2 /\ ToMark(ab.jump.base, ab.jump.off, ab.jump.dir)
      BY <3>3 DEF LoopInv
    <3> QED BY <1>2, <3>1, <3>2, <3>3, <3>4 DEF ToMark
  <2>2. CASE ScHold(in)
    BY <2>2 DEF ScHold, ScShape, LoopInv
  <2>3. CASE ScRise(in) \/ ScFall(in) \/ ScIssue(in) \/ ScRestful
    BY <2>3 DEF ScRise, ScFall, ScIssue, ScRestful, Pulse, Quiet, ScRest
  <2> QED BY <2>1, <2>2, <2>3 DEF ScrubCtrl
<1>6. sc'.pulse /\ sc'.pby = "loop" => ab'.st = 2 /\ sc'.rbn = Clamp(ab'.a)
  <2> SUFFICES ASSUME sc'.pulse, sc'.pby = "loop"
               PROVE  ab'.st = 2 /\ sc'.rbn = Clamp(ab'.a)
    OBVIOUS
  <2>1. /\ ScFall(in) \/ ScIssue(in)
        /\ sc'.pby = Tag(in, sc.by) /\ sc'.rbn = Target
    <3>1. ~(ScRise(in) \/ ScHold(in) \/ ScTake(in) \/ ScRestful)
      BY DEF ScRise, ScHold, ScTake, ScRestful, Quiet, ScRest, ScShape
    <3> QED BY <3>1 DEF ScrubCtrl, ScFall, ScIssue, Pulse, Quiet, ScRest
  <2>2. sc.by = "loop" /\ ab'.st = 2
    BY <1>3, <2>1
  <2>3. sc.go
    BY <2>1, <2>2 DEF ScFall, ScIssue, LoopInv
  <2>4. ab.st = 2 /\ ToMark(sc.base, sc.off, sc.dir)
    BY <2>2, <2>3 DEF LoopInv
  <2>5. Target = Clamp(ab.a)
    BY <2>4 DEF ToMark, Target
  <2> QED BY <1>2, <2>1, <2>2, <2>4, <2>5
<1>7. Numbers'
  BY <1>1, <1>2 DEF Numbers
<1>8. ab'.jump # NoJump => ab'.st = 2 /\ ToMark(ab.jump.base, ab.jump.off, ab.jump.dir)'
  BY <1>2
<1> QED BY <1>4, <1>5, <1>6, <1>7, <1>8 DEF LoopInv

LEMMA LoopInductive ==
  AbShape /\ ScShape /\ Numbers /\ LoopInv /\ [Next]_vars
    => (AbShape /\ ScShape /\ Numbers /\ LoopInv)'
<1> SUFFICES ASSUME AbShape, ScShape, Numbers, LoopInv, [Next]_vars
             PROVE  AbShape' /\ ScShape' /\ Numbers' /\ LoopInv'
  OBVIOUS
<1>1. CASE Next
  <2>1. PICK in \in Inputs : Clock(in)
    BY <1>1 DEF Next
  <2> QED BY <2>1, ScShapeStep, LoopStep, LoopInvStep DEF Clock
<1>2. CASE UNCHANGED vars
  BY <1>2 DEF vars, nav, AbShape, ScShape, Numbers, LoopInv, ToMark
<1> QED BY <1>1, <1>2

(* The seek that leaves scrub_ctrl in the loop's name is to the mark, clamped *)
(* to the title, however gestures, jumps and clears fall in between.          *)
THEOREM LoopToMark == Spec => []LoopSeekIsA
<1>1. AbShape /\ ScShape /\ Numbers /\ LoopInv => LoopSeekIsA
  BY DEF LoopInv, LoopSeekIsA
<1> QED BY <1>1, LoopInit, LoopInductive, PTL DEF Spec

(***************************************************************************)
(* A jump is measured from one place.  A seek leaves, in this order, no       *)
(* packet under way and sector 0, then a latch that is down; so while the     *)
(* latch is up and no flush runs, the byte that comes next says which VOBU    *)
(* the sector is of and which the tables are of.  A resolve begins on a       *)
(* latch that is up, and whatever moves playhead or tables restarts it.       *)
(***************************************************************************)
FlushInv ==
  /\ fl \in 0 .. FlushLen /\ commit \in BOOLEAN /\ fresh \in BOOLEAN
  /\ at[2] \in 1 .. 4
  /\ commit => at[2] = 4
  /\ fl > 0 => at[1] = 0 /\ at[2] = 1 /\ lbn = 0 /\ ~commit
  /\ fresh /\ fl > 0 => fl = FlushLen
  /\ rd.land # 0 => rd.ack # "none" \/ fl > 0 \/ (~fresh /\ ~commit /\ at[1] \notin VOBUs)

PacketInv ==
  fl = 0 =>
    /\ at[2] > 1 => at[1] \in VOBUs /\ lbn = Sec[at[1]]
    /\ at[2] > 2 => tbl = at[1]
    /\ fresh /\ at[2] = 2 => tbl = at[1] - 1
    /\ fresh /\ at[2] = 1 => tbl \in VOBUs /\ at[1] = tbl + 1 /\ lbn = Sec[tbl]

ResolveInv ==
  /\ Resolving /\ fl = 0 =>
       /\ fresh /\ dp.base = lbn /\ dp.src \in {0, tbl}
       /\ dp.st = "VOBU" => dp.src = tbl
  /\ NoStaleJump

StaleInv == DpShape /\ FlushInv /\ PacketInv /\ ResolveInv

LEMMA StaleInit == Init => StaleInv
<1> SUFFICES ASSUME Init PROVE StaleInv
  OBVIOUS
<1>1. at[1] = 1 /\ at[2] = 1
  BY DEF Init
<1>2. FlushInv
  <2>1. fl = 0 /\ commit = FALSE /\ fresh = FALSE /\ rd.land = 0 /\ FlushLen \in Nat
    BY TimeAssumption DEF Init, RdIdle
  <2>2. fl \in 0 .. FlushLen /\ ~(fl > 0)
    BY <2>1
  <2>3. commit \in BOOLEAN /\ fresh \in BOOLEAN /\ ~commit /\ ~fresh
    BY <2>1
  <2> QED BY <1>1, <2>1, <2>2, <2>3 DEF FlushInv
<1>3. PacketInv
  BY <1>1 DEF Init, PacketInv
<1>4. DpShape /\ ResolveInv
  BY DEF Init, DpShape, DpIdle, ResolveInv, Resolving, NoStaleJump
<1> QED BY <1>2, <1>3, <1>4 DEF StaleInv

(* What is parsed next, when no flush runs.                                   *)
LEMMA ByteStep ==
  ASSUME NEW in \in Inputs, Walk(in), ~(fl' > 0)
  PROVE  /\ Byte(in) /\ at[2] < 4 => at' = << at[1], at[2] + 1 >>
         /\ Byte(in) /\ at[2] = 4 => at' = << at[1] + 1, 1 >>
<1>1. at' = CASE Byte(in) /\ at[2] < 4   -> << at[1], at[2] + 1 >>
              [] Byte(in) /\ at[2] = 4   -> << at[1] + 1, 1 >>
              [] in.reader = "load"      -> << rd.land, 1 >>
              [] OTHER                   -> at
  BY DEF Walk
<1>2. Byte(in) => in.reader # "load"
  BY DEF Byte
<1>3. ASSUME Byte(in), at[2] < 4 PROVE at' = << at[1], at[2] + 1 >>
  <2>1. at[2] # 4
    BY <1>3
  <2> QED BY <1>1, <1>2, <1>3, <2>1
<1>4. ASSUME Byte(in), at[2] = 4 PROVE at' = << at[1] + 1, 1 >>
  <2>1. ~(at[2] < 4)
    BY <1>4
  <2> QED BY <1>1, <1>2, <1>4, <2>1
<1> QED BY <1>3, <1>4

(* A flush begins with an acknowledge, and a load follows one that is over.   *)
LEMMA FlushStep ==
  ASSUME FlushInv, NEW in \in Inputs, NavDsi(in), Reader(in)
  PROVE  FlushInv'
<1> USE DEF NavDsi
<1>1. fl' \in 0 .. FlushLen /\ commit' \in BOOLEAN /\ fresh' \in BOOLEAN
  <2>1. fl' \in 0 .. FlushLen
    BY TimeAssumption DEF FlushInv, Flush
  <2>2. commit' \in BOOLEAN
    BY DEF Walk
  <2> QED BY <2>1, <2>2 DEF Fresh
<1>2. CASE fl' > 0
  <2>1. at' = << 0, 1 >> /\ lbn' = 0 /\ commit' = FALSE
    BY <1>2 DEF Walk
  <2>2. at'[1] = 0 /\ at'[2] = 1
    BY <2>1
  <2>3. fresh' => fl' = FlushLen
    <3>1. fresh' => fl = 0
      BY DEF Fresh
    <3> QED BY <1>2, <3>1 DEF Flush
  <2> QED BY <1>1, <1>2, <2>1, <2>2, <2>3 DEF FlushInv
<1>3. CASE ~(fl' > 0)
  <2>1. fl' = 0 /\ rd.ack = "none" /\ (fl = 0 \/ fl = 1)
    BY <1>1, <1>3, TimeAssumption DEF FlushInv, Flush
  <2>2. commit' = (Byte(in) /\ at[2] = 3)
    BY <1>3 DEF Walk
  <2>3. CASE Byte(in) /\ at[2] < 4
    <3>1. at' = << at[1], at[2] + 1 >>
      BY <1>3, <2>3, ByteStep
    <3>2. at'[1] = at[1] /\ at'[2] = at[2] + 1
      BY <3>1
    <3>3. rd'.land = 0
      <4>1. RdStream(in) /\ fl = 0 /\ at[1] \in VOBUs
        BY <2>3 DEF Byte, Reader, RdJump, RdSeek, RdLoad, Walk
      <4>2. rd'.land = rd.land
        BY <4>1 DEF RdStream, Latched
      <4>3. rd.land = 0
        BY <2>1, <4>1 DEF FlushInv
      <4> QED BY <4>2, <4>3
    <3>4. at'[2] \in 1 .. 4 /\ (commit' => at'[2] = 4)
      BY <2>2, <2>3, <3>2 DEF FlushInv
    <3> QED BY <1>1, <2>1, <3>1, <3>2, <3>3, <3>4 DEF FlushInv
  <2>4. CASE Byte(in) /\ at[2] = 4
    <3>1. at' = << at[1] + 1, 1 >>
      BY <1>3, <2>4, ByteStep
    <3>4. ~commit'
      <4>1. at[2] # 3
        BY <2>4
      <4> QED BY <2>2, <4>1
    <3>2. at'[1] = at[1] + 1 /\ at'[2] = 1
      BY <3>1
    <3>3. rd'.land = 0
      <4>1. RdStream(in) /\ fl = 0 /\ at[1] \in VOBUs
        BY <2>4 DEF Byte, Reader, RdJump, RdSeek, RdLoad, Walk
      <4>2. rd'.land = rd.land
        BY <4>1 DEF RdStream, Latched
      <4>3. rd.land = 0
        BY <2>1, <4>1 DEF FlushInv
      <4> QED BY <4>2, <4>3
    <3> QED BY <1>1, <2>1, <3>4, <3>2, <3>3 DEF FlushInv
  <2>5. CASE ~Byte(in) /\ in.reader = "load"
    <3>1. at' = << rd.land, 1 >> /\ ~commit'
      BY <1>3, <2>2, <2>5 DEF Walk, Byte
    <3>2. at'[1] = rd.land /\ at'[2] = 1
      BY <3>1
    <3>3. rd'.land = 0
      BY <2>5 DEF Reader, RdJump, RdSeek, RdLoad, RdStream, Latched
    <3> QED BY <1>1, <2>1, <3>1, <3>2, <3>3 DEF FlushInv
  <2>6. CASE ~Byte(in) /\ in.reader # "load"
    <3>1. at' = at /\ ~commit'
      BY <1>3, <2>2, <2>6 DEF Walk
    <3>2. rd'.land # 0 => rd'.ack # "none" \/ rd.land # 0
      <4>1. CASE RdJump(in) \/ RdSeek(in)
        <5>1. rd'.ack \in {"seek", "jump"}
          BY <4>1 DEF RdJump, RdSeek, RdIdle
        <5> QED BY <5>1
      <4>2. CASE RdStream(in)
        BY <4>2 DEF RdStream, Latched
      <4> QED BY <2>6, <4>1, <4>2 DEF Reader, RdLoad
    <3>3. fl = 1 => ~fresh' /\ at[1] \notin VOBUs
      BY TimeAssumption, TitleAssumption DEF Fresh, FlushInv, VOBUs, N
    <3>4. rd.land # 0 => ~fresh' /\ at[1] \notin VOBUs
      BY <2>1, <3>3 DEF FlushInv, Fresh
    <3> QED BY <1>1, <2>1, <3>1, <3>2, <3>3, <3>4 DEF FlushInv
  <2> QED BY <2>3, <2>4, <2>5, <2>6 DEF FlushInv
<1> QED BY <1>2, <1>3

LEMMA PacketStep ==
  ASSUME FlushInv, PacketInv, NEW in \in Inputs, NavDsi(in), Reader(in)
  PROVE  PacketInv'
<1> USE DEF NavDsi
<1> SUFFICES ASSUME fl' = 0
             PROVE  /\ at'[2] > 1 => at'[1] \in VOBUs /\ lbn' = Sec[at'[1]]
                    /\ at'[2] > 2 => tbl' = at'[1]
                    /\ fresh' /\ at'[2] = 2 => tbl' = at'[1] - 1
                    /\ fresh' /\ at'[2] = 1 =>
                         tbl' \in VOBUs /\ at'[1] = tbl' + 1 /\ lbn' = Sec[tbl']
  BY DEF PacketInv
<1>1. rd.ack = "none" /\ (fl = 0 \/ fl = 1)
  BY TimeAssumption DEF FlushInv, Flush
<1>2. /\ lbn' = IF Byte(in) /\ at[2] = 1 THEN Sec[at[1]] ELSE lbn
      /\ tbl' = IF Byte(in) /\ at[2] = 2 THEN at[1] ELSE tbl
  BY DEF Walk
<1>3. CASE Byte(in)
  <2>1. fl = 0 /\ at[1] \in VOBUs /\ at[1] \in Int /\ fresh' = (commit \/ fresh)
    BY <1>3 DEF Walk, VOBUs, Fresh
  <2>2. CASE at[2] < 4
    <3>1. at' = << at[1], at[2] + 1 >>
      BY <1>3, <2>2, ByteStep
    <3>2. at'[1] = at[1] /\ at'[2] = at[2] + 1
      BY <3>1
    <3>3. at[2] \in {1, 2, 3} /\ ~commit
      BY <2>2 DEF FlushInv
    <3>4. CASE at[2] = 1
      <4>1. lbn' = Sec[at'[1]] /\ at'[2] = 2 /\ tbl' = tbl /\ at'[1] \in VOBUs
        BY <1>2, <1>3, <2>1, <3>2, <3>4
      <4>2. fresh' => tbl \in Int /\ at[1] = tbl + 1
        <5>1. fresh' => fresh
          BY <2>1, <3>3, Zenon
        <5> QED BY <5>1, <2>1, <3>4 DEF PacketInv, VOBUs
      <4> QED BY <3>2, <4>1, <4>2
    <3>5. CASE at[2] = 2
      BY <1>2, <1>3, <2>1, <3>2, <3>5 DEF PacketInv
    <3>6. CASE at[2] = 3
      BY <1>2, <1>3, <2>1, <3>2, <3>6 DEF PacketInv
    <3> QED BY <3>3, <3>4, <3>5, <3>6
  <2>3. CASE at[2] = 4
    <3>1. at' = << at[1] + 1, 1 >>
      BY <1>3, <2>3, ByteStep
    <3>2. at'[1] = at[1] + 1 /\ at'[2] = 1
      BY <3>1
    <3> QED BY <1>2, <1>3, <2>1, <2>3, <3>2 DEF PacketInv
  <2> QED BY <2>2, <2>3 DEF FlushInv
<1>4. CASE ~Byte(in) /\ in.reader = "load"
  <2>1. at' = << rd.land, 1 >>
    BY <1>4 DEF Walk
  <2>2. rd.land # 0 /\ fl = 0
    BY <1>4 DEF Reader, RdJump, RdSeek, RdLoad, RdStream
  <2>3. ~fresh'
    BY <1>1, <2>2 DEF FlushInv, Fresh
  <2>4. at'[2] = 1
    BY <2>1
  <2> QED BY <2>3, <2>4
<1>5. CASE ~Byte(in) /\ in.reader # "load"
  <2>1. at' = at /\ lbn' = lbn /\ tbl' = tbl
    BY <1>2, <1>5 DEF Walk
  <2>2. CASE fl = 1
    <3>1. ~fresh' /\ at[2] = 1
      BY <2>2 DEF FlushInv, Fresh
    <3> QED BY <2>1, <3>1
  <2>3. CASE fl = 0
    <3>1. fresh' => fresh \/ at[2] = 4
      BY DEF Fresh, FlushInv
    <3> QED BY <2>1, <2>3, <3>1 DEF PacketInv
  <2> QED BY <1>1, <2>2, <2>3
<1> QED BY <1>3, <1>4, <1>5

LEMMA DpShapeStep ==
  ASSUME DpShape, NEW in \in Inputs, DpadSeek(in)
  PROVE  DpShape'
<1>1. CASE dp' = DpIdle
  BY <1>1 DEF DpIdle, DpShape
<1>2. CASE ~Cancelled(in) /\ Press(in)
  BY <1>2 DEF DpadSeek, DpIdle, DpShape
<1>3. CASE DpRestart
  BY <1>3 DEF DpRestart, DpShape
<1>4. CASE DpStep(in)
  <2>1. CASE DpWindow
    <3>1. CASE dp.win > 0
      BY <2>1, <3>1 DEF DpWindow, DpShape
    <3>2. CASE ~(dp.win > 0)
      BY <2>1, <3>2 DEF DpWindow, DpIdle, DpShape
    <3> QED BY <3>1, <3>2
  <2>6. CASE DpWait(in)
    BY <2>6 DEF DpWait, DpIdle, DpShape
  <2>2. CASE DpPick \/ DpRead
    BY <2>2 DEF DpPick, DpRead, DpShape
  <2>3. CASE DpTake \/ DpDescend
    BY <2>3 DEF DpTake, DpDescend, DpShape
  <2>4. CASE DpVobu
    BY <2>4 DEF DpVobu, DpIdle, DpShape
  <2>5. CASE DpFire
    BY <2>5 DEF DpFire, DpIdle, DpShape
  <2> QED BY <1>1, <1>4, <2>1, <2>2, <2>3, <2>4, <2>5, <2>6 DEF DpStep, DpRest
<1> QED BY <1>1, <1>2, <1>3, <1>4 DEF DpadSeek

(* A resolve that is not disturbed reads a playhead and tables that stand.    *)
LEMMA Undisturbed ==
  ASSUME FlushInv, NEW in \in Inputs, NavDsi(in), Reader(in), fresh, ~Byte(in), ~commit
  PROVE  /\ fl' = 0 => fl = 0 /\ fresh' /\ lbn' = lbn
         /\ tbl' = tbl
<1>1. tbl' = tbl
  BY DEF NavDsi, Walk
<1>2. fl' = 0 => fl = 0 \/ fl = 1
  BY TimeAssumption DEF NavDsi, Flush, FlushInv
<1>3. fl # 1
  BY TimeAssumption DEF FlushInv
<1>4. fl' = 0 => lbn' = lbn
  BY DEF NavDsi, Walk
<1>5. fl = 0 => fresh'
  BY DEF NavDsi, Fresh
<1> QED BY <1>1, <1>2, <1>3, <1>4, <1>5

(* Where the tables of a trusted playhead can be from.                        *)
LEMMA OnePlace ==
  ASSUME FlushInv, PacketInv, fl = 0, fresh
  PROVE  \E v \in VOBUs : lbn = Sec[v] /\ tbl \in {v, v - 1}
<1>1. CASE at[2] = 1
  BY <1>1 DEF PacketInv
<1>2. CASE at[2] = 2
  BY <1>2 DEF PacketInv
<1>3. CASE at[2] \in {3, 4}
  BY <1>3 DEF PacketInv
<1> QED BY <1>1, <1>2, <1>3 DEF FlushInv

LEMMA ResolveStep ==
  ASSUME DpShape, FlushInv, PacketInv, ResolveInv,
         NEW in \in Inputs, NavDsi(in), Reader(in), DpadSeek(in)
  PROVE  ResolveInv'
<1>1. CASE dp'.st \in {"IDLE", "WIN", "WAIT"}
  BY <1>1 DEF ResolveInv, Resolving, NoStaleJump
<1>2. CASE dp'.st \notin {"IDLE", "WIN", "WAIT"}
  <2>1. DpStep(in) /\ ~(Disturb(in) /\ Resolving)
    <3>1. dp' # DpIdle
      BY <1>2 DEF DpIdle
    <3>2. ~(~Cancelled(in) /\ Press(in))
      BY <1>2 DEF DpadSeek, DpIdle
    <3>3. ~DpRestart
      BY <1>2 DEF DpRestart, DpShape
    <3> QED BY <3>1, <3>2, <3>3 DEF DpadSeek
  <2>2. CASE DpWait(in)
    <3>1. /\ fresh /\ ~Byte(in) /\ ~commit
          /\ dp'.st = "RD" /\ dp'.base = lbn /\ dp'.src = 0
      BY <1>2, <2>2 DEF DpWait, DpIdle, DpShape
    <3>2. fl' = 0 => fresh' /\ dp'.base = lbn'
      BY <3>1, Undisturbed
    <3> QED BY <3>1, <3>2 DEF ResolveInv, Resolving, NoStaleJump
  <2>3. CASE Resolving
    <3>1. fl = 0 /\ ~Byte(in) /\ ~commit
      <4>1. ~(fl > 0) /\ ~Byte(in) /\ ~commit
        BY <2>1, <2>3 DEF Disturb
      <4> QED BY <4>1, TimeAssumption DEF FlushInv
    <3>2. /\ fresh /\ dp.base = lbn /\ dp.src \in {0, tbl}
          /\ dp.st = "VOBU" => dp.src = tbl
      BY <2>3, <3>1 DEF ResolveInv
    <3>3. ReadFrom = tbl
      BY <3>2 DEF ReadFrom
    <3>4. /\ dp'.base = dp.base
          /\ dp'.src \in {0, tbl}
          /\ dp'.st \in {"VOBU", "FIRE"} => dp'.src = tbl
      <4>1. CASE DpPick \/ DpRead
        BY <3>2, <4>1 DEF DpPick, DpRead, DpShape
      <4>2. CASE DpTake
        BY <3>3, <4>2 DEF DpTake, DpShape
      <4>3. CASE DpDescend
        BY <3>3, <4>3 DEF DpDescend, DpShape
      <4>4. CASE DpVobu
        BY <1>2, <3>2, <3>3, <4>4 DEF DpVobu, DpIdle, DpShape
      <4> QED BY <2>1, <2>3, <4>1, <4>2, <4>3, <4>4
              DEF DpStep, Resolving, DpWindow, DpWait, DpFire, DpRest
    <3>5. /\ fl' = 0 => fresh' /\ lbn' = lbn
          /\ tbl' = tbl
      BY <3>1, <3>2, Undisturbed
    <3>6. NoStaleJump'
      <4> SUFFICES ASSUME dp'.st = "FIRE"
                   PROVE  \E v \in VOBUs : dp'.base = Sec[v] /\ dp'.src \in {v, v - 1}
        BY DEF NoStaleJump
      <4>1. dp'.base = lbn /\ dp'.src = tbl
        BY <3>2, <3>4
      <4> QED BY <3>1, <3>2, <4>1, OnePlace
    <3> QED BY <3>2, <3>4, <3>5, <3>6 DEF ResolveInv
  <2>4. CASE DpWindow \/ DpFire \/ DpRest
    <3>1. dp'.st \in {"IDLE", "WAIT", "WIN"}
      <4>1. CASE DpWindow
        <5>1. CASE dp.win > 0
          BY <4>1, <5>1 DEF DpWindow, DpShape
        <5>2. CASE ~(dp.win > 0)
          BY <4>1, <5>2 DEF DpWindow, DpIdle, DpShape
        <5> QED BY <5>1, <5>2
      <4>2. CASE DpFire \/ DpRest
        BY <4>2 DEF DpFire, DpRest, DpIdle
      <4> QED BY <2>4, <4>1, <4>2
    <3> QED BY <1>2, <3>1
  <2> QED BY <2>1, <2>2, <2>3, <2>4
          DEF DpStep, DpPick, DpRead, DpTake, DpDescend, DpVobu, Resolving
<1> QED BY <1>1, <1>2

LEMMA StaleInductive == StaleInv /\ [Next]_vars => StaleInv'
<1> SUFFICES ASSUME StaleInv, [Next]_vars PROVE StaleInv'
  OBVIOUS
<1>1. CASE Next
  <2>1. PICK in \in Inputs : Clock(in)
    BY <1>1 DEF Next
  <2>2. NavDsi(in) /\ Reader(in) /\ DpadSeek(in)
    BY <2>1 DEF Clock
  <2> QED BY <2>2, DpShapeStep, FlushStep, PacketStep, ResolveStep DEF StaleInv
<1>2. CASE UNCHANGED vars
  BY <1>2 DEF vars, nav, StaleInv, DpShape, FlushInv, PacketInv, ResolveInv, Resolving, NoStaleJump
<1> QED BY <1>1, <1>2

(* Whatever flushes and packets fall into a resolve, the jump it fires was    *)
(* measured from the sector of a VOBU with the tables of that VOBU or of the  *)
(* one before it, never with those of a place a seek has left.               *)
THEOREM JumpNotStale == Spec => []NoStaleJump
<1>1. StaleInv => NoStaleJump
  BY DEF StaleInv, ResolveInv
<1> QED BY <1>1, StaleInit, StaleInductive, PTL DEF Spec

(***************************************************************************)
(* No storm.  A loop-back is fired behind B, and playback goes on behind B    *)
(* until a seek takes it away (OldPlace), whoever asked for the seek.  Until  *)
(* the packet behind that seek, the latch is down (LeavingIt for an edge,     *)
(* then Left), and nothing fires; that packet is also what ends the loop-back. *)
(* The loop-back is with the reader before a flush that began under way is    *)
(* over, so that the reader does not load without it.                        *)
(***************************************************************************)
Loops     == ab.st = 2
Fires     == ab.jump # NoJump
OldPlace  == ab.lock /\ fl = 0 /\ fresh /\ lbn >= ab.b
LeavingIt == ab.lock /\ fl = FlushLen
Left      == ~fresh /\ ~commit /\ (fl > 0 \/ at[1] \notin VOBUs)
LeftFor(n) == Left /\ fl >= FlushLen - n

Marks == lbn \in Nat /\ ab.a \in Nat /\ (Loops => ab.b \in Nat /\ ab.b > 0)

UnderWay ==
  /\ rd.walk # "loop"
  /\ Fires => Loops /\ (OldPlace \/ LeavingIt)
  /\ sc.go /\ sc.by = "loop" => Loops /\ (OldPlace \/ LeavingIt \/ LeftFor(1))
  /\ sc.pulse /\ sc.pby = "loop" => Loops /\ (OldPlace \/ LeavingIt \/ LeftFor(2))
  /\ rd.pend /\ rd.by = "loop" => Loops /\ (OldPlace \/ LeavingIt \/ Left)
  /\ rd.lby = "loop" =>
       /\ Loops
       /\ rd.ack # "none" => OldPlace \/ LeavingIt \/ Left
       /\ rd.ack = "none" => LeavingIt \/ ~fresh

StormInv ==
  /\ AbShape /\ ScShape /\ FlushInv /\ PacketInv /\ Marks /\ UnderWay
  /\ sc.wq => sc.by # "loop"
  /\ NoStorm

LEMMA StormInit == Init => StormInv
<1> SUFFICES ASSUME Init PROVE StormInv
  OBVIOUS
<1>1. AbShape /\ ScShape /\ FlushInv /\ PacketInv
  BY LoopInit, StaleInit DEF StaleInv
<1>2. Marks
  BY DEF Init, Marks, Loops, AbOff
<1>3. UnderWay /\ NoStorm /\ (sc.wq => sc.by # "loop")
  BY DEF Init, UnderWay, Fires, NoStorm, AbOff, ScRest, RdIdle
<1> QED BY <1>1, <1>2, <1>3 DEF StormInv

LEMMA MarksStep ==
  ASSUME AbShape, Marks, NEW in \in Inputs, Walk(in), AbRepeat(in)
  PROVE  /\ Marks'
         /\ Loops /\ Loops' => ab'.b = ab.b
<1>1. lbn' \in Nat
  <2>1. Byte(in) => Sec[at[1]] \in Nat
    BY TitleAssumption DEF Walk, VOBUs, N
  <2> QED BY <2>1 DEF Walk, Marks
<1>2. /\ ab'.a \in Nat /\ (ab'.st = 2 => ab'.b \in Nat /\ ab'.b > 0)
      /\ ab.st = 2 /\ ab'.st = 2 => ab'.b = ab.b
  <2>1. CASE ab' = AbOff
    BY <2>1 DEF AbOff
  <2>2. CASE AbMark
    <3>1. CASE ab.st = 1 /\ lbn > ab.a
      <4>1. ab' = [st |-> 2, a |-> ab.a, b |-> lbn, lock |-> FALSE, jump |-> NoJump]
        BY <2>2, <3>1 DEF AbMark, AbShape
      <4> QED BY <3>1, <4>1 DEF Marks
    <3>2. CASE ~(ab.st = 1 /\ lbn > ab.a)
      <4>1. ab' = [ab EXCEPT !.a = lbn, !.st = 1, !.jump = NoJump]
        BY <2>2, <3>2 DEF AbMark
      <4>2. ab' = [st |-> 1, a |-> lbn, b |-> ab.b, lock |-> ab.lock, jump |-> NoJump]
        BY <4>1 DEF AbShape
      <4> QED BY <4>2 DEF Marks
    <3> QED BY <3>1, <3>2
  <2>3. CASE AbDead
    <3>1. ab'.a = ab.a /\ ab'.st = ab.st /\ ab'.b = ab.b
      BY <2>3 DEF AbDead, AbShape
    <3> QED BY <3>1 DEF Marks, Loops
  <2>4. CASE AbWatch
    <3>1. ab'.a = ab.a /\ ab'.st = ab.st /\ ab'.b = ab.b
      BY <2>4 DEF AbWatch, AbShape
    <3> QED BY <3>1 DEF Marks, Loops
  <2> QED BY <2>1, <2>2, <2>3, <2>4 DEF AbRepeat, AbClear
<1> QED BY <1>1, <1>2 DEF Marks, Loops

(* Once a loop runs, and goes on running, only the compare touches it.        *)
LEMMA LoopRuns ==
  ASSUME AbShape, NEW in \in Inputs, AbRepeat(in), Loops, Loops'
  PROVE  /\ ab.lock => (Reached \/ ~fresh => ab'.lock) /\ ~Fires'
         /\ Fires' => Reached /\ ~ab.lock /\ ab'.lock
<1>1. AbWatch
  <2>1. ab' # AbOff
    BY DEF Loops, AbOff
  <2>2. ~AbMark /\ ~AbDead
    BY DEF AbMark, AbDead, Loops
  <2> QED BY <2>1, <2>2 DEF AbRepeat, AbClear
<1>2. CASE Reached /\ ~ab.lock
  BY <1>1, <1>2 DEF AbWatch, AbShape
<1>3. CASE ~(Reached /\ ~ab.lock)
  BY <1>1, <1>3 DEF AbWatch, AbShape, Fires
<1> QED BY <1>2, <1>3

(* What fires was watched.                                                    *)
LEMMA FiresFromLoop ==
  ASSUME AbShape, NEW in \in Inputs, AbRepeat(in), Fires'
  PROVE  Loops /\ Loops' /\ Reached /\ ~ab.lock /\ ab'.lock
<1>1. ab' # AbOff
  BY DEF Fires, AbOff
<1>2. ~AbMark
  <2>1. AbMark => ab'.jump = NoJump
    BY DEF AbMark, AbShape
  <2> QED BY <2>1 DEF Fires
<1>3. ~AbDead
  <2>1. AbDead => ab'.jump = NoJump
    BY DEF AbDead, AbShape
  <2> QED BY <2>1 DEF Fires
<1>4. AbWatch
  BY <1>1, <1>2, <1>3 DEF AbRepeat, AbClear
<1>5. Reached /\ ~ab.lock
  BY <1>4 DEF AbWatch, AbShape, Fires
<1> QED BY <1>4, <1>5 DEF AbWatch, AbShape, Reached, Loops

(* The place a loop-back fired from: playback stays behind B, or the flush of  *)
(* a seek takes it away.                                                      *)
LEMMA StaysBehind ==
  ASSUME FlushInv, PacketInv, Marks, NEW in \in Inputs, NavDsi(in),
         Reached, fl = 0, ab'.lock, ab'.b = ab.b
  PROVE  OldPlace' \/ LeavingIt'
<1> USE DEF NavDsi
<1>1. CASE rd.ack # "none"
  BY <1>1 DEF Flush, LeavingIt
<1>2. CASE rd.ack = "none"
  <2>1. fl' = 0 /\ fresh'
    <3>1. fl' = 0
      BY <1>2 DEF Flush
    <3>2. fresh'
      BY Zenon DEF Fresh, Reached
    <3> QED BY <3>1, <3>2
  <2>2. lbn \in Int /\ ab.b \in Int /\ lbn >= ab.b
    BY DEF Marks, Reached, Loops
  <2>3. CASE Byte(in) /\ at[2] = 1
    <3>1. at[1] \in VOBUs /\ tbl \in VOBUs /\ at[1] = tbl + 1 /\ lbn = Sec[tbl]
      BY <2>3 DEF Walk, PacketInv, Reached
    <3>2. lbn' = Sec[at[1]]
      BY <2>1, <2>3 DEF Walk
    <3>3. tbl < at[1]
      BY <3>1 DEF VOBUs
    <3>4. Sec[tbl] < Sec[at[1]] /\ Sec[at[1]] \in Int
      BY <3>1, <3>3, TitleAssumption DEF VOBUs, N
    <3> QED BY <2>1, <2>2, <3>1, <3>2, <3>4 DEF OldPlace
  <2>4. CASE ~(Byte(in) /\ at[2] = 1)
    <3>1. lbn' = lbn
      BY <2>1, <2>4 DEF Walk
    <3> QED BY <2>1, <2>2, <3>1 DEF OldPlace
  <2> QED BY <2>3, <2>4
<1> QED BY <1>1, <1>2

LEMMA StillBehind ==
  ASSUME AbShape, FlushInv, PacketInv, Marks, NEW in \in Inputs,
         NavDsi(in), AbRepeat(in), Loops, Loops', OldPlace
  PROVE  OldPlace' \/ LeavingIt'
<1>1. Reached
  BY DEF OldPlace, Reached, Loops
<1>2. ab'.lock
  BY <1>1, LoopRuns DEF OldPlace
<1>3. ab'.b = ab.b
  BY MarksStep DEF NavDsi
<1> QED BY <1>1, <1>2, <1>3, StaysBehind DEF OldPlace

LEMMA Leaves ==
  ASSUME FlushInv, NEW in \in Inputs, NavDsi(in), LeavingIt
  PROVE  LeftFor(1)'
<1>1. fl = FlushLen /\ FlushLen \in Nat /\ FlushLen > 3
  BY TimeAssumption DEF LeavingIt
<1>2. fl' \in Nat /\ fl' > 0 /\ fl' >= FlushLen - 1
  BY <1>1 DEF NavDsi, Flush
<1>3. ~fresh' /\ ~commit'
  <2>1. fl # 0
    BY <1>1
  <2>2. ~fresh'
    BY <2>1, Zenon DEF NavDsi, Fresh
  <2>3. commit' = FALSE
    BY <1>2, Zenon DEF NavDsi, Walk
  <2> QED BY <2>2, <2>3
<1> QED BY <1>2, <1>3 DEF LeftFor, Left

(* Nothing but a load of the reader ends it, and no load falls into a flush.  *)
LEMMA StaysLeft ==
  ASSUME FlushInv, NEW in \in Inputs, NavDsi(in), Reader(in), Left,
         fl > 0 \/ rd.pend \/ rd.ack # "none"
  PROVE  /\ Left'
         /\ LeftFor(1) => LeftFor(2)'
<1> USE DEF NavDsi
<1>1. ~fresh'
  BY DEF Fresh, Left
<1>2. ~Byte(in)
  <2>1. Byte(in) => fl = 0 /\ at[1] \in VOBUs
    BY DEF Walk
  <2>2. fl \in Nat
    BY TimeAssumption DEF FlushInv
  <2> QED BY <2>1, <2>2 DEF Left
<1>3. ~commit'
  BY <1>2 DEF Walk
<1>4. in.reader # "load"
  <2>1. fl \in Nat
    BY TimeAssumption DEF FlushInv
  <2> QED BY <2>1 DEF Reader, RdJump, RdSeek, RdLoad, RdStream
<1>5. fl' \in Nat /\ fl' >= fl - 1
  BY TimeAssumption DEF Flush, FlushInv
<1>6. fl' > 0 \/ at'[1] \notin VOBUs
  <2>1. CASE fl' > 0
    BY <2>1
  <2>2. CASE ~(fl' > 0)
    <3>1. at' = at
      BY <1>2, <1>4, <2>2 DEF Walk
    <3>2. fl > 0 => at[1] \notin VOBUs
      BY TitleAssumption DEF FlushInv, VOBUs, N
    <3> QED BY <3>1, <3>2 DEF Left
  <2> QED BY <2>1, <2>2
<1>7. Left'
  BY <1>1, <1>3, <1>6 DEF Left
<1>8. LeftFor(1) => fl' >= FlushLen - 2
  BY <1>5, TimeAssumption DEF LeftFor, FlushInv
<1> QED BY <1>7, <1>8 DEF LeftFor

LEMMA LeftForLong ==
  ASSUME FlushInv, NEW n \in 0 .. 3, LeftFor(n)
  PROVE  Left /\ fl > 0 /\ (n = 1 => LeftFor(2))
<1>1. fl \in Nat /\ FlushLen \in Nat /\ FlushLen > 3 /\ fl >= FlushLen - n
  BY TimeAssumption DEF FlushInv, LeftFor
<1> QED BY <1>1 DEF LeftFor

(* Where what is under way in the loop's name was a cycle before.             *)
LEMMA LoopOrigins ==
  ASSUME ScShape, sc.wq => sc.by # "loop", rd.walk # "loop",
         NEW in \in Inputs, ScrubCtrl(in), Reader(in)
  PROVE  /\ rd'.walk # "loop"
         /\ sc'.wq => sc'.by # "loop"
         /\ sc'.go /\ sc'.by = "loop" => Loops' /\ Fires
         /\ sc'.pulse /\ sc'.pby = "loop" => Loops' /\ sc.go /\ sc.by = "loop"
         /\ rd'.pend /\ rd'.by = "loop" =>
              /\ Loops'
              /\ (sc.pulse /\ sc.pby = "loop") \/ (rd.pend /\ rd.by = "loop")
         /\ rd'.lby = "loop" =>
              /\ Loops'
              /\ \/ rd.pend /\ rd.by = "loop" /\ rd'.ack # "none"
                 \/ rd.lby = "loop" /\ rd'.ack = "none" /\ ~(commit /\ rd.land = 0)
<1>1. ASSUME NEW t, Tag(in, t) = "loop" PROVE t = "loop" /\ Loops'
  BY <1>1 DEF Tag, Loops
<1>2. sc'.wq => sc'.by # "loop"
  <2>1. CASE ScRise(in)
    BY <1>1, <2>1 DEF ScRise, Quiet, ScRest
  <2>2. CASE ScHold(in)
    <3>1. sc'.by = Tag(in, sc.by)
      BY <2>2 DEF ScHold, ScShape
    <3> QED BY <1>1, <2>2, <3>1 DEF ScHold
  <2>3. CASE ScFall(in) \/ ScTake(in) \/ ScIssue(in) \/ ScRestful
    <3>1. ~sc'.wq
      BY <2>3 DEF ScFall, ScTake, Takes, ScIssue, ScRestful, Pulse, Quiet, ScRest
    <3> QED BY <3>1
  <2> QED BY <2>1, <2>2, <2>3 DEF ScrubCtrl
<1>3. sc'.go /\ sc'.by = "loop" => Loops' /\ Fires
  <2> SUFFICES ASSUME sc'.go, sc'.by = "loop" PROVE Loops' /\ Fires
    OBVIOUS
  <2>1. CASE ScTake(in)
    <3>1. sc'.by = Tag(in, JumpBy)
      BY <2>1 DEF ScTake, Quiet, ScRest
    <3>2. JumpBy = "loop" /\ Loops'
      BY <1>1, <3>1
    <3> QED BY <3>2 DEF JumpBy, Fires
  <2>2. CASE ScHold(in)
    <3>1. sc'.by = Tag(in, sc.by)
      BY <2>2 DEF ScHold, ScShape
    <3> QED BY <1>1, <2>2, <3>1 DEF ScHold
  <2>3. CASE ScRise(in) \/ ScFall(in) \/ ScIssue(in) \/ ScRestful
    BY <2>3 DEF ScRise, ScFall, ScIssue, ScRestful, Pulse, Quiet, ScRest
  <2> QED BY <2>1, <2>2, <2>3 DEF ScrubCtrl
<1>4. sc'.pulse /\ sc'.pby = "loop" => Loops' /\ sc.go /\ sc.by = "loop"
  <2> SUFFICES ASSUME sc'.pulse, sc'.pby = "loop"
               PROVE  Loops' /\ sc.go /\ sc.by = "loop"
    OBVIOUS
  <2>1. /\ ScFall(in) \/ ScIssue(in)
        /\ sc'.pby = Tag(in, sc.by)
    <3>1. ~(ScRise(in) \/ ScHold(in) \/ ScTake(in) \/ ScRestful)
      BY DEF ScRise, ScHold, ScTake, ScRestful, Quiet, ScRest, ScShape
    <3> QED BY <3>1 DEF ScrubCtrl, ScFall, ScIssue, Pulse, Quiet, ScRest
  <2>2. sc.by = "loop" /\ Loops'
    BY <1>1, <2>1
  <2> QED BY <2>1, <2>2 DEF ScFall, ScIssue
<1>5. rd'.pend /\ rd'.by = "loop" =>
        /\ Loops'
        /\ (sc.pulse /\ sc.pby = "loop") \/ (rd.pend /\ rd.by = "loop")
  <2>1. RdJump(in) \/ RdSeek(in) => ~rd'.pend
    BY DEF RdJump, RdSeek, RdIdle
  <2>2. RdLoad(in) \/ RdStream(in) => rd'.pend = Asked(in).pend /\ rd'.by = Asked(in).by
    BY DEF RdLoad, RdStream, Latched
  <2> SUFFICES ASSUME rd'.pend, rd'.by = "loop"
               PROVE  /\ Loops'
                      /\ (sc.pulse /\ sc.pby = "loop") \/ (rd.pend /\ rd.by = "loop")
    OBVIOUS
  <2>3. rd'.pend = Asked(in).pend /\ rd'.by = Asked(in).by
    BY <2>1, <2>2 DEF Reader
  <2>4. ~Arms(in)
    <3>1. Arms(in) => rd'.by = Tag(in, rd.walk)
      BY <2>3 DEF Asked, ChapterSeek
    <3> QED BY <1>1, <3>1
  <2>5. CASE sc.pulse /\ cell
    <3>1. Tag(in, sc.pby) = "loop"
      BY <2>3, <2>4, <2>5 DEF Asked, RbnSeek
    <3> QED BY <1>1, <2>5, <3>1
  <2>6. CASE ~(sc.pulse /\ cell)
    <3>1. rd.pend /\ Tag(in, rd.by) = "loop"
      BY <2>3, <2>4, <2>6 DEF Asked, StillAsked
    <3> QED BY <1>1, <3>1
  <2> QED BY <2>5, <2>6
<1>6. rd'.lby = "loop" =>
        /\ Loops'
        /\ \/ rd.pend /\ rd.by = "loop" /\ rd'.ack # "none"
           \/ rd.lby = "loop" /\ rd'.ack = "none" /\ ~(commit /\ rd.land = 0)
  <2> SUFFICES ASSUME rd'.lby = "loop"
               PROVE  /\ Loops'
                      /\ \/ rd.pend /\ rd.by = "loop" /\ rd'.ack # "none"
                         \/ rd.lby = "loop" /\ rd'.ack = "none" /\ ~(commit /\ rd.land = 0)
    OBVIOUS
  <2>1. CASE RdJump(in)
    BY <2>1 DEF RdJump, RdIdle
  <2>2. CASE RdSeek(in)
    <3>1. rd.pend /\ Tag(in, rd.by) = "loop" /\ rd'.ack = "seek"
      BY <2>2 DEF RdSeek, RdIdle
    <3> QED BY <1>1, <3>1
  <2>3. CASE RdLoad(in) \/ RdStream(in)
    <3>1. rd'.ack = "none" /\ rd'.lby = Landed(in)
      BY <2>3 DEF RdLoad, RdStream, Latched
    <3>2. Tag(in, rd.lby) = "loop" /\ ~(commit /\ rd.land = 0)
      BY <3>1 DEF Landed
    <3> QED BY <1>1, <3>1, <3>2
  <2> QED BY <2>1, <2>2, <2>3 DEF Reader
<1>7. rd'.walk # "loop"
  <2>1. rd'.walk = Walking(in)
    <3>1. RdJump(in) \/ RdSeek(in) => rd'.walk = Walking(in)
      BY DEF RdJump, RdSeek, RdIdle
    <3>2. RdLoad(in) \/ RdStream(in) => rd'.walk = Walking(in)
      BY DEF RdLoad, RdStream, Latched
    <3> QED BY <3>1, <3>2 DEF Reader
  <2>2. Walking(in) # "loop"
    BY <1>1 DEF Walking
  <2> QED BY <2>1, <2>2
<1> QED BY <1>2, <1>3, <1>4, <1>5, <1>6, <1>7

LEMMA StormStep ==
  ASSUME StormInv, NEW in \in Inputs, Clock(in)
  PROVE  UnderWay' /\ NoStorm' /\ (sc'.wq => sc'.by # "loop")
<1> USE DEF Clock
<1> DEFINE Placed == OldPlace \/ LeavingIt
<1>1. AbShape /\ ScShape /\ FlushInv /\ PacketInv /\ Marks /\ UnderWay /\ (sc.wq => sc.by # "loop")
  BY DEF StormInv
<1>2. ASSUME Loops, Loops', Placed PROVE Placed' \/ LeftFor(1)'
  BY <1>1, <1>2, StillBehind, Leaves
<1>3. ASSUME NEW n \in {1, 2}, LeftFor(n)
      PROVE  Left' /\ (n = 1 => LeftFor(2)')
  <2>1. Left /\ fl > 0
    BY <1>1, <1>3, LeftForLong
  <2>2. Left' /\ (LeftFor(1) => LeftFor(2)')
    BY <1>1, <2>1, StaysLeft
  <2> QED BY <1>3, <2>2
<1>4. LeftFor(1)' => Left' /\ LeftFor(2)'
  <2>1. FlushInv'
    BY <1>1, FlushStep
  <2>2. LeftFor(1)' => Left' /\ fl' \in Nat /\ fl' >= FlushLen - 1
    BY <2>1, TimeAssumption DEF LeftFor, FlushInv
  <2> QED BY <2>2, TimeAssumption DEF LeftFor
<1>5. Fires' => Loops' /\ Placed' /\ fresh /\ ~ab.lock
  <2> SUFFICES ASSUME Fires' PROVE Loops' /\ Placed' /\ fresh /\ ~ab.lock
    OBVIOUS
  <2>1. Loops /\ Loops' /\ Reached /\ ~ab.lock /\ ab'.lock
    BY <1>1, FiresFromLoop
  <2>2. fl = 0
    <3>1. lbn \in Nat /\ ab.b \in Nat /\ ab.b > 0 /\ lbn >= ab.b
      BY <1>1, <2>1 DEF Marks, Reached
    <3>2. fl \in Nat /\ (fl > 0 => lbn = 0)
      BY <1>1, TimeAssumption DEF FlushInv
    <3> QED BY <3>1, <3>2
  <2>3. ab'.b = ab.b
    BY <1>1, <2>1, MarksStep DEF NavDsi
  <2>4. Placed'
    BY <1>1, <2>1, <2>2, <2>3, StaysBehind
  <2> QED BY <2>1, <2>4 DEF Reached
<1>6. /\ rd'.walk # "loop"
      /\ sc'.wq => sc'.by # "loop"
      /\ sc'.go /\ sc'.by = "loop" => Loops' /\ Fires
      /\ sc'.pulse /\ sc'.pby = "loop" => Loops' /\ sc.go /\ sc.by = "loop"
      /\ rd'.pend /\ rd'.by = "loop" =>
           /\ Loops'
           /\ (sc.pulse /\ sc.pby = "loop") \/ (rd.pend /\ rd.by = "loop")
      /\ rd'.lby = "loop" =>
           /\ Loops'
           /\ \/ rd.pend /\ rd.by = "loop" /\ rd'.ack # "none"
              \/ rd.lby = "loop" /\ rd'.ack = "none" /\ ~(commit /\ rd.land = 0)
  <2>1. rd.walk # "loop"
    BY <1>1 DEF UnderWay
  <2> QED BY <1>1, <2>1, LoopOrigins
<1>7. /\ Fires => Loops /\ Placed
      /\ sc.go /\ sc.by = "loop" => Loops /\ (Placed \/ LeftFor(1))
      /\ sc.pulse /\ sc.pby = "loop" => Loops /\ (Placed \/ LeftFor(2))
      /\ rd.pend /\ rd.by = "loop" => Loops /\ (Placed \/ Left)
      /\ rd.lby = "loop" => Loops
      /\ rd.lby = "loop" /\ rd.ack # "none" => Placed \/ Left
      /\ rd.lby = "loop" /\ rd.ack = "none" => LeavingIt \/ ~fresh
  BY <1>1, Zenon DEF UnderWay
<1>8. sc'.go /\ sc'.by = "loop" => Loops' /\ (Placed' \/ LeftFor(1)')
  BY <1>2, <1>6, <1>7
<1>9. sc'.pulse /\ sc'.pby = "loop" => Loops' /\ (Placed' \/ LeftFor(2)')
  BY <1>2, <1>3, <1>4, <1>6, <1>7
<1>10. rd'.pend /\ rd'.by = "loop" => Loops' /\ (Placed' \/ Left')
  <2>1. CASE sc.pulse /\ sc.pby = "loop"
    BY <1>2, <1>3, <1>4, <1>6, <1>7, <2>1
  <2>2. CASE rd.pend /\ rd.by = "loop"
    <3>1. Left => Left'
      BY <1>1, <2>2, StaysLeft
    <3> QED BY <1>2, <1>4, <1>6, <1>7, <2>2, <3>1
  <2> QED BY <1>6, <2>1, <2>2
<1>11. rd'.lby = "loop" =>
         /\ Loops'
         /\ rd'.ack # "none" => Placed' \/ Left'
         /\ rd'.ack = "none" => LeavingIt' \/ ~fresh'
  <2>1. CASE rd.pend /\ rd.by = "loop" /\ rd'.ack # "none"
    <3>1. Left => Left'
      BY <1>1, <2>1, StaysLeft
    <3> QED BY <1>2, <1>4, <1>6, <1>7, <2>1, <3>1
  <2>2. CASE rd.lby = "loop" /\ rd'.ack = "none" /\ ~(commit /\ rd.land = 0) /\ Loops'
    <3>1. fl' = FlushLen \/ rd.ack = "none"
      BY DEF NavDsi, Flush
    <3>2. LeavingIt \/ Left => ~fresh'
      <4>1. LeavingIt => fl # 0
        BY TimeAssumption DEF LeavingIt
      <4> QED BY <4>1, Zenon DEF Left, NavDsi, Fresh
    <3>3. CASE rd.ack # "none"
      <4>1. OldPlace => LeavingIt'
        <5>1. OldPlace => OldPlace' \/ LeavingIt'
          BY <1>1, <1>7, <2>2, StillBehind
        <5>2. ~OldPlace'
          BY <3>1, <3>3, TimeAssumption DEF OldPlace
        <5> QED BY <5>1, <5>2
      <4> QED BY <1>7, <2>2, <3>2, <3>3, <4>1
    <3>4. CASE rd.ack = "none"
      <4>1. ~fresh => ~fresh'
        <5>1. rd.land # 0 => ~(fl = 0 /\ commit)
          BY <1>1, <3>4 DEF FlushInv
        <5> QED BY <2>2, <5>1 DEF NavDsi, Fresh
      <4> QED BY <1>7, <2>2, <3>2, <3>4, <4>1
    <3> QED BY <3>3, <3>4
  <2> QED BY <1>6, <2>1, <2>2
<1>12. UnderWay'
  BY <1>5, <1>6, <1>8, <1>9, <1>10, <1>11 DEF UnderWay
<1>13. NoStorm'
  <2> SUFFICES ASSUME Fires', Outstanding' PROVE FALSE
    BY DEF NoStorm, Fires
  <2>1. fresh /\ ~ab.lock
    BY <1>5
  <2>2. ~Placed /\ ~LeavingIt /\ ~Left /\ ~LeftFor(1) /\ ~LeftFor(2)
    BY <2>1 DEF OldPlace, LeavingIt, Left, LeftFor
  <2>3. /\ ~Fires
        /\ ~(sc.go /\ sc.by = "loop") /\ ~(sc.pulse /\ sc.pby = "loop")
        /\ ~(rd.pend /\ rd.by = "loop") /\ rd.lby # "loop"
    BY <1>7, <2>1, <2>2
  <2> QED BY <1>6, <2>3 DEF Outstanding
<1> QED BY <1>6, <1>12, <1>13

LEMMA StormInductive == StormInv /\ [Next]_vars => StormInv'
<1> SUFFICES ASSUME StormInv, [Next]_vars PROVE StormInv'
  OBVIOUS
<1>1. CASE Next
  <2>1. PICK in \in Inputs : Clock(in)
    BY <1>1 DEF Next
  <2>2. NavDsi(in) /\ AbRepeat(in) /\ ScrubCtrl(in) /\ Reader(in)
    BY <2>1 DEF Clock
  <2>3. ScShape' /\ FlushInv' /\ PacketInv'
    BY <2>2, ScShapeStep, FlushStep, PacketStep DEF StormInv
  <2>4. AbShape'
    BY <2>2, LoopStep DEF StormInv, Marks, Numbers
  <2>5. Marks'
    BY <2>2, MarksStep DEF StormInv, NavDsi
  <2>6. UnderWay' /\ NoStorm' /\ (sc'.wq => sc'.by # "loop")
    BY <2>1, StormStep
  <2> QED BY <2>3, <2>4, <2>5, <2>6 DEF StormInv
<1>2. CASE UNCHANGED vars
  BY <1>2 DEF vars, nav, StormInv, AbShape, ScShape, FlushInv, PacketInv, Marks, UnderWay,
              Loops, Fires, OldPlace, LeavingIt, Left, LeftFor, NoStorm, Outstanding
<1> QED BY <1>1, <1>2

(* No second loop-back is fired while one is under way, for any title and any *)
(* mark, whatever gestures, seeks, jumps and flushes fall in between: the     *)
(* lockout holds while playback is still behind B, and the latch is down from *)
(* the flush of the seek to the packet behind it.                            *)
THEOREM NoLoopStorm == Spec => []NoStorm
<1>1. StormInv => NoStorm
  BY DEF StormInv
<1> QED BY <1>1, StormInit, StormInductive, PTL DEF Spec
=============================================================================

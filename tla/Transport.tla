------------------------------ MODULE Transport ------------------------------
(***************************************************************************)
(* The transport gestures of a DVD title, one step for each edge of         *)
(* clk_sys: A-B repeat (ab_repeat.sv), the D-pad's fixed-time seek          *)
(* (dpad_seek.sv) and held Fast Fwd or Rewind (scrub_ctrl.sv) share one     *)
(* jump port and one seek port, and all three measure from the playhead     *)
(* and the tables of nav_dsi.sv, which every seek clears only in part.      *)
(*                                                                         *)
(* VOBU v of the title begins at sector Sec[v].  A DSI packet is four       *)
(* bytes, those that change something: its sector, its tables, the commit,  *)
(* and the rest; any number of idle cycles may come between two bytes.      *)
(*                                                                         *)
(* The title is one run of cells in the order of the disc, so that its       *)
(* first sector is its program's start.  Menus, linear sources (a Video CD,  *)
(* an audio CD, a plain file), Stop and the time map are left out; without a *)
(* time map a release seeks to the sector, as here.                          *)
(***************************************************************************)
EXTENDS Integers, Sequences

CONSTANTS
  Sec,        (* the sector at which each VOBU of the title begins            *)
  Last,       (* the last sector of the title                                 *)
  Coalesce,   (* dpad_seek: the window in which presses add up, 400 ms        *)
  FreshTo,    (* dpad_seek: how long it waits for a trustworthy DSI, 2 s      *)
  MaxNet,     (* dpad_seek: the largest request, in units                     *)
  Tick,       (* scrub_ctrl: cycles between two steps of a held scrub         *)
  FlushLen,   (* cycles of load_flush: 64                                     *)
  MaxEvents   (* bound: events of the user, and jumps                         *)

N == Len(Sec)
VOBUs == 1 .. N
Dirs == {"fwd", "bwd"}

ASSUME TitleAssumption ==
  /\ Sec \in Seq(Nat \ {0}) /\ N > 0
  /\ \A u, w \in VOBUs : u < w => Sec[u] < Sec[w]
  /\ Last \in Nat /\ Last >= Sec[N]
ASSUME TimeAssumption ==
  /\ {Coalesce, FreshTo, Tick} \subseteq Nat
  /\ FlushLen \in Nat /\ FlushLen > 3 /\ MaxNet \in Nat \ {0}

VARIABLES
  cell,       (* cell_ready: a cell of the title plays                        *)
  rd,         (* dvd_iso_reader: the chapter walk, the seek it has latched,   *)
              (* its acknowledge, where it will stream from (0: it streams)    *)
  fl,         (* flush_ctl: cycles left of load_flush                         *)
  at,         (* the byte of the DSI packet that comes next, and its VOBU     *)
  lbn, tbl,   (* nav_dsi: the playhead, and the VOBU the tables belong to     *)
  commit,     (* nav_dsi: dsi_commit                                          *)
  fresh,      (* dsi_fresh, the same latch in ab_repeat and dpad_seek         *)
  ab, dp, sc, (* the registers of ab_repeat, dpad_seek and scrub_ctrl         *)
  held,       (* the Fast Fwd or Rewind button that is down                   *)
  budget      (* events still allowed                                         *)

nav  == << fl, at, lbn, tbl, commit, fresh >>
vars == << cell, rd, nav, ab, dp, sc, held, budget >>

NoJump == [base |-> 0, off |-> 0, dir |-> "none"]
AbOff  == [st |-> 0, a |-> 0, b |-> 0, lock |-> FALSE, jump |-> NoJump]
DpIdle == [st |-> "IDLE", net |-> 0, win |-> 0, tmr |-> 0, left |-> 0, rung |-> 0,
           off |-> 0, base |-> 0, src |-> 0, jump |-> NoJump]
ScRest == [wq |-> FALSE, base |-> 0, off |-> 0, dir |-> "none", tick |-> 0, go |-> FALSE,
           by |-> "none", pulse |-> FALSE, rbn |-> 0, pby |-> "none"]
RdIdle == [walk |-> "none", pend |-> FALSE, isRbn |-> FALSE, rbn |-> 0, by |-> "none",
           ack |-> "none", land |-> 0, lby |-> "none"]

Init ==
  /\ cell = TRUE /\ rd = RdIdle /\ fl = 0 /\ at = << 1, 1 >>
  /\ lbn = 0 /\ tbl = 0 /\ commit = FALSE /\ fresh = FALSE
  /\ ab = AbOff /\ dp = DpIdle /\ sc = ScRest /\ held = "none" /\ budget = MaxEvents

(* One event of the user and one of the reader in a cycle; beside them a      *)
(* chapter walk goes on, or ends in a seek or without one.                   *)
Inputs == [user : {"none", "ab", "fwd", "bwd", "ff", "rew", "release", "chapter"},
           reader : {"idle", "byte", "seek", "jump", "load"},
           walk : {"on", "seek", "end"}]

(***************************************************************************)
(* nav_dsi.sv and the freshness latch.  load_flush clears the sector and    *)
(* the walker at once (an asynchronous reset), the latch an edge later, and *)
(* the tables never.                                                        *)
(***************************************************************************)
Byte(in) == in.reader = "byte"

Flush == fl' = IF rd.ack # "none" THEN FlushLen ELSE IF fl > 0 THEN fl - 1 ELSE 0

Fresh_Kept == fresh' = (commit \/ fresh)
Fresh == fresh' = (fl = 0 /\ (commit \/ fresh))

Walk(in) ==
  /\ Byte(in) => fl = 0 /\ at[1] \in VOBUs
  /\ tbl' = IF Byte(in) /\ at[2] = 2 THEN at[1] ELSE tbl
  /\ IF fl' > 0
     THEN lbn' = 0 /\ commit' = FALSE /\ at' = << 0, 1 >>
     ELSE /\ lbn' = IF Byte(in) /\ at[2] = 1 THEN Sec[at[1]] ELSE lbn
          /\ commit' = (Byte(in) /\ at[2] = 3)
          /\ at' = CASE Byte(in) /\ at[2] < 4   -> << at[1], at[2] + 1 >>
                     [] Byte(in) /\ at[2] = 4   -> << at[1] + 1, 1 >>
                     [] in.reader = "load"      -> << rd.land, 1 >>
                     [] OTHER                   -> at

NavDsi(in) == Flush /\ Fresh /\ Walk(in)

(***************************************************************************)
(* ab_repeat.sv.                                                            *)
(***************************************************************************)
LoopBack_Forward == [base |-> lbn, off |-> lbn - ab.a, dir |-> "fwd"]
LoopBack == [base |-> lbn, off |-> lbn - ab.a, dir |-> "bwd"]

AbMark ==
  /\ fresh /\ ab.st < 2
  /\ ab' = IF ab.st = 1 /\ lbn > ab.a
           THEN [ab EXCEPT !.b = lbn, !.st = 2, !.lock = FALSE, !.jump = NoJump]
           ELSE [ab EXCEPT !.a = lbn, !.st = 1, !.jump = NoJump]
AbClear == ab.st = 2 /\ ab' = AbOff
AbDead  == ~fresh /\ ab.st < 2 /\ ab' = [ab EXCEPT !.jump = NoJump]

Reached == ab.st = 2 /\ fresh /\ lbn >= ab.b

AbWatch_NoLock ==
  ab' = IF Reached /\ ~ab.lock THEN [ab EXCEPT !.jump = LoopBack]
                               ELSE [ab EXCEPT !.jump = NoJump]
AbWatch ==
  ab' = IF Reached /\ ~ab.lock
        THEN [ab EXCEPT !.jump = LoopBack, !.lock = TRUE]
        ELSE [ab EXCEPT !.jump = NoJump, !.lock = @ /\ (Reached \/ ~fresh)]

AbRepeat(in) ==
  \/ /\ ~cell \/ in.user = "chapter"
     /\ ab' = AbOff
  \/ /\ cell /\ in.user = "ab"
     /\ AbMark \/ AbClear \/ AbDead
  \/ /\ cell /\ in.user \notin {"ab", "chapter"}
     /\ AbWatch

(***************************************************************************)
(* dpad_seek.sv.  One unit (10 s) is two VOBUs forward or back, the fine    *)
(* rung one; Left and Right stand for all four directions.                  *)
(***************************************************************************)
Reach == << 2, 1 >>
Fine  == Len(Reach)

EntryOk(dir, r) == IF dir = "fwd" THEN tbl + Reach[r] <= N ELSE tbl > Reach[r]
Entry(dir, r) == IF dir = "fwd" THEN Sec[tbl + Reach[r]] - Sec[tbl]
                                ELSE Sec[tbl] - Sec[tbl - Reach[r]]
(* next_vobu, or the sector behind the last VOBU; prev_vobu.                 *)
Next1 == (IF tbl < N THEN Sec[tbl + 1] ELSE Last + 1) - Sec[tbl]
Prev1 == Sec[tbl] - Sec[tbl - 1]

Sign(n) == IF n > 0 THEN "fwd" ELSE "bwd"
Abs(n)  == IF n < 0 THEN -n ELSE n
Capped(n) == IF Abs(n) > MaxNet THEN dp.net ELSE n

want     == cell /\ held # "none"
Press(in) == in.user \in Dirs
Resolving == dp.st \in {"PICK", "RD", "EVAL", "VOBU"}
Disturb(in) == fl > 0 \/ Byte(in) \/ commit
Cancelled(in) == ~cell \/ rd.ack = "jump" \/ in.user = "chapter" \/ want

(* The tables a resolve has read: of one VOBU, or (N + 1) of several.        *)
ReadFrom == IF dp.src \in {0, tbl} THEN tbl ELSE N + 1

DpWindow ==
  /\ dp.st = "WIN"
  /\ dp' = IF dp.win > 0 THEN [dp EXCEPT !.win = @ - 1]
           ELSE IF dp.net = 0 THEN DpIdle
           ELSE [dp EXCEPT !.st = "WAIT", !.left = Abs(dp.net), !.tmr = FreshTo]

DpWait(in) ==
  /\ dp.st = "WAIT"
  /\ dp' = IF dp.tmr = 0 THEN DpIdle
           ELSE IF fresh /\ ~Byte(in) /\ ~commit
           THEN [dp EXCEPT !.st = "RD", !.tmr = @ - 1, !.base = lbn, !.rung = 1, !.src = 0]
           ELSE [dp EXCEPT !.tmr = @ - 1]

DpPick == dp.st = "PICK" /\ dp' = [dp EXCEPT !.st = "RD", !.rung = 1]
DpRead == dp.st = "RD" /\ dp' = [dp EXCEPT !.st = "EVAL"]

DpTake ==
  /\ dp.st = "EVAL" /\ EntryOk(Sign(dp.net), dp.rung)
  /\ dp' = [dp EXCEPT !.off = @ + Entry(Sign(dp.net), dp.rung), !.src = ReadFrom,
                      !.left = IF dp.rung = Fine THEN @ ELSE @ - 1,
                      !.st = IF dp.rung = Fine \/ dp.left = 1 THEN "FIRE" ELSE "PICK"]
DpDescend ==
  /\ dp.st = "EVAL" /\ ~EntryOk(Sign(dp.net), dp.rung)
  /\ dp' = IF dp.rung = Fine THEN [dp EXCEPT !.st = "VOBU", !.src = ReadFrom]
                             ELSE [dp EXCEPT !.st = "RD", !.rung = @ + 1, !.src = ReadFrom]

DpVobu ==
  /\ dp.st = "VOBU"
  /\ dp' = IF dp.off # 0 THEN [dp EXCEPT !.st = "FIRE"]
           ELSE IF dp.net > 0 THEN [dp EXCEPT !.st = "FIRE", !.off = Next1, !.src = ReadFrom]
           ELSE IF tbl > 1 THEN [dp EXCEPT !.st = "FIRE", !.off = Prev1, !.src = ReadFrom]
           ELSE DpIdle

DpFire ==
  /\ dp.st = "FIRE"
  /\ dp' = [DpIdle EXCEPT !.jump = [base |-> dp.base, off |-> dp.off, dir |-> Sign(dp.net)]]

DpRest == dp.st = "IDLE" /\ dp' = DpIdle

DpStep(in) == DpWindow \/ DpWait(in) \/ DpPick \/ DpRead \/ DpTake \/ DpDescend \/ DpVobu
                       \/ DpFire \/ DpRest

(* A resolve that is disturbed starts again; the time it may take does not.  *)
DpRestart_Rearmed == dp' = [dp EXCEPT !.st = "WAIT", !.off = 0, !.base = 0, !.rung = 0,
                                      !.src = 0, !.tmr = FreshTo]
DpRestart == dp' = [dp EXCEPT !.st = "WAIT", !.off = 0, !.base = 0, !.rung = 0, !.src = 0]

DpadSeek(in) ==
  \/ Cancelled(in) /\ dp' = DpIdle
  \/ /\ ~Cancelled(in) /\ Press(in)
     /\ LET net == Capped(dp.net + (IF in.user = "fwd" THEN 1 ELSE -1))
        IN  dp' = [DpIdle EXCEPT !.st = "WIN", !.win = Coalesce, !.net = net]
  \/ /\ ~Cancelled(in) /\ ~Press(in) /\ Disturb(in) /\ Resolving
     /\ DpRestart
  \/ /\ ~Cancelled(in) /\ ~Press(in) /\ ~(Disturb(in) /\ Resolving)
     /\ DpStep(in)

(***************************************************************************)
(* scrub_ctrl.sv and the jump mux of emu.sv.  `by' says whose the numbers   *)
(* in the registers are: a history, as is `pby' of the pulse, and `by' and  *)
(* `lby' of the reader.                                                     *)
(***************************************************************************)
Jump   == IF ab.jump # NoJump THEN ab.jump ELSE dp.jump
JumpBy == IF ab.jump # NoJump THEN "loop" ELSE "gesture"

Clamp(s) == IF s < Sec[1] THEN Sec[1] ELSE IF s > Last THEN Last ELSE s
Target == Clamp(IF sc.dir = "fwd" THEN sc.base + sc.off ELSE sc.base - sc.off)
Span == Last - Sec[1]

Takes == Jump # NoJump /\ cell /\ ~want /\ ~sc.wq

(* A loop-back is the loop's own until the user clears the loop; a VM jump   *)
(* makes everything under way the previous title's.                          *)
Tag(in, t) == CASE in.reader = "jump" /\ t # "none" -> "old"
                [] in.reader # "jump" /\ t = "loop" /\ ab'.st # 2 -> "gesture"
                [] OTHER -> t

(* Registers that nothing reads again are put back to their reset value.     *)
Quiet == [ScRest EXCEPT !.wq = want]
Pulse(in, by) == [Quiet EXCEPT !.pulse = TRUE, !.rbn = Target, !.pby = Tag(in, by)]

ScRise(in) ==
  /\ want /\ ~sc.wq
  /\ sc' = [Quiet EXCEPT !.base = lbn, !.dir = held, !.tick = Tick, !.by = Tag(in, "gesture")]
ScHold(in) ==
  /\ want /\ sc.wq
  /\ sc' = [sc EXCEPT !.pulse = FALSE, !.rbn = 0, !.pby = "none",
                      !.dir = held, !.by = Tag(in, @),
                      !.off = IF held # sc.dir THEN 0
                              ELSE IF sc.tick = 0 /\ sc.off < Span THEN @ + 1 ELSE @,
                      !.tick = IF held # sc.dir \/ sc.tick = 0 THEN Tick ELSE @ - 1]
ScFall(in) ==
  /\ ~want /\ sc.wq
  /\ sc' = IF sc.off # 0 THEN Pulse(in, sc.by) ELSE Quiet
ScTake(in) ==
  /\ Takes
  /\ sc' = [Quiet EXCEPT !.base = Jump.base, !.off = Jump.off, !.dir = Jump.dir, !.go = TRUE,
                         !.by = Tag(in, JumpBy)]
ScIssue(in) == ~want /\ ~sc.wq /\ ~Takes /\ sc.go /\ sc' = Pulse(in, sc.by)
ScRestful == ~want /\ ~sc.wq /\ ~Takes /\ ~sc.go /\ sc' = Quiet

ScrubCtrl(in) == ScRise(in) \/ ScHold(in) \/ ScFall(in) \/ ScTake(in) \/ ScIssue(in) \/ ScRestful

(***************************************************************************)
(* dvd_iso_reader.sv: a seek is latched while a cell plays, executed at a   *)
(* block boundary, and lands on the first VOBU at or behind its target (a   *)
(* sector inside the last one is streamed from as it is: N + 1).            *)
(*                                                                         *)
(* A chapter key starts a walk of the program map and the PTT table, six     *)
(* cycles or more, which runs beside the rest and arms a seek at its end     *)
(* whatever plays then.  `walk' says whose key it was.                       *)
(***************************************************************************)
Behind(rbn) == {v \in VOBUs : Sec[v] >= rbn}
Land(rbn) == IF Behind(rbn) = {} THEN N + 1
             ELSE CHOOSE v \in Behind(rbn) : \A w \in Behind(rbn) : v <= w

WalkEnds(in) == in.walk # "on" => rd.walk # "none"
ChapGo(in) == in.user = "chapter" /\ cell /\ rd.walk = "none" /\ ~rd.pend
Walking(in) == Tag(in, IF ChapGo(in) THEN "gesture" ELSE IF in.walk = "on" THEN rd.walk ELSE "none")
Arms(in) == in.walk = "seek" /\ ~rd.pend

ChapterSeek(in) == [pend |-> TRUE, isRbn |-> FALSE, rbn |-> Sec[1], by |-> Tag(in, rd.walk)]
RbnSeek(in) == [pend |-> TRUE, isRbn |-> TRUE, rbn |-> sc.rbn, by |-> Tag(in, sc.pby)]
StillAsked(in) == [pend |-> rd.pend, isRbn |-> rd.isRbn, rbn |-> rd.rbn, by |-> Tag(in, rd.by)]

Asked_AnyTime(in) ==
  IF Arms(in) THEN ChapterSeek(in) ELSE IF sc.pulse THEN RbnSeek(in) ELSE StillAsked(in)
Asked(in) ==
  IF Arms(in) THEN ChapterSeek(in) ELSE IF sc.pulse /\ cell THEN RbnSeek(in) ELSE StillAsked(in)

Landed(in) == IF (commit /\ rd.land = 0) \/ Tag(in, rd.lby) # "loop" THEN "none" ELSE "loop"

RdJump(in) ==
  /\ in.reader = "jump" /\ (cell \/ rd.land = 0)
  /\ cell' = FALSE
  /\ rd' = [RdIdle EXCEPT !.walk = Walking(in), !.ack = "jump", !.land = 1]

(* Without a cell, that is in the midst of the walk of a jump, a seek takes    *)
(* the branch of a linear source: that walk is given up, and what streams is  *)
(* no title's until the VM jumps again.                                       *)
RdSeek(in) ==
  /\ in.reader = "seek" /\ rd.pend
  /\ rd' = [RdIdle EXCEPT !.walk = Walking(in), !.ack = "seek",
                          !.land = IF cell THEN Land(rd.rbn) ELSE 0,
                          !.lby = IF Tag(in, rd.by) = "loop" THEN "loop" ELSE "none"]
  /\ UNCHANGED cell
Latched(in, land) ==
  rd' = [walk |-> Walking(in), pend |-> Asked(in).pend, isRbn |-> Asked(in).isRbn,
         rbn |-> Asked(in).rbn, by |-> Asked(in).by, ack |-> "none", land |-> land, lby |-> Landed(in)]
RdLoad(in) ==
  /\ in.reader = "load" /\ rd.land # 0 /\ ~rd.pend /\ rd.ack = "none" /\ fl = 0
  /\ cell' = TRUE
  /\ Latched(in, 0)
RdStream(in) ==
  /\ in.reader \in {"idle", "byte"}
  /\ Latched(in, rd.land)
  /\ UNCHANGED cell

Reader(in) == RdJump(in) \/ RdSeek(in) \/ RdLoad(in) \/ RdStream(in)

Buttons(in) ==
  /\ in.user = "release" => held # "none"
  /\ in.user \in {"ff", "rew"} => held = "none"
  /\ held' = CASE in.user = "ff" -> "fwd" [] in.user = "rew" -> "bwd"
               [] in.user = "release" -> "none" [] OTHER -> held

Events(in) == (IF in.user \in {"none", "release"} THEN 0 ELSE 1) + (IF in.reader = "jump" THEN 1 ELSE 0)
Counted(in) == Events(in) <= budget /\ budget' = budget - Events(in)

Clock(in) == /\ Counted(in) /\ Buttons(in) /\ WalkEnds(in)
             /\ NavDsi(in) /\ AbRepeat(in) /\ DpadSeek(in) /\ ScrubCtrl(in) /\ Reader(in)

Next == \E in \in Inputs : Clock(in)
Spec == Init /\ [][Next]_vars

(* The clock runs: cycles without an event of the user or the reader come   *)
(* again and again, since a byte takes two.  Nothing else is assumed.        *)
Calm == [user |-> "none", reader |-> "idle", walk |-> "on"]
FairSpec == Spec /\ WF_vars(Clock(Calm))

(***************************************************************************)
(* Properties.                                                              *)
(***************************************************************************)

(* A loop-back goes to A: however gestures, jumps and clears fall in between, *)
(* the seek that leaves scrub_ctrl in the loop's name is to the mark (the     *)
(* jump port has one set of registers for all three requesters).             *)
LoopSeekIsA == sc.pulse /\ sc.pby = "loop" => sc.rbn = Clamp(ab.a)

(* "An infinite seek storm" (ab_repeat.sv:17-24): no second loop-back is     *)
(* fired while one is still under way, be it in scrub_ctrl, in the reader's   *)
(* latch, or executed with the first packet behind it not yet parsed.        *)
Outstanding ==
  \/ sc.go /\ sc.by = "loop"
  \/ sc.pulse /\ sc.pby = "loop"
  \/ rd.pend /\ rd.by = "loop"
  \/ rd.lby = "loop"
NoStorm == ab.jump # NoJump => ~Outstanding

(* The trap of nav_dsi.sv's header, 0 +/- a stale offset: whatever flushes   *)
(* and packets fall into it, a D-pad seek that fires was measured from the    *)
(* sector of a VOBU, with the tables of that VOBU or of the one before it     *)
(* (see OneVobu), never with those of the place the last seek left.          *)
NoStaleJump ==
  dp.st = "FIRE" => \E v \in VOBUs : dp.base = Sec[v] /\ dp.src \in {v, v - 1}

(* "No late surprise jumps" (dpad_seek.sv): what a scrub, the D-pad or a loop *)
(* asked for in one title is not sought in the one a VM jump has gone to.    *)
SeekKeepsTitle == rd.pend /\ rd.isRbn => rd.by # "old"

(* "The total wait stays bounded by FRESH_TO" (dpad_seek.sv): a resolve ends, *)
(* in a jump or in none, however often packets and flushes restart it.       *)
ResolveEnds == []<>(dp.st \notin {"WAIT", "PICK", "RD", "EVAL", "VOBU"})

(* Claims that TLC refutes.                                                  *)

(* dvd_iso_reader.sv:1805-1806, "jump_go clears seek_pending; a seek cannot    *)
(* be latched during a jump parse": the same of every seek, that of a chapter *)
(* walk among them.                                                           *)
NoSeekCrosses == rd.pend => cell /\ rd.by # "old"

(* nav_dsi.sv:23, "any consumer must gate on a freshness latch": what is in   *)
(* scrub_ctrl's registers was measured from the sector of a VOBU.            *)
Measured == sc.dir # "none" => \E v \in VOBUs : sc.base = Sec[v]

(* ab_repeat.sv:4-5, "the playhead reaching B jumps back to A": while a cell  *)
(* plays behind B and the lockout waits for a loop-back, there is one.       *)
LoopCloses == cell /\ ab.lock /\ Reached /\ ab.jump = NoJump => Outstanding

(* dpad_seek.sv, dsi_fresh: "dsi_tbl and scalars belong to the SAME VOBU".   *)
OneVobu ==
  dp.st = "FIRE" => \E v \in VOBUs : dp.base = Sec[v] /\ dp.src = v
=============================================================================

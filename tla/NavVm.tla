------------------------------- MODULE NavVm -------------------------------
(***************************************************************************)
(* tools/dvd_vm_ref.py, the golden model of the DVD virtual machine: the   *)
(* commands of a disc, its buttons, the Menu key and the driver that plays *)
(* cell after cell.  The code is a recursion of loads, blocks and links in *)
(* which a load that fails makes a caller try something else; here "todo"  *)
(* is the next thing to do and "alts" the alternatives the callers hold.   *)
(* One action per thing done, one per event.                               *)
(***************************************************************************)
EXTENDS VmEval

CONSTANTS Discs,     \* the discs: see the fields used below
          JumpFuse   \* loads one event may make: 64

ASSUME JumpAssumption == JumpFuse \in Nat

\* A PGCIT is a sequence of [id, pgc]; id 0 is not an entry.
PgcTypes == [pre : Seq(Commands), post : Seq(Commands), cellc : Seq(Commands), buttons : Seq(Commands),
         pm : Seq(1..255), cells : Seq([still : 0..255, cmd : 0..255]),
         next : Numbers, prev : Numbers, goup : Numbers]
Pgcits == {pit \in Seq([id : 0..127, pgc : PgcTypes]) : Len(pit) \in Numbers}
DiscTypes == [fp : {<<>>} \union [{1} -> PgcTypes], srpt : Seq((0..255) \X (0..127)),
              vmgm : Pgcits, vtsm : Seq(Pgcits), tt : Seq(Pgcits),
              best_vts : Nat, best_menu_vts : Nat]
ASSUME DiscAssumption == Discs \subseteq DiscTypes

Menus   == {"VMGM", "VTSM"}
Domains == Menus \union {"FP", "TT"}
Root  == 3
Title == 2
LastPg == 255
Forever == 255
Null == <<>>

VARIABLES
  disc,                \* the disc in the player
  dom, vts, pgcn,      \* where the machine says it is
  loaded,              \* the domain, title set and number of the PGC in memory
  cell,                \* from 0
  regs,
  rsm,                 \* Null or the saved title position
  came,                \* came_via_menukey
  seen,                \* menu_seen
  last,                \* last_menu: Null or domain, title set and number
  fuse, stopped,
  todo, alts,
  rest,                \* what the driver's loop has yet to do after a cell command
  ok                   \* what the last event returned

place   == <<dom, vts, pgcn, loaded, cell>>
memory  == <<rsm, came, seen, last>>

\* History: the event, the way a title was asked for since, the position the
\* Menu key left, and whether a CallSS has saved another one.
VARIABLES event, asked, left, called, viaKey
history == <<event, asked, left, called, viaKey>>
vmVars == <<disc, place, regs, memory, fuse, stopped, todo, alts, rest, ok, history>>

(***************************************************************************)
(* The disc.  A PGCIT is a sequence of [id, pgc]; id 0 is not an entry.    *)
(***************************************************************************)
Pit(d, v) == CASE d = "VMGM" -> disc.vmgm
               [] d = "VTSM" -> IF v \in DOMAIN disc.vtsm THEN disc.vtsm[v] ELSE <<>>
               [] d = "TT"   -> IF v \in DOMAIN disc.tt THEN disc.tt[v] ELSE <<>>
Pgc(key) == IF key[1] = "FP" THEN disc.fp[1] ELSE Pit(key[1], key[2])[key[3]].pgc
Now == Pgc(loaded)

\* A title or menu entry that is missing is taken for the first PGC.
Pick(pit, id) ==
  LET i == SelectInSeq(pit, LAMBDA e : id # 0 /\ e.id = id) IN IF i = 0 THEN 1 ELSE i

Load(d, v, n, id, pgn) == [op |-> "load", dom |-> d, vts |-> v, pgcn |-> n, id |-> id, pgn |-> pgn]
LoadPgcn(d, v, n) == Load(d, v, n, 0, 0)
Entry(d, v, id)   == Load(d, v, 0, id, 0)
Number(l)  == IF l.pgcn # 0 THEN l.pgcn ELSE Pick(Pit(l.dom, l.vts), l.id)
Exists(l)  == IF l.dom = "FP" THEN disc.fp # Null ELSE Number(l) \in 1..Len(Pit(l.dom, l.vts))

FirstCell(pgc, pgn) ==
  LET c == CASE pgn = LastPg /\ pgc.pm # <<>> -> Last(pgc.pm) - 1
             [] pgn \in DOMAIN pgc.pm         -> pgc.pm[pgn] - 1
             [] OTHER                         -> 0
  IN  IF c < Len(pgc.cells) THEN c ELSE 0

(***************************************************************************)
(* The machine.                                                            *)
(***************************************************************************)
Returned == [op |-> "returned"]
Pre  == [op |-> "pre"]
Post == [op |-> "post"]
Fail == [op |-> "fail"]
Follow(link) == [op |-> "link", link |-> link, by |-> "command"]
\* The Menu key's own way back to the title.
GoBack == [op |-> "link", link |-> [cmd |-> "LinkRSM", d1 |-> 0, d2 |-> 0, d3 |-> 0], by |-> "key"]
Resume(v, n, c, pre) == [op |-> "resume", vts |-> v, pgcn |-> n, cell |-> c, pre |-> pre]
LastMenu == [op |-> "last menu"]

\* The event returns TRUE: no caller tries anything else.
Done == todo' = Returned /\ alts' = <<>> /\ ok' = TRUE
Do(t) == todo' = t /\ UNCHANGED <<alts, ok>>
Stops == stopped' = TRUE /\ Done

Doing(op) == todo.op = op

\* The jump-chain fuse.
Spend_Never == UNCHANGED fuse
Spend == fuse' = fuse + 1

\* _load_pgcn
LoadPgc ==
  /\ Doing("load")
  /\ fuse < JumpFuse
  /\ Exists(todo)
  /\ Spend
  /\ dom' = todo.dom
  /\ IF todo.dom = "FP"
     THEN /\ loaded' = <<"FP", 0, 0>> /\ vts' = 0 /\ pgcn' = 0
          /\ UNCHANGED <<cell, regs, came, seen, last>>
     ELSE LET n == Number(todo) key == <<todo.dom, todo.vts, n>> IN
          /\ vts' = todo.vts /\ pgcn' = n /\ loaded' = key
          /\ cell' = FirstCell(Pgc(key), todo.pgn)
          /\ seen' = (seen \/ todo.dom \in Menus)
          /\ last' = IF todo.dom \in Menus THEN key ELSE last
          /\ regs' = IF todo.dom = "TT" THEN [regs EXCEPT !.s[6] = n] ELSE regs
          /\ came' = (came /\ todo.dom # "TT")
  /\ Do(Pre)
  /\ viaKey' = (viaKey /\ todo.dom # "TT")
  /\ UNCHANGED <<disc, rsm, stopped, rest, event, asked, left, called>>

LoadFailed ==
  /\ Doing("load")
  /\ fuse >= JumpFuse \/ ~Exists(todo)
  /\ Spend
  /\ Do(Fail)
  /\ UNCHANGED <<disc, place, regs, memory, stopped, rest, history>>

\* _load_title with a number: a resume, or the title a boot falls back to.
\* Whether or not it is there, the machine is in the title domain.
ResumeTitle ==
  /\ Doing("resume")
  /\ dom' = "TT"
  /\ IF todo.pgcn \in 1..Len(Pit("TT", todo.vts))
     THEN /\ vts' = todo.vts /\ pgcn' = todo.pgcn /\ cell' = todo.cell
          /\ loaded' = <<"TT", todo.vts, todo.pgcn>>
          /\ regs' = [regs EXCEPT !.s[6] = todo.pgcn]
          /\ viaKey' = FALSE
          /\ IF todo.pre THEN Do(Pre) ELSE Done
     ELSE /\ Do(Fail)
          /\ UNCHANGED <<vts, pgcn, cell, loaded, regs, viaKey>>
  /\ UNCHANGED <<disc, memory, fuse, stopped, rest, event, asked, left, called>>

\* _run_pre: with no cells to play the POST block runs, if there is one.
RunPre ==
  /\ Doing("pre")
  /\ LET e == EvalBlock(Now.pre, regs) IN
     /\ regs' = e.regs
     /\ \/ e.link # NoLink /\ Do(Follow(e.link))
        \/ e.link = NoLink /\ Now.cells = <<>> /\ Now.post # <<>> /\ Do(Post)
        \/ e.link = NoLink /\ Now.cells = <<>> /\ Now.post = <<>> /\ Do(Fail)
        \/ e.link = NoLink /\ Now.cells # <<>> /\ Done
  /\ UNCHANGED <<disc, place, memory, fuse, stopped, rest, history>>

\* _run_post
RunPost ==
  /\ Doing("post")
  /\ LET e == EvalBlock(Now.post, regs) IN
     /\ regs' = e.regs
     /\ \/ e.link # NoLink /\ Do(Follow(e.link)) /\ UNCHANGED stopped
        \/ e.link = NoLink /\ Now.next # 0 /\ Do(LoadPgcn(dom, vts, Now.next)) /\ UNCHANGED stopped
        \/ e.link = NoLink /\ Now.next = 0 /\ Stops
  /\ UNCHANGED <<disc, place, memory, fuse, rest, history>>

\* A load or a block returned FALSE to whoever called it last.
Recover ==
  /\ Doing("fail")
  /\ IF alts = <<>> THEN todo' = Returned /\ ok' = FALSE /\ UNCHANGED alts
     ELSE /\ alts' = Tail(alts)
          /\ todo' = IF Head(alts) # LastMenu THEN Head(alts)
                     ELSE IF last # Null THEN LoadPgcn(last[1], last[2], last[3])
                     ELSE Fail
          /\ UNCHANGED ok
  /\ UNCHANGED <<disc, place, regs, memory, fuse, stopped, rest, history>>

----------------------------------------------------------------------------
(***************************************************************************)
(* _process: the links.                                                    *)
(***************************************************************************)
Link == todo.link
Linking(cmds) == Doing("link") /\ Link.cmd \in cmds

WithButton(r, n) == IF n = 0 THEN r ELSE [r EXCEPT !.s[8] = Button(n)]

JumpTo_Plain(l) == todo' = l /\ UNCHANGED <<alts, ok>>
\* _jump: where a link into the menus fails, the last menu is loaded again.
JumpTo(l) ==
  /\ todo' = l
  /\ alts' = IF l.dom \in Menus THEN <<LastMenu>> \o alts ELSE alts
  /\ UNCHANGED ok

LinkStay ==
  /\ Linking({"LinkNoLink", "LinkTopC"})
  /\ regs' = WithButton(regs, Link.d1)
  /\ Done
  /\ UNCHANGED <<disc, place, memory, fuse, stopped, rest, history>>

PgOfCell(c) == LET at == {i \in DOMAIN Now.pm : c >= Now.pm[i] - 1}
               IN  IF at = {} THEN 1 ELSE CHOOSE i \in at : \A j \in at : j <= i
\* Python's pm[-1] for a program number of 0.
CellOfPg(pg) == IF Now.pm = <<>> THEN 0 ELSE IF pg = 0 THEN Last(Now.pm) - 1 ELSE Now.pm[pg] - 1
NrPgms == Greatest(Len(Now.pm), 1)

LinkCell ==
  /\ Linking({"LinkNextC", "LinkPrevC", "LinkCN"})
  /\ regs' = WithButton(regs, IF Link.cmd = "LinkCN" THEN Link.d2 ELSE Link.d1)
  /\ cell' = CASE Link.cmd = "LinkNextC" -> cell + 1
               [] Link.cmd = "LinkPrevC" -> Greatest(cell - 1, 0)
               [] Link.cmd = "LinkCN"    -> Greatest(Link.d1 - 1, 0)
  /\ IF Link.cmd = "LinkNextC" /\ cell' >= Len(Now.cells) THEN Do(Post) ELSE Done
  /\ UNCHANGED <<disc, dom, vts, pgcn, loaded, memory, fuse, stopped, rest, history>>

LinkProgram ==
  /\ Linking({"LinkTopPG", "LinkNextPG", "LinkPrevPG", "LinkPTTN", "LinkPGN"})
  /\ LET named == Link.cmd \in {"LinkPTTN", "LinkPGN"}
         here  == PgOfCell(cell)
         pg == CASE named                     -> Least(Link.d1, NrPgms)
                 [] Link.cmd = "LinkNextPG"   -> here + 1
                 [] Link.cmd = "LinkPrevPG"   -> Greatest(here - 1, 1)
                 [] OTHER                     -> here
     IN /\ regs' = WithButton(regs, IF named THEN Link.d2 ELSE Link.d1)
        /\ IF pg > NrPgms THEN Do(Post) /\ UNCHANGED cell
           ELSE /\ cell' = IF Link.cmd = "LinkPGN" /\ Now.pm = <<>> THEN cell ELSE CellOfPg(pg)
                /\ Done
  /\ UNCHANGED <<disc, dom, vts, pgcn, loaded, memory, fuse, stopped, rest, history>>

LinkPgc ==
  /\ Linking({"LinkTopPGC", "LinkNextPGC", "LinkPrevPGC", "LinkGoUpPGC", "LinkPGCN", "LinkTailPGC"})
  /\ regs' = IF Link.cmd = "LinkPGCN" THEN regs ELSE WithButton(regs, Link.d1)
  /\ LET n == CASE Link.cmd = "LinkTopPGC"  -> pgcn
                [] Link.cmd = "LinkNextPGC" -> Now.next
                [] Link.cmd = "LinkPrevPGC" -> Now.prev
                [] Link.cmd = "LinkGoUpPGC" -> Now.goup
                [] OTHER                    -> Link.d1
         toPgc == Link.cmd \in {"LinkTopPGC", "LinkPGCN"} \/ n # 0
     IN \/ Link.cmd = "LinkTailPGC" /\ Do(Post) /\ UNCHANGED stopped
        \/ Link.cmd # "LinkTailPGC" /\ toPgc /\ JumpTo(LoadPgcn(dom, vts, n)) /\ UNCHANGED stopped
        \/ Link.cmd # "LinkTailPGC" /\ ~toPgc /\ Stops
  /\ UNCHANGED <<disc, place, memory, fuse, rest, history>>

Saved(c) == [vts |-> vts, pgcn |-> pgcn, cell |-> c, s |-> [i \in 4..8 |-> regs.s[i]]]

Restored_Not(r) == r
Restored(r) == [r EXCEPT !.s = [i \in Sprms |-> IF i \in 4..8 THEN rsm.s[i] ELSE r.s[i]]]

LinkRsm ==
  /\ Linking({"LinkRSM"})
  /\ IF rsm = Null THEN Stops /\ UNCHANGED <<dom, regs>>
     ELSE /\ regs' = WithButton(Restored(regs), Link.d1)
          /\ dom' = "TT"
          /\ Do(Resume(rsm.vts, rsm.pgcn, rsm.cell, FALSE))
          /\ UNCHANGED stopped
  /\ asked' = IF todo.by = "key" THEN "back" ELSE "rsm"
  /\ UNCHANGED <<disc, vts, pgcn, loaded, cell, memory, fuse, rest, event, left, called, viaKey>>

Exit ==
  /\ Linking({"Exit"})
  /\ Stops
  /\ UNCHANGED <<disc, place, regs, memory, fuse, rest, history>>

\* To a title.  A number TT_SRPT lacks fails before anything has changed.
JumpTitle ==
  /\ Linking({"JumpTT", "JumpVTS_TT", "JumpVTS_PTT"})
  /\ IF Link.cmd = "JumpTT" /\ Link.d1 \notin DOMAIN disc.srpt
     THEN Do(Fail) /\ UNCHANGED <<dom, regs>>
     ELSE LET t == IF Link.cmd = "JumpTT" THEN disc.srpt[Link.d1] ELSE <<vts, Link.d1>>
              part == IF Link.cmd = "JumpVTS_PTT" THEN Link.d2 ELSE 0
          IN /\ dom' = "TT"
             /\ regs' = [regs EXCEPT !.s[IF Link.cmd = "JumpTT" THEN 4 ELSE 5] = Link.d1,
                                     !.s[7] = IF Link.cmd = "JumpVTS_PTT" THEN Link.d2 ELSE 1]
             /\ Do(Load("TT", t[1], 0, t[2], part))
  /\ asked' = "title"
  /\ UNCHANGED <<disc, vts, pgcn, loaded, cell, memory, fuse, stopped, rest, event, left, called, viaKey>>

MenuOf(cmd) ==
  CASE cmd \in {"JumpSS_FP", "CallSS_FP"}               -> Load("FP", 0, 0, 0, 0)
    [] cmd \in {"JumpSS_VMGM_MENU", "CallSS_VMGM_MENU"} -> Entry("VMGM", 0, Link.d1)
    [] cmd \in {"JumpSS_VMGM_PGC", "CallSS_VMGM_PGC"}   -> LoadPgcn("VMGM", 0, Link.d1)
    [] cmd = "JumpSS_VTSM" -> Entry("VTSM", IF Link.d1 = 0 THEN vts ELSE Link.d1, Link.d3)
    [] cmd = "CallSS_VTSM" -> Entry("VTSM", vts, Link.d1)

\* A way to First Play, which may start a title.
ToFirstPlay == asked' = IF Link.cmd \in {"JumpSS_FP", "CallSS_FP"} /\ asked = "no" THEN "fp" ELSE asked

JumpMenu ==
  /\ Linking({"JumpSS_FP", "JumpSS_VMGM_MENU", "JumpSS_VMGM_PGC", "JumpSS_VTSM"})
  /\ regs' = IF Link.cmd = "JumpSS_VTSM" THEN [regs EXCEPT !.s[5] = Link.d2] ELSE regs
  /\ JumpTo(MenuOf(Link.cmd))
  /\ ToFirstPlay
  /\ UNCHANGED <<disc, place, memory, fuse, stopped, rest, event, left, called, viaKey>>

CallMenu ==
  /\ Linking({"CallSS_FP", "CallSS_VMGM_MENU", "CallSS_VMGM_PGC", "CallSS_VTSM"})
  /\ LET c == IF Link.cmd = "CallSS_FP" THEN Link.d1 ELSE Link.d2
     IN  rsm' = Saved(IF c = 0 THEN cell ELSE c - 1)
  /\ called' = TRUE
  /\ JumpTo(MenuOf(Link.cmd))
  /\ ToFirstPlay
  /\ UNCHANGED <<disc, place, regs, came, seen, last, fuse, stopped, rest, event, left, viaKey>>

----------------------------------------------------------------------------
(***************************************************************************)
(* The events, and the driver that plays the cells of what is loaded.      *)
(***************************************************************************)
Whole == loaded = <<dom, vts, pgcn>>
Resting == todo = Returned /\ rest = Null
Ready == Resting /\ loaded # Null

Begin(kind) ==
  /\ fuse' = 0
  /\ event' = [kind |-> kind, from |-> dom, vts |-> vts]
  /\ asked' = "no"

\* What a block of the event leads to: its link, or the end of the event.
Then(link) == IF link = NoLink THEN Done ELSE Do(Follow(link))

VmInit ==
  /\ disc \in Discs
  /\ dom = "FP" /\ vts = 0 /\ pgcn = 0 /\ loaded = Null /\ cell = 0
  /\ regs = Regs
  /\ rsm = Null /\ came = FALSE /\ seen = FALSE /\ last = Null
  /\ fuse = 0 /\ stopped = FALSE
  /\ todo = Returned /\ alts = <<>> /\ rest = Null /\ ok = TRUE
  /\ event = [kind |-> "off", from |-> "FP", vts |-> 0]
  /\ asked = "no" /\ left = Null /\ called = FALSE /\ viaKey = FALSE

\* The First Play PGC; if it fails, the first title of the largest title set.
Boot ==
  /\ event.kind = "off"
  /\ Begin("boot")
  /\ todo' = Load("FP", 0, 0, 0, 0)
  /\ alts' = <<Resume(disc.best_vts, 1, 0, TRUE)>>
  /\ UNCHANGED <<disc, place, regs, memory, stopped, rest, ok, left, called, viaKey>>

MenuCallRoot_GuessOnly ==
  LET guess == disc.best_menu_vts
  IN /\ todo' = Entry("VTSM", IF seen THEN vts ELSE guess, Root)
     /\ alts' = <<Entry("VTSM", guess, Root), Entry("VMGM", 0, Title),
                  GoBack>>
     /\ UNCHANGED ok
\* _menu_call_root.  Before the disc has shown a menu the guess goes first and
\* the playing title's own Root is kept as the fallback.
MenuCallRoot ==
  LET guess  == disc.best_menu_vts
      boot   == ~seen /\ guess # 0 /\ guess # vts
      first  == IF boot THEN guess ELSE vts
      second == IF boot THEN vts ELSE guess
  IN /\ todo' = Entry("VTSM", first, Root)
     /\ alts' = <<Entry("VTSM", second, Root), Entry("VMGM", 0, Title),
                  GoBack>>
     /\ UNCHANGED ok

MenuInTitle ==
  /\ Resting /\ event.kind # "off"
  /\ dom = "TT"
  /\ Begin("menu")
  /\ rsm' = Saved(cell)
  /\ came' = TRUE
  /\ left' = IF Whole THEN Saved(cell) ELSE Null
  /\ called' = FALSE
  /\ viaKey' = TRUE
  /\ MenuCallRoot
  /\ UNCHANGED <<disc, place, regs, seen, last, stopped, rest>>

\* In a menu: back to the title if the Menu key came from one, else its Root.
MenuInMenu ==
  /\ Resting /\ event.kind # "off"
  /\ dom # "TT"
  /\ Begin("menu")
  /\ IF came /\ rsm # Null THEN Do(GoBack) ELSE MenuCallRoot
  /\ UNCHANGED <<disc, place, regs, memory, stopped, rest, left, called, viaKey>>

\* A button of what is on the screen: its number is latched, its command runs.
PressButton(n) ==
  /\ Ready
  /\ n \in DOMAIN Now.buttons
  /\ Begin("button")
  /\ LET e == EvalBlock(<<Now.buttons[n]>>, WithButton(regs, n))
     IN  regs' = e.regs /\ Then(e.link)
  /\ UNCHANGED <<disc, place, memory, stopped, rest, left, called, viaKey>>

\* A chapter skip past the title's last chapter, and before its first.
NextEdge ==
  /\ Ready
  /\ dom = "TT"
  /\ Begin("edge")
  /\ LET e == EvalBlock(Now.post, regs) IN
     /\ regs' = e.regs
     /\ IF e.link # NoLink /\ e.link.cmd # "Exit" THEN Do(Follow(e.link))
        ELSE IF e.link = NoLink /\ Now.next # 0 THEN Do(LoadPgcn("TT", vts, Now.next))
        ELSE Done
  /\ UNCHANGED <<disc, place, memory, stopped, rest, left, called, viaKey>>

PrevEdge ==
  /\ Ready
  /\ dom = "TT" /\ Now.prev \notin {0, pgcn}
  /\ Begin("edge")
  /\ Do(Load("TT", vts, Now.prev, 0, LastPg))
  /\ UNCHANGED <<disc, place, regs, memory, stopped, rest, left, called, viaKey>>

\* run(): the cell has played.  Its command runs, and unless that loads another
\* PGC the next cell follows; after the last one the POST block.
Driven == Ready /\ ~stopped /\ ok
AtCell == Now.cells[cell + 1]

PlayNothing ==
  /\ Driven
  /\ Now.cells = <<>>
  /\ Begin("play")
  /\ Do(Post)
  /\ UNCHANGED <<disc, place, regs, memory, stopped, rest, left, called, viaKey>>

Advance(c) ==
  /\ cell' = c + 1
  /\ IF c + 1 >= Len(Now.cells) THEN Do(Post) ELSE Done

PlayCell ==
  /\ Driven
  /\ Now.cells # <<>>
  /\ cell < Len(Now.cells) => AtCell.still # Forever
  /\ Begin("play")
  /\ LET command == cell < Len(Now.cells) /\ AtCell.cmd \in DOMAIN Now.cellc
         e == EvalBlock(IF command THEN <<Now.cellc[AtCell.cmd]>> ELSE <<>>, regs)
     IN /\ regs' = e.regs
        /\ IF e.link # NoLink
           THEN Do(Follow(e.link)) /\ rest' = <<dom, vts, pgcn, loaded>> /\ UNCHANGED cell
           ELSE Advance(cell) /\ UNCHANGED rest
  /\ UNCHANGED <<disc, dom, vts, pgcn, loaded, memory, stopped, left, called, viaKey>>

\* The link of the cell command is done.
AfterCellCommand ==
  /\ todo = Returned
  /\ rest # Null
  /\ rest' = Null
  /\ IF ok /\ <<dom, vts, pgcn, loaded>> = rest
     THEN Advance(cell) /\ fuse' = 0
     ELSE UNCHANGED <<cell, todo, alts, ok, fuse>>
  /\ UNCHANGED <<disc, dom, vts, pgcn, loaded, regs, memory, stopped, history>>

AllLinks == LinkStay \/ LinkCell \/ LinkProgram \/ LinkPgc \/ LinkRsm \/ Exit
         \/ JumpTitle \/ JumpMenu \/ CallMenu
Works == LoadPgc \/ LoadFailed \/ ResumeTitle \/ RunPre \/ RunPost \/ Recover \/ AllLinks
         \/ AfterCellCommand
VmEvents == Boot \/ MenuInTitle \/ MenuInMenu \/ NextEdge \/ PrevEdge \/ PlayNothing \/ PlayCell
          \/ \E n \in 1..4 : PressButton(n)
VmNext == Works \/ VmEvents
VmSpec == VmInit /\ [][VmNext]_vmVars /\ WF_vmVars(Works)

----------------------------------------------------------------------------
\* Types: an event's way is a chain of tasks.
Loads     == [op : {"load"}, dom : Domains, vts : Nat, pgcn : Numbers, id : Numbers, pgn : 0..1023]
Resumes   == [op : {"resume"}, vts : Nat, pgcn : Nat, cell : Nat, pre : BOOLEAN]
Commanded == [op : {"link"}, link : LinkTypes, by : {"command"}]
Tasks        == Loads \union Resumes \union Commanded \union {Returned, Pre, Post, Fail, GoBack}
Alternatives == Loads \union Resumes \union {LastMenu, GoBack}
Positions == [vts : Nat, pgcn : Numbers, cell : Nat, s : [4..8 -> Words]]

\* Type invariant.
VmTypes ==
  /\ disc \in Discs
  /\ dom \in Domains /\ vts \in Nat /\ pgcn \in Numbers /\ cell \in Nat
  /\ \/ loaded = Null
     \/ loaded = <<"FP", 0, 0>> /\ disc.fp # Null
     \/ /\ loaded \in (Menus \union {"TT"}) \X Nat \X Numbers
        /\ loaded[3] \in 1..Len(Pit(loaded[1], loaded[2]))
  /\ regs \in RegTypes
  /\ rsm = Null \/ rsm \in Positions
  /\ came \in BOOLEAN /\ seen \in BOOLEAN /\ stopped \in BOOLEAN /\ ok \in BOOLEAN
  /\ \/ last = Null
     \/ last \in Menus \X Nat \X Numbers /\ last[3] \in 1..Len(Pit(last[1], last[2]))
  /\ seen <=> last # Null
  /\ fuse \in Nat
  /\ todo \in Tasks /\ alts \in Seq(Alternatives)

\* A button in a menu whose links into the menus fail never starts a title
\* nobody asked for, and fails only if its chain of loads ran out of fuse, or the
\* menu it goes back to is a dead end or is followed by one the disc lacks, or it
\* asked for First Play on a disc without (_jump).
LeadsNowhere == Now.cells = <<>> /\ Now.post = <<>>
NextIsMissing == Now.next # 0 /\ ~Exists(LoadPgcn(dom, vts, Now.next))
BadLinkStaysInMenus ==
  todo = Returned /\ event.kind = "button" /\ event.from \in Menus /\ asked \in {"no", "fp"} =>
    /\ dom # "TT"
    /\ ok \/ fuse > JumpFuse \/ LeadsNowhere \/ NextIsMissing \/ (asked = "fp" /\ disc.fp = Null)

\* The Menu key gives a title back exactly as it was left: title set, PGC, cell
\* and the five saved registers, whatever the menus did in between, if no
\* command saved another position; TT_PGCN is the PGC's number, and a command
\* that resumes may name a button.  A disc whose menus all fail to load gives it
\* back at once.
GivenBack(p, c) ==
  /\ c.vts = p.vts /\ c.pgcn = p.pgcn /\ c.cell = p.cell
  /\ c.s = [p.s EXCEPT ![6] = p.pgcn, ![8] = IF asked = "back" THEN @ ELSE c.s[8]]
ToggleGivesBack ==
  todo = Returned /\ event.kind = "menu" /\ asked \in {"back", "rsm"} /\ left # Null /\ ~called =>
    /\ ok
    /\ dom = "TT" /\ Whole
    /\ GivenBack(left, Saved(cell))

\* The guess at the disc's menu never costs a Root menu that plays at once,
\* unless following the guess used up the fuse both share, or the guess's own
\* commands went to a title (_menu_call_root).
PlainRoot(v) ==
  LET pit == Pit("VTSM", v) pgc == pit[Pick(pit, Root)].pgc
  IN  pit # <<>> /\ pgc.pre = <<>> /\ pgc.cells # <<>>
GuessCostsNothing ==
  todo = Returned /\ event.kind = "menu" /\ event.from = "TT" /\ fuse <= JumpFuse
                /\ PlainRoot(event.vts) =>
    dom # "TT" \/ asked \in {"title", "rsm"}

\* Every event comes back, unless a POST block leads to itself for ever by the
\* links that run it without a load, which the fuse does not count (_process):
\* the fuse, and the commands that fail at it, end all that goes round by loads.
\* Python then gives up at its recursion limit.
AtTail == Doing("post") \/ Linking({"LinkTailPGC", "LinkNextC", "LinkNextPG"})
EventReturns == []<>(todo = Returned) \/ <>[]AtTail

\* The same without an exception, as the fuse is meant.
EveryEventReturns == todo # Returned ~> todo = Returned

\* What came_via_menukey is said to mean: the menu on the screen was reached by
\* pressing Menu while a title played.
ToggleOnlyAfterMenuKey == todo = Returned /\ dom \in Menus /\ came => viaKey
=============================================================================

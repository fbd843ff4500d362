------------------------------- MODULE NavShell -------------------------------
(***************************************************************************)
(* The navigation VM at work: the wrapper that latches events and times    *)
(* the wait (dvd_vm.sv, and its model tools/nav_shell.py, one step per     *)
(* stimulus), the microcode's event handlers (nav/vm.uasm) and the reader  *)
(* that loads program chains for it (dvd_iso_reader.sv).  What a command   *)
(* computes is NavVm's subject: here a block of commands ends in any way   *)
(* the microcode has of ending one, and a load finds any program chain.    *)
(* Disc Menus are on.                                                      *)
(***************************************************************************)
EXTENDS Naturals

CONSTANTS
  ChainMax,    \* loads one activation may chain (63)
  Keys,        \* bound: what the user presses, and whether discs are mounted
               \* and snapshots restored
  MaxKeys      \* bound: how often, mounts apart

ASSUME ShellAssumption ==
  /\ ChainMax \in Nat \ {0} /\ MaxKeys \in Nat
  /\ Keys \subseteq {"menu", "title", "cmenu", "return", "btn", "chedge", "restore", "mount"}

VARIABLES
  ev,      \* the event latches
  wr,      \* the wrapper: P_VM_DOM, the last menu, pre_armed, rst_pend
  vm,      \* the microcode: where it is, its flags and its part of the data RAM
  rd,      \* the reader: what it does, its domain, the PGC it holds, its jump
  keys,    \* what is used up of the bound
  owed,    \* history: the PRE of the last load has not been dealt with
  late     \* history: the latched press preceded a jump or a load, or fell into a wait

vars == <<ev, wr, vm, rd, keys, owed, late>>

(* The domains.  Nothing here tells a menu of the disc (VMGM) from one of  *)
(* a title set (VTSM).                                                     *)
Doms     == {"FP", "TT", "menu"}
UserKeys == {"menu", "title", "cmenu", "return"}
Events   == {"boot", "error", "loaded", "btn", "cellcmd", "pgcend", "chedge"} \union UserKeys
Fallbacks == {"none", "fp", "title", "bootm", "vtsm", "vtsm2", "vmgm", "gaveup"}

(* A jump names its program chain by number or entry, or by a title number *)
(* of the disc, which the reader resolves through TT_SRPT first.           *)
None  == [none |-> TRUE]
Jumps == [dom : Doms, nat : BOOLEAN, ttn : BOOLEAN]

(* What the VM can tell of a program chain. *)
Pgcs  == [pre : BOOLEAN, post : BOOLEAN, cells : BOOLEAN]

(* The reader: the walk of the disc; the three stages of a load; a cell    *)
(* that plays; the waits for a verdict on a cell command and on a PGC's    *)
(* end; a PGC played out; nothing with cells (an error, a stub of commands *)
(* or a title streamed without its tables).                                *)
Loading == {"resolve", "find", "read"}
Waits   == {"cellwait", "pgcwait"}
InCells == {"play", "done"} \union Waits
Settled == InCells \union {"idle"}

Wrappers == [dom : Doms, lm : BOOLEAN, armed : BOOLEAN, rstPend : BOOLEAN]
Machines == [pc : {"idle", "run", "wait", "restore"}, blk : {"pre", "post", "cell", "btn"},
             nat : BOOLEAN, usr : BOOLEAN, fb : Fallbacks, cvm : BOOLEAN, skip : BOOLEAN,
             chain : 0..2 * ChainMax + 1, rsm : BOOLEAN]
Readers  == [at : {"walk"} \union Loading \union Settled, dom : Doms, pgc : Pgcs,
             jump : Jumps \union {None}]

TypeOK ==
  /\ ev \subseteq Events
  /\ wr \in Wrappers /\ vm \in Machines /\ rd \in Readers
  /\ keys \in 0..MaxKeys
  /\ owed \in BOOLEAN /\ late \in BOOLEAN

(* vm_reset at a mount.  A restore that waits for rest survives it, as     *)
(* pre_armed does; one that is being carried out does not.                 *)
FreshVm == [pc |-> "idle", blk |-> "btn", nat |-> FALSE, usr |-> FALSE, fb |-> "none",
            cvm |-> FALSE, skip |-> FALSE, chain |-> 0, rsm |-> FALSE]
Mounted(w) == [w EXCEPT !.dom = "TT", !.lm = FALSE]
Walking(r) == [r EXCEPT !.at = "walk", !.dom = "TT", !.jump = None]

Init ==
  /\ ev = {} /\ vm = FreshVm
  /\ wr = [dom |-> "TT", lm |-> FALSE, armed |-> FALSE, rstPend |-> FALSE]
  /\ rd = [at |-> "walk", dom |-> "TT", jump |-> None,
           pgc |-> [pre |-> FALSE, post |-> FALSE, cells |-> FALSE]]
  /\ keys = 0
  /\ owed = FALSE /\ late = FALSE

(***************************************************************************)
(* The wrapper.                                                            *)
(***************************************************************************)
(* P_MENU_ACTIVE is the reader's domain, P_VM_DOM the VM's own. *)
MenuActive == rd.dom = "menu"
InTitle    == ~MenuActive /\ wr.dom = "TT"

(* pre_done fires in a cycle in which the VM idles or jumps and no load is *)
(* latched: what is left armed by a cycle that sees the events e.          *)
ArmedHasty(e) == FALSE                    \* mutant: whatever is latched
ArmedAfter(e) == wr.armed /\ "loaded" \in e

(* vm_adv: behind a cell the reader goes on with the next one, behind a    *)
(* PGC with the PGC that follows, if there is one.                         *)
Advanced(r) ==
  CASE r.at = "cellwait" -> {[r EXCEPT !.at = "play"]}
    [] r.at = "pgcwait"  -> {[r EXCEPT !.at = "done"], [r EXCEPT !.at = "read"]}
    [] OTHER -> {r}

(* The reader on the pulses vm_adv (masked in a title edge's chain),       *)
(* vm_replay and seek.                                                     *)
Told(r, m, pulse) ==
  CASE pulse = "adv"    -> IF m.usr THEN {r} ELSE Advanced(r)
    [] pulse = "replay" -> {IF r.at \in Waits THEN [r EXCEPT !.at = "play"] ELSE r}
    [] pulse = "seek"   -> {IF r.at \in InCells THEN [r EXCEPT !.at = "play"] ELSE r}

(* A jump is natural when a cell's or a PGC end's own commands make it. *)
FromWait(m) == m.blk \in {"cell", "post"} /\ m.nat

(***************************************************************************)
(* The ways a handler ends; it has left the events ev'.  m is the state of *)
(* the microcode at its last output, d the domain it leaves the VM in.     *)
(***************************************************************************)
LateAfter(m) == late' = ("btn" \in ev' /\ (late \/ m.pc = "wait"))
Leave(m, d) ==
  /\ vm' = m
  /\ wr' = [wr EXCEPT !.dom = d, !.armed = ArmedAfter(ev')]
  /\ LateAfter(m)

(* IDLE clears usr_edge.  Nothing reads blk and nat before a handler has   *)
(* set them again, so the model forgets them.                              *)
Parked(m) == [m EXCEPT !.pc = "idle", !.usr = FALSE, !.blk = "btn", !.nat = FALSE]
Idle(m)   == Leave(Parked(m), wr.dom) /\ UNCHANGED rd
Tell(m, pulse) == Leave(Parked(m), wr.dom) /\ rd' \in Told(rd, m, pulse)

RunBlock(m, b) ==
  /\ vm' = [m EXCEPT !.pc = "run", !.blk = b]
  /\ wr' = IF vm.pc = "idle" THEN [wr EXCEPT !.armed = ArmedAfter(ev)] ELSE wr
  /\ LateAfter(vm')
  /\ UNCHANGED rd

(* The reader latches a jump over an older one, but not while it still     *)
(* walks the disc.                                                         *)
Latched(r, target, nat, ttn) ==
  IF r.at = "walk" THEN r ELSE [r EXCEPT !.jump = [dom |-> target, nat |-> nat, ttn |-> ttn]]

(* JSET, JGO: fb, then the jump. *)
JumpFrom(m, d, target, ttn, f) ==
  /\ Leave([m EXCEPT !.pc = "wait", !.fb = f], d)
  /\ rd' = Latched(rd, target, FromWait(m), ttn)

(* JSETV, JGO: most jumps take the VM's own domain along. *)
Jump(m, d, f) == JumpFrom(m, d, d, FALSE, f)

(* SKIP_PRE: a resume, a restore or a part of another PGC. *)
JumpBare(m, d, f) == Jump([m EXCEPT !.skip = TRUE], d, f)

(* A menu PGC without cells is there for its commands; one that leads      *)
(* nowhere raises the error event (DEADEND).                               *)
ZeroCell   == ~rd.pgc.cells /\ wr.dom # "TT"
DeadEnd(m) == Idle([m EXCEPT !.fb = "vtsm"])
PostOrTell(m) == IF rd.pgc.post THEN RunBlock(m, "post") ELSE Tell(m, "adv")

(* UPRO: a new activation. *)
Activated(m) == [m EXCEPT !.chain = 0, !.blk = "btn", !.nat = FALSE]

(* RSM_SAVE and the toggle's flag, for a key pressed in a title. *)
TitleSaved(m) == IF InTitle THEN [m EXCEPT !.rsm = TRUE, !.cvm = TRUE] ELSE m

(* MENUKEY: before a menu has shown, the disc's best menu may be tried     *)
(* first; whether it is another VTS is the disc's affair.                  *)
KeyFallbacks == IF wr.lm THEN {"vtsm"} ELSE {"vtsm", "bootm"}

(***************************************************************************)
(* Idle-mode handlers, one per event.                                      *)
(***************************************************************************)
EBoot == Jump(Activated(vm), "FP", "fp")

(* A user's menu link failed: back to the last good menu. *)
LinkFailed(m) == m.fb = "none" /\ wr.lm /\ wr.dom = "menu"

(* The fallback chain.  `other` says whether the VTS an arm would try is   *)
(* there and is another one.                                               *)
EError ==
  LET m == [vm EXCEPT !.blk = "btn", !.nat = FALSE]
  IN \E other \in BOOLEAN :
       \/ m.fb = "gaveup" /\ Idle([m EXCEPT !.fb = "none"])
       \/ m.fb \in {"bootm", "vtsm"} /\ other /\ Jump(m, "menu", "vtsm2")
       \/ m.fb \in {"bootm", "vtsm"} /\ ~other /\ Jump(m, "menu", "vmgm")
       \/ m.fb = "vtsm2" /\ Jump(m, "menu", "vmgm")
       \/ m.fb = "vmgm" /\ m.rsm /\ JumpBare(m, "TT", "gaveup")
       \/ LinkFailed(m) /\ Jump(m, "menu", "vtsm")
       \/ /\ m.fb \in {"none", "fp", "title", "vmgm"}
          /\ ~(m.fb = "vmgm" /\ m.rsm) /\ ~LinkFailed(m)
          /\ Jump(m, "TT", "gaveup")

(* A load is taken: run the PRE, unless SKIP_PRE says that a resume has    *)
(* landed; without one, the POST of a PGC without cells.                   *)
DeadEnds(m) == ~m.skip /\ ~rd.pgc.pre /\ ~rd.pgc.post /\ ZeroCell
LoadTaken(m0) ==
  LET m == IF wr.dom = "TT" THEN [m0 EXCEPT !.cvm = FALSE] ELSE m0
  IN CASE m.skip \/ (~rd.pgc.pre /\ ~ZeroCell) -> Idle([m EXCEPT !.skip = FALSE, !.fb = "none"])
       [] ~m.skip /\ rd.pgc.pre -> RunBlock(m, "pre")
       [] OTHER -> IF rd.pgc.post THEN RunBlock(m, "post") ELSE DeadEnd(m)
LoadOwes == owed /\ ~vm.skip /\ rd.pgc.pre

ELoaded == LoadTaken([vm EXCEPT !.nat = FALSE,
                                !.fb = IF ~vm.skip /\ rd.pgc.pre THEN "none" ELSE @])
EBtn    == RunBlock(Activated(vm), "btn")

(* A cell command number beyond the table is nothing to run. *)
ECellCmd == LET m == [vm EXCEPT !.chain = 0, !.nat = TRUE]
            IN RunBlock(m, "cell") \/ Tell(m, "adv")
EPgcEnd  == PostOrTell([vm EXCEPT !.chain = 0, !.nat = TRUE])

(* A chapter skip at the title's edge: Next runs the POST as the user's,   *)
(* Prev goes to the previous PGC, if there is one.                         *)
EChEdge ==
  LET m == [vm EXCEPT !.chain = 0, !.nat = FALSE]
  IN \/ ~MenuActive /\ RunBlock([m EXCEPT !.usr = TRUE], "post")
     \/ ~MenuActive /\ JumpFrom([m EXCEPT !.usr = TRUE, !.blk = "btn"], wr.dom, "TT", FALSE, "none")
     \/ Idle(m)

EMenu ==
  LET m == Activated(vm)
  IN IF ~InTitle /\ m.cvm /\ m.rsm THEN JumpBare(m, "TT", "none")
     ELSE \E f \in KeyFallbacks : Jump(TitleSaved(m), "menu", f)
ETitle  == Jump(TitleSaved(Activated(vm)), "menu", "vmgm")
ECMenu  == Jump(TitleSaved(Activated(vm)), "menu", "vtsm")
EReturn == Idle(Activated(vm)) \/ Jump(Activated(vm), wr.dom, "none")

Handler(e) ==
  CASE e = "boot" -> EBoot       [] e = "error" -> EError   [] e = "loaded" -> ELoaded
    [] e = "btn" -> EBtn         [] e = "cellcmd" -> ECellCmd [] e = "pgcend" -> EPgcEnd
    [] e = "chedge" -> EChEdge   [] e = "menu" -> EMenu     [] e = "title" -> ETitle
    [] e = "cmenu" -> ECMenu     [] e = "return" -> EReturn

(* What else a handler clears: a load makes what the old PGC raised stale. *)
StaleKeepsPress == {"cellcmd", "pgcend", "chedge"}       \* mutant
Stale == {"cellcmd", "pgcend", "btn", "chedge"}
AlsoClears(e) ==
  CASE e = "error" -> {"loaded"} [] e = "loaded" -> Stale [] e = "pgcend" -> {"chedge"}
    [] OTHER -> {}

(* The wrapper offers the events in a fixed order. *)
Order == <<"boot", "error", "loaded", "btn", "cellcmd", "pgcend", "chedge",
           "menu", "title", "cmenu", "return">>
Offered(e) ==
  \E i \in DOMAIN Order : Order[i] = e /\ e \in ev /\ \A j \in 1..(i - 1) : Order[j] \notin ev

Dispatch(e) ==
  /\ vm.pc = "idle" /\ Offered(e)
  /\ ev' = (ev \ ({e} \union AlsoClears(e)))
           \union (IF e = "loaded" /\ DeadEnds(vm) THEN {"error"} ELSE {})
  /\ Handler(e)
  /\ owed' = CASE e = "loaded" -> LoadOwes [] e = "error" -> FALSE [] OTHER -> owed
  /\ UNCHANGED keys

(* Parked with nothing to dispatch: pre_done fires. *)
AtRest ==
  /\ vm.pc = "idle" /\ "loaded" \notin ev /\ wr.armed
  /\ wr' = [wr EXCEPT !.armed = FALSE]
  /\ UNCHANGED <<ev, vm, rd, owed, late, keys>>

(***************************************************************************)
(* Wait-mode handlers: the load, the error, the timer.                     *)
(***************************************************************************)
NoRunaway == FALSE                         \* mutant
Runaway == vm.chain >= ChainMax
Chained(c) == (c + 1) % (2 * (ChainMax + 1))
WLoaded ==
  LET m == [vm EXCEPT !.usr = FALSE, !.chain = Chained(@),
                      !.nat = @ /\ (vm.skip \/ ~rd.pgc.pre)]
  IN /\ vm.pc = "wait" /\ "loaded" \in ev
     /\ ev' = (ev \ ({"loaded"} \union Stale))
              \union (IF ~Runaway /\ DeadEnds(vm) THEN {"error"} ELSE {})
     /\ IF Runaway
        THEN Idle([m EXCEPT !.skip = FALSE, !.fb = "none", !.cvm = @ /\ wr.dom # "TT"])
        ELSE LoadTaken(m)
     /\ owed' = (~Runaway /\ LoadOwes)
     /\ UNCHANGED keys

(* Both of these drop a press latched during the wait. *)
WError ==
  /\ vm.pc = "wait" /\ "loaded" \notin ev /\ "error" \in ev
  /\ ev' = ev \ {"btn"}
  /\ Idle(vm)
  /\ UNCHANGED <<owed, keys>>

(* 0.62 seconds, which the wait for a natural jump's drain does not use    *)
(* up.  A settled reader takes a jump at the end of a sector's read.       *)
NatWait  == rd.jump # None /\ rd.jump.nat
JumpNext == rd.jump # None /\ rd.at \in Settled
WTimeout ==
  /\ vm.pc = "wait" /\ ev \intersect {"loaded", "error"} = {} /\ ~NatWait /\ ~JumpNext
  /\ ev' = ev \ {"btn"}
  /\ Idle([vm EXCEPT !.skip = FALSE])
  /\ UNCHANGED <<owed, keys>>

(***************************************************************************)
(* A block of commands ends.                                               *)
(***************************************************************************)
(* WV_IDLE: an Exit, a link to nothing, a spent fuse. *)
Parks(m) == Idle(m)                        \* mutant: the reader is forgotten
NoVerdict(m) == IF m.blk \in {"cell", "post"} THEN Tell(m, "adv") ELSE Idle(m)

(* The last command was no link (BLKEND). *)
FellThrough(m) ==
  CASE m.blk = "pre" -> IF ~ZeroCell THEN Idle(m)
                        ELSE IF rd.pgc.post THEN RunBlock(m, "post") ELSE DeadEnd(m)
    [] m.blk = "post" -> Tell(m, "adv") \/ (m.usr /\ JumpFrom(m, wr.dom, "TT", FALSE, "none"))
    [] OTHER -> NoVerdict(m)
Falls(m) == m.blk = "pre" /\ ZeroCell /\ ~rd.pgc.post

Running == vm.pc = "run" /\ owed' = (owed /\ "loaded" \in ev) /\ UNCHANGED keys
BlockEnd ==
  /\ Running
  /\ ev' = IF Falls(vm) THEN ev \union {"error"} ELSE ev
  /\ FellThrough(vm)

(* Links within the PGC: replay and seek, past the last program, the tail. *)
LinkInside ==
  /\ Running /\ UNCHANGED ev
  /\ (NoVerdict(vm) \/ Tell(vm, "replay") \/ Tell(vm, "seek") \/ PostOrTell(vm))

(* Links to a PGC of the VM's own domain; LinkRSM, and LinkPTTN to a part  *)
(* of another PGC.                                                         *)
LinkOutside ==
  /\ Running /\ UNCHANGED ev
  /\ (Jump(vm, wr.dom, "none") \/ JumpBare(vm, "TT", "none"))

(* JumpTT, JumpVTS_TT and JumpVTS_PTT; JumpSS; CallSS from a title. *)
JumpAway ==
  /\ Running /\ UNCHANGED ev
  /\ \/ \E ttn \in BOOLEAN : JumpFrom(vm, "TT", "TT", ttn, "title")
     \/ \E d \in Doms \ {"TT"}, saves \in {FALSE, wr.dom = "TT"} :
          Jump([vm EXCEPT !.rsm = @ \/ saves], d, "none")

(***************************************************************************)
(* A restored snapshot: taken like an event, behind all of them, then put  *)
(* back word by word.  It was taken of a VM at rest, anywhere.             *)
(***************************************************************************)
RestoreTaken ==
  /\ vm.pc = "idle" /\ ev = {} /\ wr.rstPend
  /\ vm' = [vm EXCEPT !.pc = "restore"]
  /\ wr' = [wr EXCEPT !.rstPend = FALSE, !.armed = FALSE]
  /\ UNCHANGED <<ev, rd, owed, late, keys>>

RestoreEnd ==
  /\ vm.pc = "restore"
  /\ UNCHANGED <<ev, owed, keys>>
  /\ \E d \in Doms, lm, cvm, rsm \in BOOLEAN :
       LET m == [Activated(vm) EXCEPT !.pc = "wait", !.cvm = cvm, !.rsm = rsm,
                                      !.skip = TRUE, !.fb = "none"]
       IN /\ vm' = m
          /\ wr' = [wr EXCEPT !.dom = d, !.lm = lm, !.armed = ArmedAfter(ev)]
          /\ LateAfter(m)
          /\ rd' = Latched(rd, d, FALSE, FALSE)

VmStep ==
  \/ \E e \in Events : Dispatch(e)
  \/ WLoaded \/ WError \/ WTimeout
  \/ BlockEnd \/ LinkInside \/ LinkOutside \/ JumpAway
  \/ RestoreTaken \/ RestoreEnd

(***************************************************************************)
(* The reader.                                                             *)
(***************************************************************************)
(* An idle VM takes an event within a few clock cycles, and a snapshot is  *)
(* put back in microseconds; each step of the reader takes it a read of a  *)
(* sector at least.  A block of commands (41 milliseconds at the most) may *)
(* outlast one such step, but no second report of the reader.              *)
Taking == \/ vm.pc = "idle" /\ ev # {}
          \/ vm.pc = "wait" /\ ev \intersect {"loaded", "error"} # {}
          \/ vm.pc = "run" /\ ev \intersect {"loaded", "error", "cellcmd", "pgcend"} # {}
          \/ vm.pc = "restore"
Quiet == UNCHANGED <<vm, wr, owed, late, keys>>

(* The walk of the disc ends: nav_ready rises, and the VM boots. *)
WalkDone ==
  /\ rd.at = "walk"
  /\ rd' = [rd EXCEPT !.at = "idle"] /\ ev' = ev \union {"boot"}
  /\ Quiet

(* A natural jump waits until what it cuts has been shown, or long enough. *)
DrainEnds ==
  /\ NatWait
  /\ rd' = [rd EXCEPT !.jump.nat = FALSE]
  /\ UNCHANGED ev /\ Quiet

(* The jump is carried out, from a settled state only. *)
JumpGo ==
  /\ JumpNext /\ ~NatWait
  /\ rd' = [rd EXCEPT !.at = IF rd.jump.ttn THEN "resolve" ELSE "find",
                      !.dom = rd.jump.dom, !.jump = None]
  /\ UNCHANGED ev /\ Quiet

Resolved ==
  /\ rd.at = "resolve"
  /\ rd' = [rd EXCEPT !.at = "find"]
  /\ UNCHANGED ev /\ Quiet

(* The program chain's header and commands are read. *)
Found ==
  /\ rd.at = "find"
  /\ rd' = [rd EXCEPT !.at = "read"]
  /\ UNCHANGED ev /\ Quiet

(* pgc_error: nothing to resolve or to find, or a menu PGC with neither    *)
(* cells nor commands (after any links the reader follows by itself).  A   *)
(* title that is not found is streamed instead, and no verdict is sent.    *)
Bare(p) == ~p.pre /\ ~p.post /\ ~p.cells
LoadFails ==
  /\ \/ rd.at = "resolve"
     \/ rd.at = "find" /\ rd.dom # "TT"
     \/ rd.at = "read" /\ MenuActive
  /\ rd' = [rd EXCEPT !.at = "idle"] /\ ev' = ev \union {"error"}
  /\ Quiet
LoadUnanswered ==
  /\ rd.at \in {"find", "read"} /\ rd.dom = "TT"
  /\ rd' = [rd EXCEPT !.at = "idle"]
  /\ UNCHANGED ev /\ Quiet

(* pgc_loaded, and what the wrapper latches with it: by the VM's domain.   *)
MenuLatched(w) == [w EXCEPT !.lm = @ \/ w.dom = "menu"]
LoadDone ==
  /\ rd.at = "read"
  /\ \E p \in Pgcs :
       /\ IF rd.dom = "FP" THEN ~p.cells ELSE ~Bare(p)
       /\ rd' = [rd EXCEPT !.at = IF p.cells THEN "play" ELSE "idle", !.pgc = p]
       /\ owed' = p.pre
  /\ ev' = ev \union {"loaded"}
  /\ wr' = [MenuLatched(wr) EXCEPT !.armed = TRUE]
  /\ late' = ("btn" \in ev)
  /\ UNCHANGED <<vm, keys>>

(* A cell has played: its command is raised, or, after the last, the PGC's *)
(* end.  It outlasts the block that its load starts (wr.armed).            *)
CellEnd ==
  /\ rd.at = "play" /\ ~wr.armed
  /\ \E w \in Waits :
       /\ rd' = [rd EXCEPT !.at = w]
       /\ ev' = ev \union {IF w = "cellwait" THEN "cellcmd" ELSE "pgcend"}
  /\ Quiet

(* 0.62 seconds without a verdict, not counting a natural jump's drain; no *)
(* block of commands takes as long.                                        *)
Watchdog ==
  /\ rd.at \in Waits /\ ~NatWait /\ vm.pc # "run"
  /\ rd' \in Advanced(rd)
  /\ UNCHANGED ev /\ Quiet

ReaderStep ==
  /\ ~Taking
  /\ \/ WalkDone \/ DrainEnds \/ JumpGo
     \/ Resolved \/ Found \/ LoadFails \/ LoadUnanswered \/ LoadDone
PlayStep == ~Taking /\ (CellEnd \/ Watchdog)

(***************************************************************************)
(* The user, and the host.                                                 *)
(***************************************************************************)
Press(e) ==
  /\ keys < MaxKeys /\ keys' = keys + 1
  /\ e = "btn" => rd.at # "walk"
  /\ e = "chedge" => rd.at \in InCells /\ ~MenuActive
  /\ ev' = ev \union {e}
  /\ late' = IF e = "btn" THEN vm.pc = "wait" ELSE late
  /\ UNCHANGED <<wr, vm, rd, owed>>

RestoreAsked ==
  /\ "restore" \in Keys
  /\ keys < MaxKeys /\ keys' = keys + 1
  /\ wr' = [wr EXCEPT !.rstPend = TRUE]
  /\ UNCHANGED <<ev, vm, rd, owed, late>>

Mount ==
  /\ "mount" \in Keys
  /\ ev' = {} /\ wr' = Mounted(wr) /\ vm' = FreshVm /\ rd' = Walking(rd)
  /\ owed' = FALSE /\ late' = FALSE
  /\ UNCHANGED keys

UserStep == (\E e \in Keys \ {"restore", "mount"} : Press(e)) \/ RestoreAsked \/ Mount

Next == VmStep \/ AtRest \/ ReaderStep \/ PlayStep \/ UserStep

(* The microcode and its timer run, and so do the reader's parse and its   *)
(* drain.  That a cell ends, a watchdog fires or anybody presses anything  *)
(* is not assumed.                                                         *)
Spec == Init /\ [][Next]_vars /\ WF_vars(VmStep) /\ WF_vars(ReaderStep)

(***************************************************************************)
(* What the system promises.                                               *)
(***************************************************************************)
(* The inductive form of the next property: a PRE that is owed has its     *)
(* load still latched, or is the block that runs.                          *)
OwedIsPending == owed => wr.armed /\ ("loaded" \in ev \/ vm.pc = "run")

(* dvd_vm.sv:820-822, docs/dvd_vm.md: pre_done never precedes the PRE.  A  *)
(* load whose PRE has still to be run, or is being run, keeps it armed:    *)
(* the reader's angle block waits for it.                                  *)
PreDoneAfterPre == owed => wr.armed

(* The inductive form of the next property: the VM waits, and will drop    *)
(* the press, or a load is latched that will; an error that is latched too *)
(* comes first, but leads to a wait.                                       *)
LateIsDoomed ==
  late => /\ "btn" \in ev
          /\ vm.pc = "wait" \/ ("loaded" \in ev /\ ("error" \in ev => vm.fb # "gaveup"))

(* vm.uasm:638: a button is a button of the menu that is up.  No press is  *)
(* run that a jump or a load has overtaken.                                *)
ButtonIsCurrent ==
  [][vm'.pc = "run" /\ vm'.blk = "btn" /\ vm.pc = "idle" => ~late]_vars

(* vm.uasm:620, docs/dvd_vm.md "Guards": every activation ends, whatever   *)
(* the disc's program chains link to and whatever fails to load.           *)
Settles == []<>(vm.pc = "idle")

(* docs/dvd_vm.md "Reader-wait contract": the reader that waits for a      *)
(* verdict gets one, without its watchdog.                                 *)
Answered == []<>(rd.at \notin Waits)

(* dvd_vm.sv:795: the last menu, to which a failed link goes back, is one  *)
(* that was loaded as a menu.  TLC refutes this: the latch goes by the     *)
(* domain the VM has asked for, and the load may be the previous jump's.   *)
LastMenuIsMenu == [][wr'.lm /\ ~wr.lm /\ vm.pc # "restore" => MenuActive]_vars
===============================================================================

------------------------------ MODULE MCNavVm ------------------------------
EXTENDS NavVm

Cell(still, cmd) == [still |-> still, cmd |-> cmd]
Plays == <<Cell(0, 0)>>
Waits == <<Cell(255, 0)>>
Blank == [pre |-> <<>>, post |-> <<>>, cellc |-> <<>>, pm |-> <<1>>, cells |-> Waits,
          next |-> 0, prev |-> 0, goup |-> 0, buttons |-> <<>>]
Srp(id, pgc) == [id |-> id, pgc |-> pgc]
Go(cmd, a, b, c) == Links(Always, LinkTo(cmd, a, b, c))

\* A film: First Play jumps to it, its last cell calls the disc's menu, its menus
\* have a dispatcher without cells, a page that is missing, a dead end and a way
\* back; its largest menu file holds no menu.
Film ==
  [fp |-> <<[Blank EXCEPT !.cells = <<>>,
                          !.pre = <<Sets(Always, Set("rnd", 1, Imm(2))), Go("JumpTT", 1, 0, 0)>>]>>,
   srpt |-> <<<<1, 1>>>>,
   vmgm |-> <<Srp(2, [Blank EXCEPT !.buttons = <<Go("JumpTT", 1, 0, 0), Go("LinkPGCN", 9, 0, 0),
                                                  Go("JumpSS_VTSM", 1, 1, 3)>>])>>,
   vtsm |-> <<<<Srp(3, [Blank EXCEPT !.goup = 2,
                          !.buttons = <<Go("LinkRSM", 0, 0, 0), Go("LinkPGCN", 2, 0, 0),
                                        Go("LinkPGCN", 9, 0, 0), Go("LinkGoUpPGC", 3, 0, 0)>>]),
                Srp(0, [Blank EXCEPT !.cells = <<>>, !.pm = <<>>,
                          !.post = <<Links(If(Sprm(8), "=", Imm(Button(2))), LinkTo("JumpVTS_PTT", 1, 2, 0)),
                                     Go("LinkPGCN", 3, 0, 0)>>]),
                Srp(0, [Blank EXCEPT !.cells = <<>>, !.pm = <<>>])>>>>,
   tt |-> <<<<Srp(1, [Blank EXCEPT !.cells = <<Cell(0, 0), Cell(0, 1)>>, !.pm = <<1, 2>>,
                        !.cellc = <<Command(4, If(Gprm(0), "=", Imm(2)), Set("add", 0, Imm(1)),
                                            LinkTo("LinkPrevC", 0, 0, 0))>>,
                        !.post = <<Sets(Always, Set("mod", 0, Imm(2))),
                                   Go("CallSS_VMGM_MENU", 2, 1, 0)>>])>>>>,
   best_vts |-> 1, best_menu_vts |-> 2]

\* A game: the largest menu belongs to another title set, its Root goes round
\* while a register says so, and the titles chain to and fro.
Game ==
  [fp |-> <<[Blank EXCEPT !.cells = <<>>, !.pre = <<Go("LinkNoLink", 0, 0, 0)>>,
                          !.post = <<Go("JumpTT", 1, 0, 0)>>]>>,
   srpt |-> <<<<1, 1>>, <<2, 1>>>>,
   vmgm |-> <<>>,
   vtsm |-> <<<<Srp(3, [Blank EXCEPT !.buttons = <<Go("JumpVTS_TT", 1, 0, 0), Go("JumpTT", 2, 0, 0),
                                                    Go("CallSS_VMGM_PGC", 1, 1, 0),
                                                    Go("LinkTailPGC", 0, 0, 0)>>])>>,
              <<Srp(3, [Blank EXCEPT !.pre = <<Links(If(Gprm(0), "=", Imm(0)), LinkTo("LinkTopPGC", 0, 0, 0)),
                                               Links(If(Gprm(0), "=", Imm(1)), LinkTo("LinkPGCN", 7, 0, 0))>>,
                                      !.buttons = <<Go("LinkRSM", 0, 0, 0), Go("LinkPGCN", 2, 0, 0)>>]),
                Srp(0, [Blank EXCEPT !.cells = <<>>, !.post = <<Go("JumpSS_VTSM", 1, 1, 3)>>])>>>>,
   tt |-> <<<<Srp(1, [Blank EXCEPT !.cells = Plays, !.next = 2,
                        !.post = <<Sets(If(Gprm(0), "<", Imm(2)), Set("add", 0, Imm(1)))>>]),
              Srp(0, [Blank EXCEPT !.cells = Plays \o Plays, !.pm = <<1, 2>>, !.prev = 1,
                        !.buttons = <<Go("LinkNextPG", 0, 0, 0), Go("LinkTopC", 0, 0, 0),
                                      Go("Exit", 0, 0, 0), Go("LinkPGN", 2, 1, 0)>>,
                        !.post = <<Go("CallSS_VTSM", 3, 1, 0)>>])>>,
            <<Srp(1, [Blank EXCEPT !.cells = Plays, !.next = 1, !.pre = <<Goto(If(Gprm(0), "#", Imm(2)), 3),
                                                Sets(Always, Set("mov", 0, Imm(0)))>>])>>>>,
   best_vts |-> 1, best_menu_vts |-> 2]

\* A disc without First Play or a menu of its own, whose guess has no menu either.
Bare ==
  [fp |-> <<>>, srpt |-> <<>>, vmgm |-> <<>>,
   vtsm |-> <<<<Srp(3, [Blank EXCEPT !.buttons = <<Go("LinkRSM", 0, 0, 0)>>])>>>>,
   tt |-> <<<<Srp(1, [Blank EXCEPT !.cells = Plays \o Plays, !.pm = <<1, 2>>, !.next = 2,
                        !.buttons = <<Go("JumpTT", 5, 0, 0), Go("JumpVTS_TT", 4, 0, 0),
                                      Go("LinkNextC", 0, 0, 0), Go("LinkPrevPGC", 0, 0, 0)>>]),
              Srp(0, [Blank EXCEPT !.cells = Plays, !.prev = 1])>>>>,
   best_vts |-> 1, best_menu_vts |-> 3]

\* A disc that is wrong in places: the guess's Root resumes at once and has a way
\* to a First Play that is not there, the other one is followed by a PGC that is not.
Broken ==
  [fp |-> <<>>, srpt |-> <<>>, vmgm |-> <<>>,
   vtsm |-> <<<<Srp(3, [Blank EXCEPT !.next = 9, !.buttons = <<Go("LinkTailPGC", 0, 0, 0)>>])>>,
              <<Srp(3, [Blank EXCEPT !.pre = <<Links(If(Gprm(0), "=", Imm(0)), LinkTo("LinkRSM", 2, 0, 0))>>,
                                      !.buttons = <<Go("JumpSS_FP", 0, 0, 0), Go("JumpSS_VTSM", 1, 1, 3)>>])>>>>,
   tt |-> <<<<Srp(1, [Blank EXCEPT !.cells = Plays \o Plays,
                        !.buttons = <<Sets(Always, Set("mov", 0, Imm(1)))>>])>>>>,
   best_vts |-> 1, best_menu_vts |-> 2]

\* A disc whose POST blocks link to their own end: a title's three times and then
\* on to the next, that one's for ever unless a button has been pressed, and a menu's
\* for ever.
Tails ==
  [fp |-> <<[Blank EXCEPT !.cells = <<>>, !.pre = <<Go("JumpTT", 1, 0, 0)>>]>>,
   srpt |-> <<<<1, 1>>>>, vmgm |-> <<>>,
   vtsm |-> <<<<Srp(3, [Blank EXCEPT !.buttons = <<Go("LinkTailPGC", 0, 0, 0), Go("LinkRSM", 0, 0, 0),
                                                    Go("LinkNextPG", 0, 0, 0)>>,
                                      !.post = <<Go("LinkTailPGC", 0, 0, 0)>>])>>>>,
   tt |-> <<<<Srp(1, [Blank EXCEPT !.cells = Plays, !.next = 2,
                        !.post = <<Sets(If(Gprm(0), "<", Imm(3)), Set("add", 0, Imm(1))),
                                   Links(If(Gprm(0), "<", Imm(3)), LinkTo("LinkTailPGC", 0, 0, 0))>>]),
              Srp(0, [Blank EXCEPT !.cells = Plays, !.next = 1, !.prev = 1,
                        !.buttons = <<Sets(Always, Set("mov", 0, Imm(0)))>>,
                        !.post = <<Links(If(Gprm(0), "#", Imm(0)), LinkTo("LinkNextPG", 0, 0, 0))>>])>>>>,
   best_vts |-> 1, best_menu_vts |-> 1]

McDiscs == {Film, Game, Bare, Broken, Tails}
=============================================================================

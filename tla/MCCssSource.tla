---------------------------- MODULE MCCssSource ----------------------------
(***************************************************************************)
(* CssSource on a disc with an IFO and its BUP of two sectors each, and       *)
(* between them a menu VOB and a title in two parts, which share a key or     *)
(* have one each.  A mount may find unreadable nothing, one sector of each    *)
(* copy, both copies of all, or the head of a VOB; a pair that is lost or     *)
(* comes back later is that of the sectors 1 and 7.                          *)
(***************************************************************************)
EXTENDS CssSource

McVobs == << [start |-> 2, nsec |-> 1, tt |-> 1, part |-> 0],
             [start |-> 3, nsec |-> 1, tt |-> 1, part |-> 1],
             [start |-> 4, nsec |-> 2, tt |-> 1, part |-> 2] >>
McPairs == { [ifo |-> 0, nifo |-> 2, bup |-> 6, nbup |-> 2] }
McTruths == { << 1, 1, 1 >>, << 1, 2, 2 >> }
McBads == { {}, {1, 6}, {0, 1, 6, 7}, {4} }
=============================================================================

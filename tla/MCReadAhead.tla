---------------------------- MODULE MCReadAhead ----------------------------
(***************************************************************************)
(* ReadAhead on a small source.  Bad is the set of sectors that may fail;   *)
(* a failing sector may also succeed on a later attempt.                    *)
(***************************************************************************)
EXTENDS ReadAheadProofs

CONSTANT Bad

Exact(l, n) == [i \in 0 .. n - 1 |-> l + i]

(* css_src_read() over a block device: a failure past the first sector      *)
(* zero-fills the rest of the window.                                       *)
CssFails(l, n) == l \in Bad
CssReads(l, n) ==
  {Exact(l, n)} \union
  {[i \in 0 .. n - 1 |-> IF l + i >= b THEN Zero ELSE l + i] :
     b \in Bad \intersect (l + 1 .. l + n - 1)}
=============================================================================

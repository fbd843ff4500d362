------------------------------ MODULE MCRealign ------------------------------
(* Model-checking instance of Realign: the counters keep their order          *)
(* (a flush is shorter than the watchdog) and are scaled down from 64 and     *)
(* 13.5 million cycles.                                                       *)
EXTENDS Realign

MCFlushLen == 2
MCWdog     == 3
=============================================================================

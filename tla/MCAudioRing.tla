---------------------------- MODULE MCAudioRing ----------------------------
(* Model-checking instance of AudioRing: rings of a few bytes and frames, so  *)
(* that both wrap, both fill, and a frame can be larger than what is left.    *)
EXTENDS AudioRing
=============================================================================

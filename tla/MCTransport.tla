---------------------------- MODULE MCTransport ----------------------------
(* Transport on a title of three VOBUs, of one, two and one sectors: a seek    *)
(* can land on a VOBU's start or inside it, and at either end of the title.   *)
EXTENDS Transport

McSec == << 1, 2, 4 >>
=============================================================================

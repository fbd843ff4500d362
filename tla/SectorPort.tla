----------------------------- MODULE SectorPort -----------------------------
(***************************************************************************)
(* What the sector service of the HPS side promises the FPGA core, whatever *)
(* sits between the core and the disc: one answer to a request for a        *)
(* logical block, and the answer is the block that was asked for.           *)
(* The only licence the service has is to hand over zeros for a block past  *)
(* the end of the source, or for a block it has given up on.                *)
(***************************************************************************)
EXTENDS Integers

CONSTANT
  Total       (* number of sectors of the source                           *)

Zero == -1    (* content of a zero-filled sector                           *)
None == -1    (* no request outstanding                                    *)

VARIABLES
  request,    (* the block the core is waiting for, or None                *)
  answer,     (* [lba, data] of the last answer given                      *)
  givenUp     (* sectors the service has declared unreadable               *)

portVars == << request, answer, givenUp >>

(* What the core may legitimately be handed for block l. *)
Allowed(l) ==
  IF l >= Total THEN {Zero} ELSE {l} \union {z \in {Zero} : l \in givenUp}

Init ==
  /\ request = None
  /\ answer  = [lba |-> None, data |-> Zero]
  /\ givenUp = {}

(* The core raises sd_rd and holds it until it is acknowledged. *)
Ask ==
  /\ request = None
  /\ request' \in Nat
  /\ UNCHANGED << answer, givenUp >>

(* The service acknowledges, with an allowed content. *)
Answer ==
  /\ request # None
  /\ \E d \in Allowed(request) : answer' = [lba |-> request, data |-> d]
  /\ request' = None
  /\ UNCHANGED givenUp

(* The medium goes away: the outstanding request goes with it. *)
Withdraw ==
  /\ request' = None
  /\ UNCHANGED << answer, givenUp >>

GiveUp ==
  /\ givenUp \subseteq givenUp'
  /\ givenUp' \subseteq 0 .. Total - 1
  /\ UNCHANGED << request, answer >>

(* A new medium is mounted: what was unreadable on the old one is forgotten. *)
Remount ==
  /\ request = None
  /\ givenUp' = {}
  /\ UNCHANGED << request, answer >>

Next == Ask \/ Answer \/ Withdraw \/ GiveUp \/ Remount

Spec == Init /\ [][Next]_portVars
=============================================================================
